---------------------------- MODULE Authorization ----------------------------
(***************************************************************************)
(* What happens to a request before a handler sees it: the routes of        *)
(* internal/api/router.go, the checks of internal/api/middleware.go in      *)
(* their order, and the policy policies/abac/authz.rego they ask.           *)
(*                                                                         *)
(* The policy engine is started before the server (cmd/api/main.go exits    *)
(* without it), so the middleware's nil check is never taken; an evaluation *)
(* may still fail, when the request's context has ended.                    *)
(***************************************************************************)
EXTENDS Naturals

CONSTANTS Namespaces    \* values of ?namespace= and of target_namespace

VARIABLES
    request,    \* [method, path, token, namespace, target]
    stage,      \* where the request is
    code        \* the HTTP status of the answer, 0 while there is none

authVars == <<request, stage, code>>

Methods == {"GET", "POST", "DELETE"}

Patterns == {"/api/v1/jobs", "/api/v1/jobs/{id}", "elsewhere"}

\* "none" is a request without the header.
Tokens == {"admin-token", "dev-token", "view-token", "unknown-token", "none"}

\* namespace is the query parameter, empty when it is absent.  target is what the
\* middleware does not see: the body's target_namespace of a POST, or the
\* namespace of the job whose id a GET names; empty when there is none.
Requests ==
    {r \in [method : Methods, path : Patterns, token : Tokens,
            namespace : {{}} \cup {{n} : n \in Namespaces},
            target : {{}} \cup {{n} : n \in Namespaces}] :
        r.method = "POST" \/ r.path = "/api/v1/jobs/{id}" \/ r.target = {}}

RequestStages == {"router", "middleware", "handler", "answered"}

-----------------------------------------------------------------------------
(* Operators of the code *)

\* MountRoutes: the methods each pattern is mounted with.
Mounted(path) == CASE path = "/api/v1/jobs"      -> {"POST", "GET"}
                   [] path = "/api/v1/jobs/{id}" -> {"GET"}
                   [] OTHER                      -> {}

resolveAction(r) ==
    CASE r.method = "POST" /\ r.path = "/api/v1/jobs"      -> "create_job"
      [] r.method = "GET"  /\ r.path = "/api/v1/jobs"      -> "list_jobs"
      [] r.method = "GET"  /\ r.path = "/api/v1/jobs/{id}" -> "view_job"
      [] OTHER                                             -> ""

resolveRole(r) == CASE r.token = "admin-token" -> "admin"
                    [] r.token = "dev-token"   -> "developer"
                    [] r.token = "view-token"  -> "viewer"
                    [] OTHER                   -> ""

AuthorizedNamespace(r) ==
    IF r.namespace = {} THEN "sandbox" ELSE CHOOSE n \in r.namespace : TRUE

\* The namespaces a handler acts on.  handleListJobs filters by the parameter, or
\* not at all; the other two go by the body and by the job's row.
ActsOn(r) ==
    IF resolveAction(r) # "list_jobs" THEN r.target
    ELSE IF r.namespace = {} THEN Namespaces
    ELSE r.namespace

\* The policy's table.
roles ==
    [admin     |-> [actions    |-> {"create_job", "list_jobs", "view_job", "delete_job"},
                    namespaces |-> {"*"}],
     developer |-> [actions    |-> {"create_job", "list_jobs", "view_job"},
                    namespaces |-> {"sandbox", "staging"}],
     viewer    |-> [actions    |-> {"list_jobs", "view_job"},
                    namespaces |-> {"*"}]]

\* Variant: the wildcard is compared like a name.
namespaceListed(target, allowed) == target \in allowed

namespace_allowed(target, allowed) == "*" \in allowed \/ target \in allowed

allow(role, action, namespace) ==
    /\ role \in DOMAIN roles
    /\ action \in roles[role].actions
    /\ namespace_allowed(namespace, roles[role].namespaces)

-----------------------------------------------------------------------------
(* Steps *)

AuthInit(rs) == request \in rs /\ stage = "router" /\ code = 0

Reply(c) == stage' = "answered" /\ code' = c /\ UNCHANGED request

\* chi answers 404 and 405 by itself.
Route ==
    /\ stage = "router"
    /\ \/ /\ request.method \in Mounted(request.path)
          /\ stage' = "middleware"
          /\ UNCHANGED <<request, code>>
       \/ Mounted(request.path) = {} /\ Reply(404)
       \/ /\ Mounted(request.path) # {}
          /\ request.method \notin Mounted(request.path)
          /\ Reply(405)

authMiddleware ==
    /\ stage = "middleware"
    /\ IF resolveAction(request) = "" THEN Reply(400)
       ELSE IF resolveRole(request) = "" THEN Reply(401)
       ELSE \/ Reply(500)
            \/ IF allow(resolveRole(request), resolveAction(request),
                        AuthorizedNamespace(request))
               THEN stage' = "handler" /\ UNCHANGED <<request, code>>
               ELSE Reply(403)

-----------------------------------------------------------------------------
(* Properties *)

\* README.md's table of tokens: what each may do, and in which namespaces.
DocumentedActions(token) ==
    CASE token \in {"admin-token", "dev-token"} -> {"create_job", "list_jobs", "view_job"}
      [] token = "view-token"                   -> {"list_jobs", "view_job"}
      [] OTHER                                  -> {}

DocumentedNamespaces(token) ==
    IF token = "dev-token" THEN {"sandbox", "staging"} ELSE Namespaces

Permitted(r) ==
    /\ resolveAction(r) \in DocumentedActions(r.token)
    /\ ActsOn(r) \subseteq DocumentedNamespaces(r.token)

\* The middleware judges a request by ?namespace=, or "sandbox", whatever it acts
\* on.  Of the one token whose namespaces are restricted, the requests that act
\* on another namespace than the one judged, or on several.
JudgedElsewhere(r) ==
    r.token = "dev-token" /\ ActsOn(r) # {AuthorizedNamespace(r)}

\* Every other mounted request is decided as README.md's table says of the
\* namespaces it acts on, three pieces of code and a policy file later: only a
\* permitted one reaches a handler, only one that is not permitted to a known
\* token is forbidden, only an unknown token is told to authenticate, and none
\* is refused as an unknown action.
DecidedAsDocumented ==
    /\ stage = "handler" => Permitted(request) \/ JudgedElsewhere(request)
    /\ code = 403 =>
          /\ request.token \notin {"none", "unknown-token"}
          /\ ~Permitted(request) \/ JudgedElsewhere(request)
    /\ code = 401 => request.token \in {"none", "unknown-token"}
    /\ code # 400
=============================================================================
