------------------------------ MODULE Adapters ------------------------------
(***************************************************************************)
(* What the service adapters declare and how a request is routed to a      *)
(* declaration (adapter/registry, adapter/github, adapter/cloudflare,      *)
(* adapter/model, adapter/generichttp).                                    *)
(*                                                                         *)
(* A path is the sequence of its segments.  A template holds placeholders, *)
(* members of Keys, where a path holds values.  Schemas, response fields   *)
(* and redaction rules are data no property here depends on.               *)
(***************************************************************************)
EXTENDS Naturals, Sequences, FiniteSets

CONSTANTS
    Custom,      \* capabilities of the service a user defined
    CustomBase,  \* the path of its base URL
    Blank,       \* values of nothing but white space
    Dotted,      \* values that hold ".."
    Cutting      \* values that hold "?" or "#"

Keys == {"{owner}", "{repo}", "{number}", "{run_id}", "{username}", "{secret_name}",
         "{zone_id}", "{record_id}", "{account_id}", "{tunnel_id}", "{token_id}",
         "{member_id}", "{rule_id}", "{item}"}

Natures == {"destructive", "permission_change", "secret_access", "billing",
            "external_communication"}

\* The part of a Capability that decides anything; keys are the resource
\* dimensions of its minimum scope.
Cap(operation, method, path, risk, rollback, idempotent, nature) ==
    [operation |-> operation, method |-> method, path |-> path,
     keys |-> {path[i] : i \in 1..Len(path)} \cap Keys, risk |-> risk,
     rollback |-> rollback, idempotent |-> idempotent, nature |-> nature]

Reads(operation, path) == Cap(operation, "GET", path, "low", "none", TRUE, {})

-----------------------------------------------------------------------------
(* The declarations *)

Repo == <<"repos", "{owner}", "{repo}">>

GitHubOffered ==
    {Reads("read_repository", Repo),
     Reads("read_issue", Repo \o <<"issues", "{number}">>),
     Reads("read_pull_request", Repo \o <<"pulls", "{number}">>),
     Reads("read_actions_run", Repo \o <<"actions", "runs", "{run_id}">>),
     Reads("read_actions_logs", Repo \o <<"actions", "runs", "{run_id}", "logs">>),
     Cap("create_issue", "POST", Repo \o <<"issues">>, "medium", "manual", FALSE, {}),
     Cap("create_pull_request", "POST", Repo \o <<"pulls">>, "medium", "manual", FALSE, {}),
     Cap("create_comment", "POST", Repo \o <<"issues", "{number}", "comments">>,
         "medium", "manual", FALSE, {"external_communication"}),
     Cap("create_branch", "POST", Repo \o <<"git", "refs">>, "medium", "manual", FALSE, {})}

\* Declared, so that it can be judged and shown, and never executed.
GitHubWithheld ==
    {Cap("merge_default_branch", "PUT", Repo \o <<"pulls", "{number}", "merge">>,
         "high", "none", FALSE, {}),
     Cap("delete_repository", "DELETE", Repo, "high", "none", FALSE, {"destructive"}),
     Cap("update_collaborator", "PUT", Repo \o <<"collaborators", "{username}">>,
         "high", "manual", FALSE, {"permission_change"}),
     Cap("update_secret", "PUT", Repo \o <<"actions", "secrets", "{secret_name}">>,
         "high", "none", FALSE, {"secret_access"}),
     Cap("update_actions_permissions", "PUT", Repo \o <<"actions", "permissions">>,
         "high", "manual", FALSE, {"permission_change"})}

Zone == <<"zones", "{zone_id}">>
Records == Zone \o <<"dns_records">>
Record == Records \o <<"{record_id}">>

CloudflareOffered ==
    {Reads("read_zone", Zone),
     Reads("read_dns_records", Records),
     Reads("read_dns_record", Record),
     Reads("read_tunnel", <<"accounts", "{account_id}", "cfd_tunnel", "{tunnel_id}">>),
     Cap("create_dns_record", "POST", Records, "medium", "manual", FALSE, {}),
     Cap("update_dns_record", "PUT", Record, "medium", "manual", TRUE, {}),
     Cap("delete_dns_record", "DELETE", Record, "high", "manual", FALSE, {"destructive"}),
     Cap("purge_cache", "POST", Zone \o <<"purge_cache">>, "medium", "automatic", TRUE, {})}

CloudflareWithheld ==
    {Cap("delete_zone", "DELETE", Zone, "high", "none", FALSE, {"destructive"}),
     Cap("manage_token", "PUT", <<"user", "tokens", "{token_id}">>,
         "high", "none", FALSE, {"secret_access"}),
     Cap("manage_member", "PUT", <<"accounts", "{account_id}", "members", "{member_id}">>,
         "high", "manual", FALSE, {"permission_change"}),
     Cap("bulk_update_dns", "PATCH", Records, "high", "none", FALSE, {}),
     Cap("update_security_rules", "PUT", Zone \o <<"firewall", "rules", "{rule_id}">>,
         "high", "manual", FALSE, {"permission_change"})}

\* A completion names its model in the body and the list its account nowhere:
\* neither dimension stands in the path.
Model(completion) ==
    {[Cap("create_completion", "POST", completion, "medium", "automatic", FALSE,
          {"external_communication"}) EXCEPT !.keys = {"model"}],
     [Reads("read_models", <<"models">>) EXCEPT !.keys = {"account"}]}

\* assembleAdapters, and the generic adapter an owner's definition makes.
Declared ==
    [github |-> GitHubOffered \cup GitHubWithheld,
     cloudflare |-> CloudflareOffered \cup CloudflareWithheld,
     openai |-> Model(<<"chat", "completions">>), anthropic |-> Model(<<"messages">>),
     custom |-> Custom]

Services == DOMAIN Declared

\* The paths of the base URLs.
BasePath == [github |-> <<>>, cloudflare |-> <<"client", "v4">>, openai |-> <<"v1">>,
             anthropic |-> <<"v1">>, custom |-> CustomBase]

\* The maps named executable: what else is declared is refused when executed.
Executable ==
    [github |-> {"read_repository", "read_issue", "read_pull_request", "read_actions_run",
                 "read_actions_logs", "create_issue", "create_pull_request",
                 "create_comment", "create_branch"},
     cloudflare |-> {"read_zone", "read_dns_records", "read_dns_record", "read_tunnel",
                     "create_dns_record", "update_dns_record", "delete_dns_record",
                     "purge_cache"},
     openai |-> {"create_completion", "read_models"},
     anthropic |-> {"create_completion", "read_models"},
     custom |-> {c.operation : c \in Custom}]

\* Operations that read the record they are about to change.
ChangesBefore == {"update_dns_record", "delete_dns_record"}
PreviewSource == "read_dns_record"

Capability(service, operation) ==
    CHOOSE c \in Declared[service] : c.operation = operation

-----------------------------------------------------------------------------
(* Registration *)

Write(c) == c.method \notin {"GET", "HEAD"}

\* Capability.Validate: a declaration may not play its own risk down, and may
\* use no placeholder its scope does not name.
Validate(c) ==
    /\ c.keys # {}
    /\ c.nature \cap {"destructive", "permission_change", "secret_access", "billing"} # {}
          => c.risk = "high"
    /\ Write(c) /\ c.rollback = "none" => c.risk = "high"
    /\ Write(c) /\ "external_communication" \in c.nature => c.risk # "low"
    /\ ~Write(c) => c.idempotent /\ "destructive" \notin c.nature
    /\ \A i \in 1..Len(c.path) : c.path[i] \in Keys => c.path[i] \in c.keys

\* Registry.add: every declaration is valid and no operation declared twice.
Registers(service) ==
    /\ Declared[service] # {}
    /\ \A c \in Declared[service] : Validate(c)
    /\ \A c, d \in Declared[service] : c.operation = d.operation => c = d

\* intent.DefaultRiskOf: a service is as risky as its riskiest operation.
DefaultRiskOf(service) ==
    LET labels == {c.risk : c \in Declared[service]}
    IN  IF "high" \in labels THEN "high" ELSE IF "medium" \in labels THEN "medium" ELSE "low"

-----------------------------------------------------------------------------
(* Routing *)

\* MatchPath: as many segments, none empty, equal outside the placeholders,
\* and ".." nowhere.
MatchPath(template, path) ==
    /\ Len(template) = Len(path)
    /\ \A i \in 1..Len(path) :
          /\ path[i] # "" /\ path[i] \notin Dotted
          /\ template[i] \in Keys \/ template[i] = path[i]

\* The values of the placeholders in a path that matches; of a placeholder that
\* stands in the template twice the last value counts.
Captured(template, path) ==
    [k \in {template[i] : i \in 1..Len(template)} \cap Keys |->
        path[CHOOSE i \in 1..Len(template) :
                template[i] = k /\ \A j \in (i + 1)..Len(template) : template[j] # k]]

ToUpper(method) ==
    CASE method = "get" -> "GET"     [] method = "head" -> "HEAD"   [] method = "post" -> "POST"
      [] method = "put" -> "PUT"     [] method = "patch" -> "PATCH"
      [] method = "delete" -> "DELETE" [] OTHER -> method

\* strings.EqualFold of two methods.
EqualFold(a, b) == ToUpper(a) = ToUpper(b)

\* Registry.Resolve goes through a Go map: any of these may be the answer.  The
\* path is compared as it came: it must not hold the path of the base URL.
Resolve(service, method, path) ==
    {c \in Declared[service] : EqualFold(c.method, method) /\ MatchPath(c.path, path)}

\* buildPath refuses a value that is missing, blank or changes the endpoint.
Builds(c, resource) ==
    \A i \in 1..Len(c.path) : c.path[i] \in Keys =>
        /\ c.path[i] \in DOMAIN resource
        /\ resource[c.path[i]] \notin Blank \cup Dotted \cup Cutting

buildPath(c, resource) ==
    [i \in 1..Len(c.path) |-> IF c.path[i] \in Keys THEN resource[c.path[i]] ELSE c.path[i]]

-----------------------------------------------------------------------------
\* Assembling the gateway registers every adapter: no declaration is refused.
ASSUME DeclarationsRegister == \A s \in Services : Registers(s)

\* Two declarations of a service that both match a path and a method are the
\* same one, so the order in which a Go map is walked decides nothing.
ASSUME RoutesAreUnambiguous ==
    \A s \in Services : \A c, d \in Declared[s] :
        /\ EqualFold(c.method, d.method)
        /\ Len(c.path) = Len(d.path)
        /\ \A i \in 1..Len(c.path) :
              c.path[i] = d.path[i] \/ c.path[i] \in Keys \/ d.path[i] \in Keys
        => c = d

\* Only declared operations are executable, and what a preview asks is a read.
ASSUME ExecutionIsDeclared ==
    /\ \A s \in Services : Executable[s] \subseteq {c.operation : c \in Declared[s]}
    /\ ~Write(Capability("cloudflare", PreviewSource))
=============================================================================
