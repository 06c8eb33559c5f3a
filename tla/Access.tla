------------------------------- MODULE Access -------------------------------
(* The bearer tokens of internal/authz and what each surface asks of them   *)
(* before it runs an operation: the REST routes (internal/httpapi), the MCP *)
(* tools over HTTP and over stdio (internal/mcpapi), and the FUSE files,    *)
(* which ask nothing.                                                       *)
(*                                                                          *)
(* A scope is a record [verb, resource]; "*" is All.  An entry of the       *)
(* configuration is a record [value, audience, scopes]; a missing header,   *)
(* or one that is not "Bearer <token>", is NoBearer.                        *)
EXTENDS Integers, Sequences, FiniteSetsExt

CONSTANTS Blank,    \* a token value that is empty once trimmed
          NoBearer  \* what bearerToken makes of a header without a token

Audiences == {"http", "mcp"}
Scope(verb, resource) == [verb |-> verb, resource |-> resource]
All == Scope("*", "")

ValidScope(scope) ==
  \/ scope = All
  \/ scope.verb \in {"read", "write"} /\ scope.resource # ""

ScopeAllows(grant, required) ==
  \/ grant \in {All, required}
  \/ grant.resource = "*" /\ grant.verb = required.verb

ScopesAllow(scopes, required) == \E grant \in scopes : ScopeAllows(grant, required)

-----------------------------------------------------------------------------
(* New: one entry that normalizeToken rejects keeps the server from starting; *)
(* an entry without an audience has both.                                     *)
ValidEntry(entry) ==
  /\ entry.value # Blank
  /\ entry.audience \subseteq Audiences
  /\ \A scope \in entry.scopes : ValidScope(scope)

Accepted(entries) == \A i \in DOMAIN entries : ValidEntry(entries[i])

Stored(entries) ==
  [i \in DOMAIN entries |->
     [entries[i] EXCEPT !.audience = IF @ = {} THEN Audiences ELSE @]]

-----------------------------------------------------------------------------
(* findToken returns the first entry with the audience and the value; the    *)
(* first definition is a mutant that forgets the audience.                   *)
HitsOfAnyAudience(tokens, audience, bearer) ==
  {i \in DOMAIN tokens : tokens[i].value = bearer}

Hits(tokens, audience, bearer) ==
  {i \in DOMAIN tokens : audience \in tokens[i].audience /\ tokens[i].value = bearer}

FindToken(tokens, hits) == tokens[Min(hits)]

AuthorizeRequest(tokens, audience, bearer, required) ==
  LET hits == Hits(tokens, audience, bearer) IN
    IF tokens = <<>> THEN "allowed"
    ELSE IF bearer = NoBearer \/ hits = {} THEN "unauthorized"
    ELSE IF ScopesAllow(FindToken(tokens, hits).scopes, required) THEN "allowed"
    ELSE "forbidden"

(* The surfaces.  requireScope asks for the http audience.  For MCP over    *)
(* HTTP the middleware finds the token and the tool checks its scopes,      *)
(* which comes to the same check for the mcp audience.  RunStdio passes no  *)
(* authorizer, and the FUSE handlers call the service.                      *)
Surfaces == {"http", "mcp", "stdio", "fuse"}

Authorize(tokens, surface, bearer, required) ==
  IF surface \in Audiences
    THEN AuthorizeRequest(tokens, surface, bearer, required) ELSE "allowed"

(* The scope each route and each tool is registered with. *)
ScopeOf ==
  [screenshot |-> Scope("read", "screenshot"),
   click      |-> Scope("write", "mouse"),
   move       |-> Scope("write", "mouse"),
   scroll     |-> Scope("write", "mouse"),
   keypress   |-> Scope("write", "keyboard"),
   type       |-> Scope("write", "keyboard")]
=============================================================================
