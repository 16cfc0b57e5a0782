----------------------------- MODULE TokenCache -----------------------------
(***************************************************************************)
(* PerTenantFactory (internal/gitprovider/pertenant.go): a cache of git    *)
(* providers, one per tenant, each built from the token that titlis-api    *)
(* holds for the tenant.  Activities, scans and handlers call ForTenant    *)
(* concurrently; the lock is not held while the token is fetched.          *)
(*                                                                         *)
(* A provider is abstracted to the version of the token it was built from, *)
(* 0 being "none".                                                         *)
(***************************************************************************)
EXTENDS Naturals

CONSTANTS
  Tenant,
  Caller,       \* goroutines that ask for a provider
  MaxVersion    \* bound on the tokens a tenant saves

ASSUME MaxVersionAssumption == MaxVersion \in Nat

VARIABLES
  token,      \* token[t]:  version of the token titlis-api holds for t
  noticed,    \* noticed[t]: the version Invalidate was last called for
  cache,      \* cache[t]:  version of the cached provider
  call,       \* call[c]:   where c is in ForTenant, for which tenant, with
              \*              which token, and the version known to be saved
              \*              when it began
  answer,     \* answer[c]: what its last call returned
  raced       \* raced[t]:  Invalidate found a fill under way that had fetched
              \*              a token older than the one announced

vars == <<token, noticed, cache, call, answer, raced>>

Version == 0..MaxVersion
CallAt  == {"idle", "fetch", "publish"}
Answer  == {"none", "fallback", "provider"}

\* Every variable has its type; no provider is built from an empty token.
TypeOK ==
  /\ token \in [Tenant -> Version]
  /\ noticed \in [Tenant -> Version]
  /\ cache \in [Tenant -> Version]
  /\ call \in [Caller -> [at : CallAt, tenant : Tenant, got : Version, known : Version]]
  /\ answer \in [Caller -> [kind : Answer, version : Version, known : Version]]
  /\ raced \in [Tenant -> BOOLEAN]
  /\ \A c \in Caller : answer[c].kind = "provider" => answer[c].version # 0

NoAnswer == [kind |-> "none", version |-> 0, known |-> 0]

Idle(t) == [at |-> "idle", tenant |-> t, got |-> 0, known |-> 0]

Init ==
  /\ token = [t \in Tenant |-> 0]
  /\ noticed = [t \in Tenant |-> 0]
  /\ cache = [t \in Tenant |-> 0]
  /\ call \in [Caller -> {Idle(t) : t \in Tenant}]
  /\ answer = [c \in Caller |-> NoAnswer]
  /\ raced = [t \in Tenant |-> FALSE]

-----------------------------------------------------------------------------
(* ForTenant, between one use of the lock or of the network and the next.  *)

Returns(c, t, kind, version, known) ==
  /\ call' = [call EXCEPT ![c] = Idle(t)]
  /\ answer' = [answer EXCEPT ![c] = [kind |-> kind, version |-> version, known |-> known]]

Lookup(c, t) ==
  /\ call[c].at = "idle"
  /\ \/ cache[t] # 0 /\ Returns(c, t, "provider", cache[t], noticed[t])
     \/ /\ cache[t] = 0
        /\ call' = [call EXCEPT ![c] = [at |-> "fetch", tenant |-> t, got |-> 0,
                                        known |-> noticed[t]]]
        /\ answer' = [answer EXCEPT ![c] = NoAnswer]
  /\ UNCHANGED <<token, noticed, cache, raced>>

\* No token, or an error: the fallback, and nothing is cached.
Fetch(c) ==
  LET t == call[c].tenant
  IN  /\ call[c].at = "fetch"
      /\ \/ /\ token[t] # 0
            /\ call' = [call EXCEPT ![c].at = "publish", ![c].got = token[t]]
            /\ UNCHANGED answer
         \/ Returns(c, t, "fallback", 0, call[c].known)
      /\ UNCHANGED <<token, noticed, cache, raced>>

\* Mutant: the cache does not tell tenants apart.
PublishForAnyone(c) ==
  LET t == call[c].tenant
  IN  /\ call[c].at = "publish"
      /\ cache' = [s \in Tenant |-> call[c].got]
      /\ Returns(c, t, "provider", call[c].got, call[c].known)
      /\ UNCHANGED <<token, noticed, raced>>

\* The provider just built replaces whatever is cached by now.
Publish(c) ==
  LET t == call[c].tenant
  IN  /\ call[c].at = "publish"
      /\ cache' = [cache EXCEPT ![t] = call[c].got]
      /\ Returns(c, t, "provider", call[c].got, call[c].known)
      /\ UNCHANGED <<token, noticed, raced>>

-----------------------------------------------------------------------------
(* titlis-api, and OnGitHubConfigured, which it calls once a token is saved. *)

SaveToken(t) ==
  /\ token[t] < MaxVersion
  /\ token' = [token EXCEPT ![t] = @ + 1]
  /\ UNCHANGED <<noticed, cache, call, answer, raced>>

Behind(c, t) == call[c].at = "publish" /\ call[c].tenant = t /\ call[c].got < token[t]

\* Mutant: nothing is evicted.
InvalidateNothing(t) ==
  /\ noticed[t] < token[t]
  /\ noticed' = [noticed EXCEPT ![t] = token[t]]
  /\ raced' = [raced EXCEPT ![t] = \E c \in Caller : Behind(c, t)]
  /\ UNCHANGED <<token, cache, call, answer>>

Invalidate(t) ==
  /\ noticed[t] < token[t]
  /\ noticed' = [noticed EXCEPT ![t] = token[t]]
  /\ cache' = [cache EXCEPT ![t] = 0]
  /\ raced' = [raced EXCEPT ![t] = \E c \in Caller : Behind(c, t)]
  /\ UNCHANGED <<token, call, answer>>

\* The process starts again with an empty cache.
Restart ==
  /\ cache' = [t \in Tenant |-> 0]
  /\ call' = [c \in Caller |-> Idle(call[c].tenant)]
  /\ answer' = [c \in Caller |-> NoAnswer]
  /\ raced' = [t \in Tenant |-> FALSE]
  /\ UNCHANGED <<token, noticed>>

Next ==
  \/ \E c \in Caller : (\E t \in Tenant : Lookup(c, t)) \/ Fetch(c) \/ Publish(c)
  \/ \E t \in Tenant : SaveToken(t) \/ Invalidate(t)
  \/ Restart

Spec == Init /\ [][Next]_vars

-----------------------------------------------------------------------------
(* Properties.                                                             *)

\* A provider older than the last token announced is in the cache only if a
\* fill that had read the older token was under way when Invalidate was called
\* (pertenant.go:37-66): no other order of calls, however many callers, leaves
\* a revoked token behind.
StaleOnlyByRace ==
  \A t \in Tenant : cache[t] # 0 /\ cache[t] < noticed[t] => raced[t]

\* A call never returns a token its tenant has not saved, so tenants do not get
\* each other's (39-51).
OwnToken ==
  \A t \in Tenant : cache[t] <= token[t]

\* "forcing a fresh token fetch on the next call" (pertenant.go:60-61): a call
\* begun after Invalidate gets a provider of the token announced, or newer.
FreshAfterInvalidate ==
  \A c \in Caller : answer[c].kind = "provider" => answer[c].version >= answer[c].known
=============================================================================
