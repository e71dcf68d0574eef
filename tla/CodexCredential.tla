--------------------------- MODULE CodexCredential ---------------------------
(***************************************************************************)
(* The codex credential of ONE organization: CredentialsService (store,    *)
(* load, persistCodexAuthRefresh), CodexUsageService in every API process  *)
(* (getStatus, its cache, invalidate) and the reviews that carry a copy of *)
(* the credential to the llm-worker and bring a renewal back.              *)
(*                                                                         *)
(* One step is one database statement, one event of a codex process or the *)
(* stretch between two awaits.  A credential is known by the refresh token *)
(* of its auth.json; an API key is a token that is never renewed.  Every   *)
(* renewal makes a new token of the same account.                          *)
(***************************************************************************)
EXTENDS Naturals

CONSTANTS
    Processes, \* API processes
    Reviews,   \* reviews at a worker at the same time
    MaxTokens, \* bound: refresh tokens ever issued
    MaxVersion \* bound: integration_credentials.version

ASSUME CredentialAssumption ==
    /\ MaxTokens \in Nat
    /\ MaxVersion \in Nat
    /\ Processes \cap Reviews = {}

Holders  == Processes \cup Reviews
Tokens   == 1..MaxTokens
NoToken  == 0

VARIABLES
    row,         \* integration_credentials: token and version, both 0 without a row
    issued,      \* how many tokens the provider has issued
    origin,      \* the token its holder had loaded when a token was issued
    holder,      \* what each query and each review does with its copy
    cache,       \* CodexUsageService.cache of each process, with no TTL
    configuring, \* processes between store and invalidate
    since        \* version the last configuration in each process stored

vars == <<row, issued, origin, holder, cache, configuring, since>>

Idle == [step |-> "idle", token |-> NoToken, version |-> 0, file |-> NoToken,
         seen |-> 0, overtaken |-> FALSE]

NoStatus == [version |-> 0, overtaken |-> FALSE, present |-> FALSE]

Copies ==
    [step : {"idle", "loading", "running", "checking", "saving", "ending", "failing"},
     token : {NoToken} \cup Tokens, version : 0..MaxVersion,
     file : {NoToken} \cup Tokens, seen : 0..MaxVersion, overtaken : BOOLEAN]

TypeOK ==
    /\ row \in [token : {NoToken} \cup Tokens, version : 0..MaxVersion]
    /\ issued \in {0} \cup Tokens
    /\ origin \in [Tokens -> {NoToken} \cup Tokens]
    /\ holder \in [Holders -> Copies]
    /\ \A r \in Reviews : holder[r].step # "idle" => holder[r].token \in Tokens
    /\ cache \in [Processes -> [version : 0..MaxVersion, overtaken : BOOLEAN,
                                present : BOOLEAN]]
    /\ configuring \subseteq Processes
    /\ since \in [Processes -> 0..MaxVersion]

Init ==
    /\ row = [token |-> NoToken, version |-> 0]
    /\ issued = 0
    /\ origin = [t \in Tokens |-> NoToken]
    /\ holder = [h \in Holders |-> Idle]
    /\ cache = [p \in Processes |-> NoStatus]
    /\ configuring = {}
    /\ since = [p \in Processes |-> 0]

----------------------------------------------------------------------------
(* configureCodex and the end of a device authorization *)

(* store: the row is created, or updated whatever it holds. *)
StoreRow(t) ==
    /\ row.version < MaxVersion
    /\ row' = [token |-> t, version |-> row.version + 1]

(* A login that is new, or one that was configured before. *)
Store(p, t) ==
    /\ p \notin configuring
    /\ \/ t = issued + 1
       \/ t <= issued /\ origin[t] = NoToken
    /\ StoreRow(t)
    /\ issued' = IF t > issued THEN t ELSE issued
    /\ configuring' = configuring \cup {p}
    /\ since' = [since EXCEPT ![p] = row.version + 1]
    /\ UNCHANGED <<origin, holder, cache>>

(* Mutant: the cache is left to its TTL. *)
KeepStatus(p) == UNCHANGED cache

ForgetStatus(p) == cache' = [cache EXCEPT ![p] = NoStatus]

(* A query that had loaded the credential before goes on all the same. *)
Invalidate(p) ==
    /\ p \in configuring
    /\ configuring' = configuring \ {p}
    /\ ForgetStatus(p)
    /\ holder' = [holder EXCEPT ![p].overtaken =
                    holder[p].step \notin {"idle", "loading"}
                      /\ holder[p].version < since[p]]
    /\ UNCHANGED <<row, issued, origin, since>>

----------------------------------------------------------------------------
(* Where copies come from *)

(* getStatus: not while a query is in flight, which is joined instead.  It *)
(* is asked to refresh, or finds nothing, or nothing fresh, in the cache.  *)
Ask(p) ==
    /\ holder[p].step = "idle"
    /\ holder' = [holder EXCEPT ![p] = [Idle EXCEPT !.step = "loading"]]
    /\ UNCHANGED <<row, issued, origin, cache, configuring, since>>

(* The row as the database has it, which may be none. *)
Copy == [step |-> "running", token |-> row.token, version |-> row.version,
         file |-> row.token, seen |-> 0, overtaken |-> FALSE]

(* loadIfConfigured answers; or it throws, and so does getStatus. *)
Load(p) ==
    /\ holder[p].step = "loading"
    /\ \/ holder' = [holder EXCEPT ![p] = Copy]
       \/ holder' = [holder EXCEPT ![p] = Idle]
    /\ UNCHANGED <<row, issued, origin, cache, configuring, since>>

(* Mutant: a review is made without a credential. *)
MaybeConfigured == TRUE

(* load throws when nothing is configured. *)
Configured == row.token # NoToken

(* create or retry puts a copy into the request of a review. *)
TakeAlong(r) ==
    /\ holder[r].step = "idle"
    /\ Configured
    /\ holder' = [holder EXCEPT ![r] = Copy]
    /\ UNCHANGED <<row, issued, origin, cache, configuring, since>>

----------------------------------------------------------------------------
(* What codex does with its copy *)

(* Mutant: auth.json is read while the process still runs. *)
MayRenewAfterwards(h) == holder[h].step \in {"running", "ending"}

(* codex writes auth.json as long as its process lives. *)
MayRenew(h) == holder[h].step = "running"

(* The provider issues a new token for the copy. *)
Renew(h) ==
    /\ MayRenew(h)
    /\ holder[h].token # NoToken
    /\ issued < MaxTokens
    /\ issued' = issued + 1
    /\ origin' = [origin EXCEPT ![issued + 1] = holder[h].token]
    /\ holder' = [holder EXCEPT ![h].file = issued + 1]
    /\ UNCHANGED <<row, cache, configuring, since>>

Renewed(h) == holder[h].file # holder[h].token

(* The query has succeeded or failed, the process is closed, auth.json is  *)
(* read and compared; or it cannot be read, or the directory not be made.  *)
QueryEnds(p) ==
    /\ holder[p].step = "running"
    /\ \/ holder' = [holder EXCEPT ![p].step = IF Renewed(p) THEN "checking" ELSE "ending"]
       \/ holder' = [holder EXCEPT ![p].step = "failing"]
    /\ UNCHANGED <<row, issued, origin, cache, configuring, since>>

(* The outcome of the review is processed, with a renewal to persist. *)
OutcomeArrives(r) ==
    /\ holder[r].step = "running"
    /\ holder' = [holder EXCEPT ![r] = IF Renewed(r) THEN [@ EXCEPT !.step = "checking"]
                                                     ELSE Idle]
    /\ UNCHANGED <<row, issued, origin, cache, configuring, since>>

----------------------------------------------------------------------------
(* persistCodexAuthRefresh *)

(* The row still holds what the renewal was made from. *)
StillOrigin(h) == row.token = holder[h].token

(* findFirst, and the comparison with the row it found. *)
CheckRow(h) ==
    /\ holder[h].step = "checking"
    /\ holder' = [holder EXCEPT ![h] =
         IF StillOrigin(h) THEN [@ EXCEPT !.step = "saving", !.seen = row.version]
                           ELSE [@ EXCEPT !.step = "ending"]]
    /\ UNCHANGED <<row, issued, origin, cache, configuring, since>>

(* Mutant: the version is not part of the WHERE clause. *)
AnyVersion(h) == TRUE

SameVersion(h) == row.version = holder[h].seen

(* The CAS on the version. *)
SaveRow(h) ==
    /\ holder[h].step = "saving"
    /\ IF SameVersion(h) THEN StoreRow(holder[h].file) ELSE UNCHANGED row
    /\ holder' = [holder EXCEPT ![h].step = "ending"]
    /\ UNCHANGED <<issued, origin, cache, configuring, since>>

(* The database refuses one of the two statements. *)
SaveFails(h) ==
    /\ holder[h].step \in {"checking", "saving"}
    /\ holder' = [holder EXCEPT ![h].step = "failing"]
    /\ UNCHANGED <<row, issued, origin, cache, configuring, since>>

----------------------------------------------------------------------------
(* What follows *)

(* The answer is remembered, also when the query failed. *)
Remember(p) ==
    /\ holder[p].step \in {"ending", "failing"}
    /\ cache' = [cache EXCEPT ![p] = [version |-> holder[p].version,
                                      overtaken |-> holder[p].overtaken,
                                      present |-> TRUE]]
    /\ holder' = [holder EXCEPT ![p] = Idle]
    /\ UNCHANGED <<row, issued, origin, configuring, since>>

(* The outcome is dealt with, or dead-lettered after a failure. *)
OutcomeSettled(r) ==
    /\ holder[r].step \in {"ending", "failing"}
    /\ holder' = [holder EXCEPT ![r] = Idle]
    /\ UNCHANGED <<row, issued, origin, cache, configuring, since>>

(* The transaction around it rolled back: the outcome is delivered again,  *)
(* with the renewal, which was persisted outside that transaction.         *)
OutcomeRedelivered(r) ==
    /\ holder[r].step \in {"ending", "failing"}
    /\ holder' = [holder EXCEPT ![r].step = "checking"]
    /\ UNCHANGED <<row, issued, origin, cache, configuring, since>>

----------------------------------------------------------------------------
Persist(h) == Renew(h) \/ CheckRow(h) \/ SaveRow(h) \/ SaveFails(h)

Query(p) == Ask(p) \/ Load(p) \/ QueryEnds(p) \/ Remember(p)

Review(r) ==
    \/ TakeAlong(r)
    \/ OutcomeArrives(r)
    \/ OutcomeSettled(r)
    \/ OutcomeRedelivered(r)

Next ==
    \/ \E p \in Processes : Query(p) \/ Invalidate(p)
    \/ \E p \in Processes, t \in Tokens : Store(p, t)
    \/ \E r \in Reviews : Review(r)
    \/ \E h \in Holders : Persist(h)

Spec == Init /\ [][Next]_vars

----------------------------------------------------------------------------
(* Properties *)

(* A renewal only ever replaces the credential it was made from: however   *)
(* late it comes, and however often, it overwrites neither a newer login   *)
(* nor another renewal.                                                    *)
RenewalReplacesOrigin ==
    [][ row'.token # row.token /\ origin'[row'.token] # NoToken
          => row.token = origin'[row'.token] ]_vars

(* A renewal is not dropped: when it has been dealt with, the row is no    *)
(* longer the one whose token it used up, be it by this renewal or another *)
(* write, and whether or not the query itself succeeded.                   *)
RenewalReachesRow ==
    \A h \in Holders :
        holder[h].step = "ending" /\ Renewed(h) => row.version # holder[h].version

(* After a configuration a process answers from its cache only what was    *)
(* loaded since; the one exception is a query that was already running.    *)
CacheFollowsConfiguration ==
    \A p \in Processes :
        cache[p].present /\ ~cache[p].overtaken /\ p \notin configuring
            => cache[p].version >= since[p]

=============================================================================
