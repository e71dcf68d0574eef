------------------------ MODULE CodexCredentialProofs ------------------------
(***************************************************************************)
(* Theorems about CodexCredential, for any number of processes, reviews,   *)
(* tokens and versions.                                                    *)
(***************************************************************************)
EXTENDS CodexCredential, TLAPS

(* A holder that has its copy. *)
Busy(h) == holder[h].step \notin {"idle", "loading"}

(* The copy is no newer than the row, and it is the row's as long as the   *)
(* row has its version.                                                    *)
CopyOfRow(h) ==
    Busy(h) => /\ holder[h].version <= row.version
               /\ holder[h].version = row.version => holder[h].token = row.token

(* The same for the version a renewal was checked against. *)
SeenRow(h) ==
    holder[h].step = "saving" =>
        /\ holder[h].version <= holder[h].seen
        /\ holder[h].seen <= row.version
        /\ holder[h].seen = row.version => holder[h].token = row.token

(* A renewal has been issued from the copy, and only a renewal is saved. *)
FileFromCopy(h) ==
    /\ Renewed(h) => /\ holder[h].file \in Tokens
                     /\ holder[h].file <= issued
                     /\ origin[holder[h].file] = holder[h].token
    /\ holder[h].step \in {"checking", "saving"} => Renewed(h)
    /\ h \in Reviews /\ holder[h].step \in {"ending", "failing"} => Renewed(h)

(* Tokens not issued yet come from nowhere. *)
Unissued == \A t \in Tokens : t > issued => origin[t] = NoToken

(* A copy that no configuration has overtaken is as new as the last one. *)
Current(p) ==
    /\ since[p] <= row.version
    /\ Busy(p) /\ ~holder[p].overtaken /\ p \notin configuring
         => holder[p].version >= since[p]

Inv ==
    /\ TypeOK
    /\ \A h \in Holders : CopyOfRow(h) /\ SeenRow(h) /\ FileFromCopy(h)
    /\ Unissued
    /\ \A p \in Processes : Current(p)
    /\ RenewalReachesRow
    /\ CacheFollowsConfiguration

----------------------------------------------------------------------------
(* The initial states satisfy the invariant. *)
LEMMA InvInit == Init => Inv
  BY CredentialAssumption
  DEF Init, Inv, TypeOK, Copies, Idle, NoStatus, Holders, Tokens, NoToken, Busy, CopyOfRow,
      SeenRow, FileFromCopy, Renewed, Unissued, Current, RenewalReachesRow,
      CacheFollowsConfiguration

(* The parts of the row and of a holder. *)
LEMMA RowFacts ==
  ASSUME TypeOK
  PROVE  /\ row.version \in Nat /\ row.token \in Nat /\ issued \in Nat
         /\ row.token \in {NoToken} \cup Tokens /\ row.version \in 0..MaxVersion
         /\ \A h \in Holders :
              /\ holder[h].version \in Nat /\ holder[h].seen \in Nat
              /\ holder[h].file \in Nat /\ holder[h].token \in Nat
  BY CredentialAssumption DEF TypeOK, Copies, Tokens, NoToken

(* Changes of one holder that keep its type. *)
LEMMA HolderKept ==
  ASSUME TypeOK, NEW h \in Holders, NEW c \in Copies,
         holder' = [holder EXCEPT ![h] = c],
         h \in Reviews /\ c.step # "idle" => c.token \in Tokens
  PROVE  /\ holder' \in [Holders -> Copies]
         /\ \A r \in Reviews : holder'[r].step # "idle" => holder'[r].token \in Tokens
  BY DEF TypeOK, Holders

(* Copies made by the actions. *)
LEMMA CopyFacts ==
  ASSUME TypeOK
  PROVE  /\ Idle \in Copies /\ Copy \in Copies
         /\ [Idle EXCEPT !.step = "loading"] \in Copies
         /\ Copy.token = row.token /\ Copy.version = row.version
         /\ Copy.file = row.token /\ Copy.step = "running" /\ ~Copy.overtaken
<1>1. 0 \in 0..MaxVersion
  BY CredentialAssumption
<1>2. Idle \in Copies
  BY <1>1 DEF Copies, Idle
<1>3. [Idle EXCEPT !.step = "loading"] \in Copies
  BY <1>2 DEF Copies
<1>4. /\ row.token \in {NoToken} \cup Tokens
      /\ row.version \in 0..MaxVersion
  BY DEF TypeOK
<1>5. Copy \in Copies
  BY <1>1, <1>4 DEF Copies, Copy
<1> QED
  BY <1>2, <1>3, <1>5 DEF Copy

(* Every step keeps the types. *)
LEMMA TypeNext == TypeOK /\ [Next]_vars => TypeOK'
<1> SUFFICES ASSUME TypeOK, [Next]_vars PROVE TypeOK'
  OBVIOUS
<1> USE CredentialAssumption
<1>1. ASSUME NEW p \in Processes, Query(p) PROVE TypeOK'
  <2>0. p \in Holders /\ p \notin Reviews /\ holder[p] \in Copies
    BY DEF Holders, TypeOK
  <2>1. CASE Ask(p)
    BY <2>0, <2>1, CopyFacts, HolderKept DEF Ask, TypeOK
  <2>2. CASE Load(p)
    <3>1. CASE holder' = [holder EXCEPT ![p] = Copy]
      BY <2>0, <2>2, <3>1, CopyFacts, HolderKept DEF Load, TypeOK
    <3>2. CASE holder' = [holder EXCEPT ![p] = Idle]
      BY <2>0, <2>2, <3>2, CopyFacts, HolderKept DEF Load, TypeOK
    <3> QED BY <2>2, <3>1, <3>2 DEF Load
  <2>3. CASE QueryEnds(p)
    <3>1. PICK s \in {"checking", "ending", "failing"} :
            holder' = [holder EXCEPT ![p] = [holder[p] EXCEPT !.step = s]]
      BY <2>3 DEF QueryEnds
    <3>2. [holder[p] EXCEPT !.step = s] \in Copies
      BY <2>0 DEF Copies
    <3> QED BY <2>0, <2>3, <3>1, <3>2, HolderKept DEF QueryEnds, TypeOK
  <2>4. CASE Remember(p)
    <3>1. cache' \in [Processes -> [version : 0..MaxVersion, overtaken : BOOLEAN,
                                    present : BOOLEAN]]
      BY <2>0, <2>4 DEF Remember, TypeOK, Copies
    <3> QED BY <2>0, <2>4, <3>1, CopyFacts, HolderKept DEF Remember, TypeOK
  <2> QED BY <1>1, <2>1, <2>2, <2>3, <2>4 DEF Query
<1>2. ASSUME NEW p \in Processes, Invalidate(p) PROVE TypeOK'
  <2>1. p \in Holders /\ p \notin Reviews /\ holder[p] \in Copies
    BY DEF Holders, TypeOK
  <2>2. PICK b \in BOOLEAN :
          holder' = [holder EXCEPT ![p] = [holder[p] EXCEPT !.overtaken = b]]
    BY <1>2 DEF Invalidate
  <2>3. [holder[p] EXCEPT !.overtaken = b] \in Copies
    BY <2>1 DEF Copies
  <2>4. cache' \in [Processes -> [version : 0..MaxVersion, overtaken : BOOLEAN,
                                  present : BOOLEAN]]
    BY <1>2 DEF Invalidate, ForgetStatus, NoStatus, TypeOK
  <2> QED BY <1>2, <2>1, <2>2, <2>3, <2>4, HolderKept DEF Invalidate, TypeOK
<1>3. ASSUME NEW p \in Processes, NEW t \in Tokens, Store(p, t) PROVE TypeOK'
  BY <1>3 DEF Store, StoreRow, TypeOK, Tokens
<1>4. ASSUME NEW r \in Reviews, Review(r) PROVE TypeOK'
  <2>0. r \in Holders /\ holder[r] \in Copies
    BY DEF Holders, TypeOK
  <2>1. CASE TakeAlong(r)
    <3>1. row.token \in Tokens
      BY <2>1 DEF TakeAlong, Configured, TypeOK
    <3> QED BY <2>0, <2>1, <3>1, CopyFacts, HolderKept DEF TakeAlong, TypeOK
  <2>2. CASE OutcomeArrives(r)
    <3>1. CASE holder' = [holder EXCEPT ![r] = Idle]
      BY <2>0, <2>2, <3>1, CopyFacts, HolderKept DEF OutcomeArrives, Idle, TypeOK
    <3>2. CASE holder' = [holder EXCEPT ![r] = [holder[r] EXCEPT !.step = "checking"]]
      <4>1. /\ [holder[r] EXCEPT !.step = "checking"] \in Copies
            /\ [holder[r] EXCEPT !.step = "checking"].token = holder[r].token
        BY <2>0 DEF Copies
      <4>2. holder[r].token \in Tokens
        BY <2>2 DEF OutcomeArrives, TypeOK
      <4> QED BY <2>0, <2>2, <3>2, <4>1, <4>2, HolderKept DEF OutcomeArrives, TypeOK
    <3> QED BY <2>2, <3>1, <3>2 DEF OutcomeArrives
  <2>3. CASE OutcomeSettled(r)
    BY <2>0, <2>3, CopyFacts, HolderKept DEF OutcomeSettled, Idle, TypeOK
  <2>4. CASE OutcomeRedelivered(r)
    <3>1. /\ [holder[r] EXCEPT !.step = "checking"] \in Copies
          /\ [holder[r] EXCEPT !.step = "checking"].token = holder[r].token
      BY <2>0 DEF Copies
    <3>2. holder[r].token \in Tokens
      BY <2>4 DEF OutcomeRedelivered, TypeOK
    <3> QED BY <2>0, <2>4, <3>1, <3>2, HolderKept DEF OutcomeRedelivered, TypeOK
  <2> QED BY <1>4, <2>1, <2>2, <2>3, <2>4 DEF Review
<1>5. ASSUME NEW h \in Holders, Persist(h) PROVE TypeOK'
  <2>0. /\ holder[h] \in Copies
        /\ h \in Reviews /\ holder[h].step # "idle" => holder[h].token \in Tokens
    BY DEF TypeOK
  <2>1. CASE Renew(h)
    <3>1. issued + 1 \in Tokens
      BY <2>1 DEF Renew, Tokens, TypeOK
    <3>2. /\ [holder[h] EXCEPT !.file = issued + 1] \in Copies
          /\ [holder[h] EXCEPT !.file = issued + 1].token = holder[h].token
          /\ [holder[h] EXCEPT !.file = issued + 1].step = holder[h].step
      BY <2>0, <3>1 DEF Copies
    <3>3. holder' = [holder EXCEPT ![h] = [holder[h] EXCEPT !.file = issued + 1]]
      BY <2>1 DEF Renew
    <3>4. origin' \in [Tokens -> {NoToken} \cup Tokens]
      BY <2>0, <2>1 DEF Renew, TypeOK, Copies
    <3> QED BY <2>0, <2>1, <3>1, <3>2, <3>3, <3>4, HolderKept DEF Renew, TypeOK
  <2>2. CASE CheckRow(h)
    <3>1. PICK c \in Copies : /\ holder' = [holder EXCEPT ![h] = c]
                              /\ c.token = holder[h].token
      <4>1. CASE StillOrigin(h)
        <5>1. /\ [holder[h] EXCEPT !.step = "saving", !.seen = row.version] \in Copies
              /\ [holder[h] EXCEPT !.step = "saving", !.seen = row.version].token
                   = holder[h].token
          BY <2>0 DEF Copies, TypeOK
        <5> QED BY <2>2, <4>1, <5>1 DEF CheckRow
      <4>2. CASE ~StillOrigin(h)
        <5>1. /\ [holder[h] EXCEPT !.step = "ending"] \in Copies
              /\ [holder[h] EXCEPT !.step = "ending"].token = holder[h].token
          BY <2>0 DEF Copies
        <5> QED BY <2>2, <4>2, <5>1 DEF CheckRow
      <4> QED BY <4>1, <4>2
    <3>2. holder[h].step # "idle"
      BY <2>2 DEF CheckRow
    <3> QED BY <2>0, <2>2, <3>1, <3>2, HolderKept DEF CheckRow, TypeOK
  <2>3. CASE SaveRow(h)
    <3>1. /\ [holder[h] EXCEPT !.step = "ending"] \in Copies
          /\ [holder[h] EXCEPT !.step = "ending"].token = holder[h].token
      BY <2>0 DEF Copies
    <3>2. row' \in [token : {NoToken} \cup Tokens, version : 0..MaxVersion]
      BY <2>0, <2>3 DEF SaveRow, StoreRow, TypeOK, Copies
    <3>3. holder[h].step # "idle"
      BY <2>3 DEF SaveRow
    <3> QED BY <2>0, <2>3, <3>1, <3>2, <3>3, HolderKept DEF SaveRow, TypeOK
  <2>4. CASE SaveFails(h)
    <3>1. /\ [holder[h] EXCEPT !.step = "failing"] \in Copies
          /\ [holder[h] EXCEPT !.step = "failing"].token = holder[h].token
      BY <2>0 DEF Copies
    <3>2. holder[h].step # "idle"
      BY <2>4 DEF SaveFails
    <3> QED BY <2>0, <2>4, <3>1, <3>2, HolderKept DEF SaveFails, TypeOK
  <2> QED BY <1>5, <2>1, <2>2, <2>3, <2>4 DEF Persist
<1>6. CASE UNCHANGED vars
  BY <1>6 DEF vars, TypeOK
<1> QED
  BY <1>1, <1>2, <1>3, <1>4, <1>5, <1>6 DEF Next

(* The parts of the invariant about one holder, and those about a process. *)
Held(h) == /\ CopyOfRow(h) /\ SeenRow(h) /\ FileFromCopy(h)
           /\ holder[h].step = "ending" /\ Renewed(h) => row.version # holder[h].version

Cached(p) ==
    /\ Current(p)
    /\ cache[p].present /\ ~cache[p].overtaken /\ p \notin configuring
         => cache[p].version >= since[p]

(* The invariant, said by holder and by process. *)
LEMMA InvParts ==
  Inv <=> TypeOK /\ Unissued /\ (\A h \in Holders : Held(h)) /\ (\A p \in Processes : Cached(p))
  BY DEF Inv, Held, Cached, RenewalReachesRow, CacheFollowsConfiguration

(* What holds of a holder goes on holding while others write: the row only *)
(* gets a higher version, and issued tokens keep their origin.             *)
LEMMA HeldKept ==
  ASSUME TypeOK, TypeOK', NEW h \in Holders, Held(h), holder'[h] = holder[h],
         row' = row \/ row'.version > row.version,
         issued' >= issued,
         \A t \in Tokens : t <= issued => origin'[t] = origin[t]
  PROVE  Held(h)'
<1>1. /\ row.version \in Nat /\ row'.version \in Nat
      /\ holder[h].version \in Nat /\ holder[h].seen \in Nat
      /\ holder[h].file \in Nat /\ issued \in Nat /\ issued' \in Nat
  BY RowFacts, CredentialAssumption DEF TypeOK, Tokens, NoToken
<1>2. row'.version >= row.version
  BY <1>1
<1>3. CopyOfRow(h)'
  BY <1>1, <1>2 DEF Held, CopyOfRow, Busy
<1>4. SeenRow(h)'
  BY <1>1, <1>2 DEF Held, SeenRow
<1>5. FileFromCopy(h)'
  BY <1>1 DEF Held, FileFromCopy, Renewed
<1>6. holder'[h].step = "ending" /\ Renewed(h)' => row'.version # holder'[h].version
  <2> SUFFICES ASSUME holder[h].step = "ending", Renewed(h)
               PROVE  row'.version # holder[h].version
    BY DEF Renewed
  <2> QED
    BY <1>1 DEF Held, CopyOfRow, Busy
<1> QED
  BY <1>3, <1>4, <1>5, <1>6 DEF Held

(* The same of a process, when no configuration or answer of its own comes.*)
LEMMA CachedKept ==
  ASSUME TypeOK, TypeOK', NEW p \in Processes, Cached(p),
         row' = row \/ row'.version > row.version,
         Busy(p)' => /\ Busy(p)
                     /\ holder'[p].version = holder[p].version
                     /\ holder'[p].overtaken = holder[p].overtaken,
         cache'[p] = cache[p], since'[p] = since[p],
         p \in configuring' <=> p \in configuring
  PROVE  Cached(p)'
<1>1. /\ row.version \in Nat /\ row'.version \in Nat /\ since[p] \in Nat
  BY RowFacts, CredentialAssumption DEF TypeOK
<1> QED
  BY <1>1 DEF Cached, Current

(* What a step writes when it changes no row. *)
LEMMA QueryKeeps ==
  ASSUME TypeOK, TypeOK', \A h \in Holders : Held(h), \A p \in Processes : Cached(p),
         NEW p \in Processes, Query(p)
  PROVE  (\A h \in Holders : Held(h)') /\ (\A q \in Processes : Cached(q)')
<1>1. /\ UNCHANGED <<row, issued, origin, configuring, since>>
      /\ \A h \in Holders \ {p} : holder'[h] = holder[h]
      /\ p \in Holders /\ holder[p] \in Copies
      /\ \A q \in Processes \ {p} : cache'[q] = cache[q]
  BY DEF Query, Ask, Load, QueryEnds, Remember, Holders, TypeOK
<1>2. row.version \in Nat /\ issued \in Nat
  BY RowFacts
<1>3. \A h \in Holders \ {p} : Held(h)'
  BY <1>1, <1>2, HeldKept
<1>4. \A q \in Processes \ {p} : Cached(q)'
  BY <1>1, CachedKept DEF Busy, Holders
<1>5. CASE Ask(p)
  <2>1. holder'[p] = [Idle EXCEPT !.step = "loading"] /\ cache' = cache
    BY <1>1, <1>5 DEF Ask, TypeOK
  <2>2. holder'[p].step = "loading" /\ holder'[p].file = holder'[p].token
    BY <2>1 DEF Idle
  <2>3. p \notin Reviews
    BY CredentialAssumption
  <2>4. Held(p)'
    BY <2>2, <2>3 DEF Held, CopyOfRow, SeenRow, FileFromCopy, Renewed, Busy
  <2>5. Cached(p)'
    BY <1>1, <2>1, <2>2, CachedKept DEF Busy
  <2> QED BY <1>3, <1>4, <2>4, <2>5
<1>6. CASE Load(p)
  <2>1. cache' = cache
    BY <1>6 DEF Load
  <2>2. CASE holder'[p] = Copy
    <3>1. /\ holder'[p].step = "running" /\ holder'[p].version = row.version
          /\ holder'[p].token = row.token /\ holder'[p].file = row.token
      BY <2>2 DEF Copy
    <3>2. Held(p)'
      BY <1>1, <1>2, <3>1 DEF Held, CopyOfRow, SeenRow, FileFromCopy, Renewed, Busy
    <3>3. Cached(p)'
      BY <1>1, <2>1, <3>1 DEF Cached, Current, Busy
    <3> QED BY <1>3, <1>4, <3>2, <3>3
  <2>3. CASE holder'[p] = Idle
    <3>1. holder'[p].step = "idle" /\ holder'[p].file = holder'[p].token
      BY <2>3 DEF Idle
    <3>2. Held(p)'
      BY <3>1 DEF Held, CopyOfRow, SeenRow, FileFromCopy, Renewed, Busy
    <3>3. Cached(p)'
      BY <1>1, <2>1, <3>1, CachedKept DEF Busy
    <3> QED BY <1>3, <1>4, <3>2, <3>3
  <2> QED BY <1>1, <1>6, <2>2, <2>3 DEF Load, TypeOK
<1>7. CASE QueryEnds(p)
  <2>1. cache' = cache /\ holder[p].step = "running"
    BY <1>7 DEF QueryEnds
  <2>2. /\ holder'[p].step = (IF Renewed(p) THEN "checking" ELSE "ending")
             \/ holder'[p].step = "failing"
        /\ holder'[p].version = holder[p].version /\ holder'[p].token = holder[p].token
        /\ holder'[p].file = holder[p].file /\ holder'[p].overtaken = holder[p].overtaken
    <3>1. PICK s : /\ holder' = [holder EXCEPT ![p] = [holder[p] EXCEPT !.step = s]]
                   /\ s = (IF Renewed(p) THEN "checking" ELSE "ending") \/ s = "failing"
      BY <1>7 DEF QueryEnds
    <3>2. holder'[p] = [holder[p] EXCEPT !.step = s]
      BY <1>1, <3>1 DEF TypeOK
    <3> QED BY <1>1, <3>1, <3>2 DEF Copies
  <2>3. p \notin Reviews
    BY CredentialAssumption
  <2>4. Held(p)'
    BY <1>1, <2>1, <2>2, <2>3 DEF Held, CopyOfRow, SeenRow, FileFromCopy, Renewed, Busy
  <2>5. Cached(p)'
    BY <1>1, <2>1, <2>2, CachedKept DEF Busy
  <2> QED BY <1>3, <1>4, <2>4, <2>5
<1>8. CASE Remember(p)
  <2>1. /\ holder'[p] = Idle /\ holder[p].step \in {"ending", "failing"}
        /\ cache'[p] = [version |-> holder[p].version, overtaken |-> holder[p].overtaken,
                        present |-> TRUE]
    BY <1>1, <1>8 DEF Remember, TypeOK
  <2>2. holder'[p].step = "idle" /\ holder'[p].file = holder'[p].token
    BY <2>1 DEF Idle
  <2>3. Held(p)'
    BY <2>2 DEF Held, CopyOfRow, SeenRow, FileFromCopy, Renewed, Busy
  <2>4. Cached(p)'
    BY <1>1, <2>1, <2>2 DEF Cached, Current, Busy
  <2> QED BY <1>3, <1>4, <2>3, <2>4
<1> QED
  BY <1>5, <1>6, <1>7, <1>8 DEF Query

(* store and invalidate. *)
LEMMA ConfigureKeeps ==
  ASSUME TypeOK, TypeOK', \A h \in Holders : Held(h), \A p \in Processes : Cached(p),
         NEW p \in Processes, (\E t \in Tokens : Store(p, t)) \/ Invalidate(p)
  PROVE  (\A h \in Holders : Held(h)') /\ (\A q \in Processes : Cached(q)')
<1>0. /\ row.version \in Nat /\ issued \in Nat
      /\ \A q \in Processes : since[q] \in Nat
  BY RowFacts, CredentialAssumption DEF TypeOK
<1>1. ASSUME NEW t \in Tokens, Store(p, t)
      PROVE  (\A h \in Holders : Held(h)') /\ (\A q \in Processes : Cached(q)')
  <2>1. /\ UNCHANGED <<origin, holder, cache>>
        /\ row'.version = row.version + 1 /\ issued' >= issued
        /\ since' = [since EXCEPT ![p] = row.version + 1]
        /\ configuring' = configuring \cup {p}
    BY <1>0, <1>1 DEF Store, StoreRow, Tokens
  <2>2. \A h \in Holders : Held(h)'
    BY <1>0, <2>1, HeldKept
  <2>3. \A q \in Processes \ {p} : Cached(q)'
    BY <1>0, <2>1, CachedKept DEF Busy, TypeOK
  <2>4. Cached(p)'
    BY <1>0, <2>1 DEF Cached, Current, TypeOK
  <2> QED BY <2>2, <2>3, <2>4
<1>2. CASE Invalidate(p)
  <2>1. /\ UNCHANGED <<row, issued, origin, since>>
        /\ p \in Holders /\ holder[p] \in Copies /\ p \notin Reviews
        /\ \A h \in Holders \ {p} : holder'[h] = holder[h]
        /\ \A q \in Processes \ {p} : cache'[q] = cache[q]
        /\ configuring' = configuring \ {p}
        /\ cache'[p] = NoStatus
    BY <1>2, CredentialAssumption DEF Invalidate, ForgetStatus, Holders, TypeOK
  <2>2. PICK b \in BOOLEAN :
          /\ holder' = [holder EXCEPT ![p] = [holder[p] EXCEPT !.overtaken = b]]
          /\ b <=> holder[p].step \notin {"idle", "loading"} /\ holder[p].version < since[p]
    BY <1>2 DEF Invalidate
  <2>3. holder'[p] = [holder[p] EXCEPT !.overtaken = b]
    BY <2>1, <2>2 DEF TypeOK
  <2>4. /\ holder'[p].step = holder[p].step /\ holder'[p].file = holder[p].file
        /\ holder'[p].version = holder[p].version /\ holder'[p].token = holder[p].token
        /\ holder'[p].seen = holder[p].seen
        /\ holder'[p].overtaken = b
    BY <2>1, <2>3 DEF Copies
  <2>5. \A h \in Holders \ {p} : Held(h)'
    BY <1>0, <2>1, HeldKept
  <2>6. Held(p)'
    BY <2>1, <2>4 DEF Held, CopyOfRow, SeenRow, FileFromCopy, Renewed, Busy
  <2>7. \A q \in Processes \ {p} : Cached(q)'
    BY <2>1, CachedKept DEF Busy, Holders
  <2>8. Cached(p)'
    <3>1. ~cache'[p].present
      BY <2>1 DEF NoStatus
    <3>2. holder[p].version \in Nat
      BY <2>1, RowFacts
    <3> QED BY <1>0, <2>1, <2>2, <2>4, <3>1, <3>2 DEF Cached, Current, Busy
  <2> QED BY <2>5, <2>6, <2>7, <2>8
<1> QED
  BY <1>1, <1>2

(* Steps of a review: nothing but its own copy changes. *)
LEMMA ReviewKeeps ==
  ASSUME TypeOK, TypeOK', \A h \in Holders : Held(h), \A p \in Processes : Cached(p),
         NEW r \in Reviews, Review(r)
  PROVE  (\A h \in Holders : Held(h)') /\ (\A q \in Processes : Cached(q)')
<1>1. /\ UNCHANGED <<row, issued, origin, cache, configuring, since>>
      /\ \A h \in Holders \ {r} : holder'[h] = holder[h]
      /\ r \in Holders /\ r \notin Processes /\ holder[r] \in Copies
  BY CredentialAssumption
  DEF Review, TakeAlong, OutcomeArrives, OutcomeSettled, OutcomeRedelivered, Holders, TypeOK
<1>2. row.version \in Nat /\ issued \in Nat
  BY RowFacts
<1>3. \A h \in Holders \ {r} : Held(h)'
  BY <1>1, <1>2, HeldKept
<1>4. \A q \in Processes : Cached(q)'
  BY <1>1, CachedKept DEF Busy, Holders
<1>5. ASSUME holder'[r] = Copy PROVE Held(r)'
  BY <1>1, <1>2, <1>5 DEF Copy, Held, CopyOfRow, SeenRow, FileFromCopy, Renewed, Busy
<1>6. ASSUME holder'[r] = Idle PROVE Held(r)'
  <2>1. holder'[r].step = "idle" /\ holder'[r].file = holder'[r].token
    BY <1>6 DEF Idle
  <2> QED BY <2>1 DEF Held, CopyOfRow, SeenRow, FileFromCopy, Renewed, Busy
<1>7. ASSUME holder'[r] = [holder[r] EXCEPT !.step = "checking"],
             holder[r].step \in {"running", "ending", "failing"}, Renewed(r)
      PROVE  Held(r)'
  <2>1. /\ holder'[r].step = "checking" /\ holder'[r].file = holder[r].file
        /\ holder'[r].version = holder[r].version /\ holder'[r].token = holder[r].token
    BY <1>1, <1>7 DEF Copies
  <2> QED
    BY <1>1, <1>7, <2>1 DEF Held, CopyOfRow, SeenRow, FileFromCopy, Renewed, Busy
<1>8. \/ holder'[r] = Copy
      \/ holder'[r] = Idle
      \/ /\ holder'[r] = [holder[r] EXCEPT !.step = "checking"]
         /\ holder[r].step \in {"running", "ending", "failing"} /\ Renewed(r)
  <2>1. CASE TakeAlong(r)
    BY <1>1, <2>1 DEF TakeAlong, TypeOK
  <2>2. CASE OutcomeArrives(r)
    BY <1>1, <2>2 DEF OutcomeArrives, TypeOK
  <2>3. CASE OutcomeSettled(r)
    BY <1>1, <2>3 DEF OutcomeSettled, TypeOK
  <2>4. CASE OutcomeRedelivered(r)
    <3>1. Renewed(r)
      BY <1>1, <2>4 DEF OutcomeRedelivered, Held, FileFromCopy
    <3> QED BY <1>1, <2>4, <3>1 DEF OutcomeRedelivered, TypeOK
  <2> QED BY <2>1, <2>2, <2>3, <2>4 DEF Review
<1> QED
  BY <1>3, <1>4, <1>5, <1>6, <1>7, <1>8

(* A renewal is made, checked and saved. *)
LEMMA PersistKeeps ==
  ASSUME TypeOK, TypeOK', Unissued,
         \A h \in Holders : Held(h), \A p \in Processes : Cached(p),
         NEW h \in Holders, Persist(h)
  PROVE  (\A g \in Holders : Held(g)') /\ (\A q \in Processes : Cached(q)')
<1>1. /\ UNCHANGED <<cache, configuring, since>>
      /\ \A g \in Holders \ {h} : holder'[g] = holder[g]
      /\ holder[h] \in Copies /\ holder'[h] \in Copies
  BY DEF Persist, Renew, CheckRow, SaveRow, SaveFails, TypeOK
<1>2. /\ row.version \in Nat /\ issued \in Nat /\ issued' \in Nat /\ row'.version \in Nat
      /\ \A g \in Holders : /\ holder[g].version \in Nat /\ holder[g].seen \in Nat
                            /\ holder[g].file \in Nat
  BY RowFacts, CredentialAssumption DEF TypeOK, Tokens
<1>3. /\ row' = row \/ row'.version > row.version
      /\ issued' >= issued
      /\ \A t \in Tokens : t <= issued => origin'[t] = origin[t]
  BY <1>2 DEF Persist, Renew, CheckRow, SaveRow, SaveFails, StoreRow, Tokens, TypeOK
<1>4. \A g \in Holders \ {h} : Held(g)'
  BY <1>1, <1>3, HeldKept
<1>5. holder[h].step \in {"running", "checking", "saving"}
  BY DEF Persist, Renew, MayRenew, CheckRow, SaveRow, SaveFails
<1>6. /\ holder'[h].version = holder[h].version /\ holder'[h].token = holder[h].token
      /\ holder'[h].overtaken = holder[h].overtaken
      /\ Renew(h) \/ holder'[h].file = holder[h].file
  <2>1. CASE Renew(h)
    <3>1. holder'[h] = [holder[h] EXCEPT !.file = issued + 1]
      BY <2>1 DEF Renew, TypeOK
    <3> QED BY <1>1, <2>1, <3>1 DEF Copies
  <2>2. CASE CheckRow(h)
    <3>1. CASE StillOrigin(h)
      <4>1. holder'[h] = [holder[h] EXCEPT !.step = "saving", !.seen = row.version]
        BY <2>2, <3>1 DEF CheckRow, TypeOK
      <4> QED BY <1>1, <4>1 DEF Copies
    <3>2. CASE ~StillOrigin(h)
      <4>1. holder'[h] = [holder[h] EXCEPT !.step = "ending"]
        BY <2>2, <3>2 DEF CheckRow, TypeOK
      <4> QED BY <1>1, <4>1 DEF Copies
    <3> QED BY <3>1, <3>2
  <2>3. CASE SaveRow(h) \/ SaveFails(h)
    <3>1. PICK s \in {"ending", "failing"} : holder'[h] = [holder[h] EXCEPT !.step = s]
      BY <2>3 DEF SaveRow, SaveFails, TypeOK
    <3> QED BY <1>1, <3>1 DEF Copies
  <2> QED BY <2>1, <2>2, <2>3 DEF Persist
<1>7. \A q \in Processes : Cached(q)'
  BY <1>1, <1>3, <1>5, <1>6, CachedKept DEF Busy, Holders
<1>8. Held(h)'
  <2>0. /\ holder[h].version <= row.version
        /\ holder[h].version = row.version => holder[h].token = row.token
        /\ Held(h)
    BY <1>5 DEF Held, CopyOfRow, Busy
  <2>1. CASE Renew(h)
    <3>1. /\ issued + 1 \in Tokens /\ origin'[issued + 1] = holder[h].token
          /\ issued' = issued + 1 /\ row' = row
      BY <1>2, <2>1 DEF Renew, Tokens, TypeOK
    <3>2. holder'[h] = [holder[h] EXCEPT !.file = issued + 1] /\ holder[h].step = "running"
      BY <2>1 DEF Renew, MayRenew, TypeOK
    <3>3. holder'[h].step = "running" /\ holder'[h].file = issued + 1
      BY <1>1, <3>2 DEF Copies
    <3> QED
      BY <1>2, <1>6, <2>0, <3>1, <3>3 DEF Held, CopyOfRow, SeenRow, FileFromCopy, Renewed, Busy
  <2>2. CASE CheckRow(h)
    <3>1. row' = row /\ UNCHANGED <<issued, origin>> /\ holder[h].step = "checking"
          /\ ~Renew(h)
      BY <2>2 DEF CheckRow, Renew, MayRenew
    <3>2. Renewed(h) /\ FileFromCopy(h)
      BY <2>0, <3>1 DEF Held, FileFromCopy
    <3>3. CASE StillOrigin(h)
      <4>1. holder'[h] = [holder[h] EXCEPT !.step = "saving", !.seen = row.version]
        BY <2>2, <3>3 DEF CheckRow, TypeOK
      <4>2. holder'[h].step = "saving" /\ holder'[h].seen = row.version
        BY <1>1, <4>1 DEF Copies
      <4> QED
        BY <1>2, <1>6, <2>0, <3>1, <3>2, <3>3, <4>2
        DEF Held, CopyOfRow, SeenRow, FileFromCopy, Renewed, Busy, StillOrigin
    <3>4. CASE ~StillOrigin(h)
      <4>1. holder'[h] = [holder[h] EXCEPT !.step = "ending"]
        BY <2>2, <3>4 DEF CheckRow, TypeOK
      <4>2. holder'[h].step = "ending"
        BY <1>1, <4>1 DEF Copies
      <4> QED
        BY <1>2, <1>6, <2>0, <3>1, <3>2, <3>4, <4>2
        DEF Held, CopyOfRow, SeenRow, FileFromCopy, Renewed, Busy, StillOrigin
    <3> QED BY <3>3, <3>4
  <2>3. CASE SaveRow(h)
    <3>1. UNCHANGED <<issued, origin>> /\ holder[h].step = "saving" /\ ~Renew(h)
      BY <2>3 DEF SaveRow, Renew, MayRenew
    <3>2. Renewed(h) /\ FileFromCopy(h) /\ SeenRow(h)
      BY <2>0, <3>1 DEF Held, FileFromCopy
    <3>3. row'.version # holder[h].version /\ row'.version >= holder[h].version
      <4>1. CASE SameVersion(h)
        BY <1>2, <2>0, <2>3, <4>1 DEF SaveRow, StoreRow
      <4>2. CASE ~SameVersion(h)
        <5>1. row' = row /\ row.version # holder[h].seen
          BY <2>3, <4>2 DEF SaveRow, SameVersion
        <5> QED BY <1>2, <3>1, <3>2, <5>1 DEF SeenRow
      <4> QED BY <4>1, <4>2
    <3>4. holder'[h] = [holder[h] EXCEPT !.step = "ending"]
      BY <2>3 DEF SaveRow, TypeOK
    <3>5. holder'[h].step = "ending"
      BY <1>1, <3>4 DEF Copies
    <3> QED
      BY <1>2, <1>6, <3>1, <3>2, <3>3, <3>5
      DEF Held, CopyOfRow, SeenRow, FileFromCopy, Renewed, Busy
  <2>4. CASE SaveFails(h)
    <3>1. /\ row' = row /\ UNCHANGED <<issued, origin>>
          /\ holder[h].step \in {"checking", "saving"} /\ ~Renew(h)
      BY <2>4 DEF SaveFails, Renew, MayRenew
    <3>2. Renewed(h) /\ FileFromCopy(h)
      BY <2>0, <3>1 DEF Held, FileFromCopy
    <3>3. holder'[h] = [holder[h] EXCEPT !.step = "failing"]
      BY <2>4 DEF SaveFails, TypeOK
    <3>4. holder'[h].step = "failing"
      BY <1>1, <3>3 DEF Copies
    <3> QED
      BY <1>2, <1>6, <2>0, <3>1, <3>2, <3>4
      DEF Held, CopyOfRow, SeenRow, FileFromCopy, Renewed, Busy
  <2> QED BY <2>1, <2>2, <2>3, <2>4 DEF Persist
<1> QED
  BY <1>4, <1>7, <1>8

(* Tokens are issued in order, each with its origin. *)
LEMMA UnissuedKept == TypeOK /\ Unissued /\ [Next]_vars => Unissued'
<1> SUFFICES ASSUME TypeOK, Unissued, [Next]_vars PROVE Unissued'
  OBVIOUS
<1>1. issued \in Nat /\ \A t \in Tokens : t \in Nat
  BY RowFacts, CredentialAssumption DEF Tokens
<1>2. ASSUME NEW h \in Holders, Persist(h) PROVE Unissued'
  BY <1>1, <1>2 DEF Persist, Renew, CheckRow, SaveRow, SaveFails, Unissued, TypeOK
<1>3. ASSUME NEW p \in Processes, NEW t \in Tokens, Store(p, t) PROVE Unissued'
  BY <1>1, <1>3 DEF Store, Unissued
<1>4. CASE UNCHANGED <<issued, origin>>
  BY <1>4 DEF Unissued
<1>5. ASSUME NEW p \in Processes, Query(p) \/ Invalidate(p) PROVE UNCHANGED <<issued, origin>>
  BY <1>5 DEF Query, Ask, Load, QueryEnds, Remember, Invalidate
<1>6. ASSUME NEW r \in Reviews, Review(r) PROVE UNCHANGED <<issued, origin>>
  BY <1>6 DEF Review, TakeAlong, OutcomeArrives, OutcomeSettled, OutcomeRedelivered
<1> QED
  BY <1>2, <1>3, <1>4, <1>5, <1>6 DEF Next, vars

(* Every step keeps the invariant. *)
LEMMA InvNext == Inv /\ [Next]_vars => Inv'
<1> SUFFICES ASSUME Inv, [Next]_vars PROVE Inv'
  OBVIOUS
<1>1. /\ TypeOK /\ Unissued
      /\ \A h \in Holders : Held(h)
      /\ \A p \in Processes : Cached(p)
  BY InvParts
<1>2. TypeOK' /\ Unissued'
  BY <1>1, TypeNext, UnissuedKept
<1>3. (\A h \in Holders : Held(h)') /\ (\A p \in Processes : Cached(p)')
  <2>1. CASE UNCHANGED vars
    BY <1>1, <2>1 DEF vars, Held, CopyOfRow, SeenRow, FileFromCopy, Renewed, Busy,
                      Cached, Current
  <2> QED
    BY <1>1, <1>2, <2>1, QueryKeeps, ConfigureKeeps, ReviewKeeps, PersistKeeps DEF Next
<1> QED
  BY <1>2, <1>3 DEF Inv, Held, Cached, RenewalReachesRow, CacheFollowsConfiguration

----------------------------------------------------------------------------
(* The inductive invariant: a copy is never newer than the row, is the     *)
(* row's while their versions agree, and a renewal knows its origin.       *)
THEOREM CredentialInvariant == Spec => []Inv
  BY InvInit, InvNext, PTL DEF Spec

(* create and retry send a review out only with a credential, and no value *)
(* leaves its type.                                                        *)
THEOREM CredentialTypes == Spec => []TypeOK
<1>1. Inv => TypeOK
  BY DEF Inv
<1> QED
  BY <1>1, CredentialInvariant, PTL

(* persistCodexAuthRefresh and the query keep a renewal that was made from *)
(* the stored credential: it is stored, or the row has moved on.           *)
THEOREM RenewalKept == Spec => []RenewalReachesRow
<1>1. Inv => RenewalReachesRow
  BY DEF Inv
<1> QED
  BY <1>1, CredentialInvariant, PTL

(* invalidate: what is cached since is not older than the configuration.   *)
THEOREM CacheFollows == Spec => []CacheFollowsConfiguration
<1>1. Inv => CacheFollowsConfiguration
  BY DEF Inv
<1> QED
  BY <1>1, CredentialInvariant, PTL

(* The read, the comparison and the CAS on the version together: a renewal *)
(* replaces nothing but the credential it was made from.                   *)
THEOREM RenewalInPlace == Spec => RenewalReplacesOrigin
<1>1. ASSUME Inv, [Next]_vars, row'.token # row.token, origin'[row'.token] # NoToken
      PROVE  row.token = origin'[row'.token]
  <2>1. TypeOK /\ Unissued /\ \A h \in Holders : SeenRow(h) /\ FileFromCopy(h)
    BY <1>1 DEF Inv
  <2>2. row'.token # row.token
    BY <1>1
  <2>3. CASE \E p \in Processes, t \in Tokens : Store(p, t)
    <3>1. PICK p \in Processes, t \in Tokens : Store(p, t)
      BY <2>3
    <3>2. row'.token = t /\ origin' = origin
      BY <3>1 DEF Store, StoreRow
    <3>3. t = issued + 1 => origin[t] = NoToken
      BY <2>1, RowFacts DEF Unissued
    <3>4. origin[t] = NoToken
      BY <3>1, <3>3 DEF Store
    <3> QED BY <1>1, <3>2, <3>4
  <2>4. CASE \E h \in Holders : SaveRow(h)
    <3>1. PICK h \in Holders : SaveRow(h)
      BY <2>4
    <3>2. /\ SameVersion(h) /\ row'.token = holder[h].file
          /\ origin' = origin /\ holder[h].step = "saving"
      BY <2>2, <3>1 DEF SaveRow, StoreRow
    <3>3. holder[h].token = row.token
      BY <2>1, <3>2 DEF SeenRow, SameVersion
    <3>4. origin[holder[h].file] = holder[h].token
      BY <2>1, <3>2 DEF FileFromCopy
    <3> QED BY <3>2, <3>3, <3>4
  <2>5. row' = row \/ (\E p \in Processes, t \in Tokens : Store(p, t))
                   \/ (\E h \in Holders : SaveRow(h))
    BY <1>1 DEF Next, Query, Ask, Load, QueryEnds, Remember, Invalidate, Review, TakeAlong,
                OutcomeArrives, OutcomeSettled, OutcomeRedelivered, Persist, Renew, CheckRow,
                SaveFails, vars
  <2> QED
    BY <2>2, <2>3, <2>4, <2>5
<1>2. Inv /\ [Next]_vars =>
        [row'.token # row.token /\ origin'[row'.token] # NoToken
          => row.token = origin'[row'.token]]_vars
  BY <1>1
<1> QED
  BY <1>2, CredentialInvariant, PTL DEF Spec, RenewalReplacesOrigin

=============================================================================
