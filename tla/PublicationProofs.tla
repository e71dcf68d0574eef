--------------------------- MODULE PublicationProofs ---------------------------
(***************************************************************************)
(* Theorems about Publication, for any processes, findings, limit of tries *)
(* and number of requests and crashes.                                     *)
(***************************************************************************)
EXTENDS Publication, FiniteSetTheorems, TLAPS

(* A loop has a row in hand exactly while it is past the claim. *)
RowInHand(p) ==
    /\ publisher[p].step = "next" => publisher[p].row = NoRow
    /\ publisher[p].step # "next" => publisher[p].row \in Rows

TypeInv == TypeOK /\ \A p \in Publishers : RowInHand(p)

(* The claims of a row that may still leave a thread. *)
Posters(r) ==
    {p \in AtWorkOn(r) : publisher[p].step \in {"claimed", "status", "posting"}}

TriesInv == ThreadsWithinTries /\ \A r \in Rows : IsFiniteSet(Posters(r))

(* The status is posted before its thread, and either before the row is    *)
(* saved.                                                                  *)
StatusFirst ==
    /\ threads[StatusRow] > 0 => shown # "none"
    /\ \A p \in Publishers :
         publisher[p].step = "posting" /\ publisher[p].row = StatusRow => shown # "none"

SavedIsPosted ==
    \A p \in Publishers :
        publisher[p].step = "saving" => threads[publisher[p].row] > 0

PostedInv == StatusFirst /\ SavedIsPosted /\ CompletedWasPublished

(* A claim that neither overtook another nor was made on a stale snapshot: *)
(* the only one, it counted the tries right and posts only the first.      *)
Undisturbed(p) ==
    LET r == publisher[p].row IN
    /\ AtWorkOn(r) = {p}
    /\ publisher[p].saw[r] + 1 = tries[r]
    /\ publisher[p].step \in {"status", "posting"} => threads[r] = 0

SingleInv ==
    /\ \A p \in Publishers :
         publisher[p].row \in Rows \ outpaced => Undisturbed(p)
    /\ NoDuplicateThread

(* Nothing is published before it is asked for; what is asked for once is  *)
(* published from a snapshot of the job as it has ended.                   *)
Untouched ==
    /\ \A r \in Rows : row[r] = "none"
    /\ shown = "none"
    /\ \A p \in Publishers : publisher[p] = Idle

AboutStatus(p) == StatusRow \in publisher[p].batch \/ publisher[p].row = StatusRow

RequestInv ==
    /\ \A p \in Publishers :
         publisher[p].step = "status" => publisher[p].row = StatusRow
    /\ asks = 0 => Untouched
    /\ asks = 1 /\ job \in Ended =>
         /\ \A p \in Publishers : AboutStatus(p) => publisher[p].job = job
         /\ shown \in {"none", StateOf(job)}

Inv == TypeInv /\ TriesInv /\ PostedInv /\ SingleInv /\ RequestInv

----------------------------------------------------------------------------
(* The steps of one process, and those of the others. *)
Step(p) == Publish(p) \/ PublishFails(p) \/ Crash(p)

Other ==
    \/ \E o \in Ended, f \in SUBSET NewFindings : EndJob(o, f)
    \/ RetryJob
    \/ ReportRetryFailure
    \/ \E r \in Rows : LeaseExpires(r)

Loops == [step : {"next", "claimed", "status", "posting", "saving"},
          row : Rows \cup {NoRow}, batch : SUBSET Rows,
          saw : [Rows -> 0..MaxTries], job : {"working"} \cup Ended]

LEMMA NextCases ==
  Next <=> Other \/ \E p \in Publishers : Step(p)
  BY DEF Next, Other, Step

LEMMA IdleIsLoop == Idle \in Loops
  BY PublicationAssumption DEF Idle, Loops

LEMMA RestFacts ==
  ASSUME NEW b \in Loops
  PROVE  Rest(b) \in Loops /\ Rest(b).step = "next" /\ Rest(b).row = NoRow
  BY IdleIsLoop DEF Rest, Loops, Idle

(* What a step makes of the loop that takes it. *)
LEMMA LoopSteps ==
  ASSUME TypeInv, NEW p \in Publishers, Step(p)
  PROVE  \E c \in Loops :
           /\ publisher' = [publisher EXCEPT ![p] = c]
           /\ c.step = "next" => c.row = NoRow
           /\ c.step # "next" => c.row \in Rows
<1> DEFINE Good(c) == /\ c \in Loops
                      /\ publisher' = [publisher EXCEPT ![p] = c]
                      /\ c.step = "next" => c.row = NoRow
                      /\ c.step # "next" => c.row \in Rows
<1>1. publisher[p] \in Loops /\ RowInHand(p)
  BY DEF TypeInv, TypeOK, Loops
<1>2. Idle \in Loops /\ Idle.step = "next" /\ Idle.row = NoRow
  BY IdleIsLoop DEF Idle
<1>4. CASE FindMany(p)
  <2> DEFINE c == [Idle EXCEPT !.batch = {r \in Rows : Due(r)}, !.saw = tries, !.job = job]
  <2>1. Good(c)
    BY <1>2, <1>4 DEF FindMany, TypeInv, TypeOK, Loops, Idle
  <2> QED BY <2>1
<1>5. CASE \E r \in Rows : Claim(p, r)
  <2>1. PICK r \in Rows : Claim(p, r)
    BY <1>5
  <2> DEFINE c == [publisher[p] EXCEPT !.step = "claimed", !.row = r, !.batch = @ \ {r}]
  <2>2. Good(c)
    BY <1>1, <2>1 DEF Claim, Loops
  <2> QED BY <2>2
<1>6. CASE \E r \in Rows : Skip(p, r)
  <2>1. PICK r \in Rows : Skip(p, r)
    BY <1>6
  <2> DEFINE b == [publisher[p] EXCEPT !.batch = @ \ {r}]
  <2>2. b \in Loops
    BY <1>1 DEF Loops
  <2>3. Good(Rest(b))
    BY RestFacts, <2>1, <2>2 DEF Skip
  <2> QED BY <2>3
<1>7. CASE Look(p)
  <2> DEFINE c == [publisher[p] EXCEPT !.step =
                     IF AlreadyPublished(p, publisher[p].row) THEN "saving"
                     ELSE IF publisher[p].row = StatusRow THEN "status" ELSE "posting"]
  <2>1. Good(c)
    BY <1>1, <1>7 DEF Look, Loops, RowInHand, TypeInv, TypeOK
  <2> QED BY <2>1
<1>8. CASE Posted(p)
  <2> DEFINE c == [publisher[p] EXCEPT !.step = IF @ = "status" THEN "posting" ELSE "saving"]
  <2>1. publisher[p].step \in {"status", "posting"}
    BY <1>8 DEF Posted, Post
  <2>2. Good(c)
    BY <1>1, <1>8, <2>1 DEF Posted, Loops, RowInHand, TypeInv, TypeOK
  <2> QED BY <2>2
<1>9. CASE Save(p) \/ PublishFails(p)
  <2>1. Good(Rest(publisher[p]))
    BY <1>1, RestFacts, <1>9 DEF Save, PublishFails
  <2> QED BY <2>1
<1>10. CASE Crash(p)
  <2>1. Good(Idle)
    BY <1>2, <1>10 DEF Crash
  <2> QED BY <2>1
<1> QED
  BY <1>4, <1>5, <1>6, <1>7, <1>8, <1>9, <1>10 DEF Step, Publish

(* The values of the variables that a step of one process changes. *)
LEMMA StepEffects ==
  ASSUME TypeInv, NEW p \in Publishers, Step(p)
  PROVE  /\ UNCHANGED jobState
         /\ row' \in [Rows -> {"none", "pending", "publishing", "expired",
                               "completed", "failed"}]
         /\ tries' \in [Rows -> 0..MaxTries]
         /\ threads' \in [Rows -> Nat]
         /\ shown' \in {"none", "succeeded", "failed"}
         /\ outpaced' \subseteq Rows
         /\ crashes' \in 0..MaxCrashes
<1> USE PublicationAssumption DEF TypeInv, TypeOK, azure, jobState
<1>1. CASE FindMany(p) \/ Look(p) \/ \E r \in Rows : Skip(p, r)
  BY <1>1 DEF FindMany, Look, Skip
<1>2. CASE \E r \in Rows : Claim(p, r)
  BY <1>2 DEF Claim, CountAttempt, Due
<1>3. ASSUME Post(p) \/ UNCHANGED azure
      PROVE  threads' \in [Rows -> Nat] /\ shown' \in {"none", "succeeded", "failed"}
  BY <1>3 DEF Post, StateOf
<1>4. CASE Posted(p)
  BY <1>3, <1>4 DEF Posted
<1>5. CASE Save(p)
  BY <1>5 DEF Save
<1>6. CASE PublishFails(p)
  BY <1>3, <1>6 DEF PublishFails, AfterFailure
<1>7. CASE Crash(p)
  BY <1>3, <1>7 DEF Crash
<1> QED
  BY <1>1, <1>2, <1>4, <1>5, <1>6, <1>7 DEF Step, Publish

(* The steps of the others leave the processes and Azure DevOps alone. *)
LEMMA OtherEffects ==
  ASSUME Other
  PROVE  UNCHANGED <<tries, azure, publisher, outpaced, crashes>>
  BY DEF Other, EndJob, RetryJob, ReportRetryFailure, LeaseExpires, azure

(* The types, and the row in hand, are kept. *)
LEMMA TypeInit == Init => TypeInv
  BY PublicationAssumption DEF Init, TypeInv, TypeOK, RowInHand, Idle, Rows, Ended

LEMMA TypeNext == TypeInv /\ [Next]_vars => TypeInv'
<1> SUFFICES ASSUME TypeInv, [Next]_vars PROVE TypeInv'
  OBVIOUS
<1>1. CASE UNCHANGED vars
  BY <1>1 DEF TypeInv, TypeOK, RowInHand, vars, azure, jobState
<1>2. CASE Other
  <2>1. UNCHANGED <<tries, azure, publisher, outpaced, crashes>>
    BY <1>2, OtherEffects
  <2>2. /\ job' \in {"working"} \cup Ended
        /\ asks' \in 0..MaxAsks
        /\ row' \in [Rows -> {"none", "pending", "publishing", "expired",
                              "completed", "failed"}]
    BY <1>2, PublicationAssumption
    DEF TypeInv, TypeOK, Other, EndJob, RetryJob, ReportRetryFailure, LeaseExpires, jobState
  <2> QED
    BY <2>1, <2>2 DEF TypeInv, TypeOK, RowInHand, azure
<1>3. ASSUME NEW p \in Publishers, Step(p) PROVE TypeInv'
  <2>1. PICK c \in Loops :
           /\ publisher' = [publisher EXCEPT ![p] = c]
           /\ c.step = "next" => c.row = NoRow
           /\ c.step # "next" => c.row \in Rows
    BY <1>3, LoopSteps
  <2>2. publisher' \in [Publishers -> Loops] /\ \A q \in Publishers : RowInHand(q)'
    BY <2>1 DEF TypeInv, TypeOK, Loops, RowInHand
  <2> QED
    BY <1>3, <2>2, StepEffects DEF TypeInv, TypeOK, jobState, Loops
<1> QED
  BY <1>1, <1>2, <1>3, NextCases

----------------------------------------------------------------------------
(* ThreadsWithinTries *)

Count(p, S) == IF p \in S THEN 1 ELSE 0

(* The thread a claim may leave was counted when the row was claimed. *)
LEMMA TriesKept ==
  ASSUME NEW p, NEW S, NEW T, IsFiniteSet(S), T \ {p} = S \ {p},
         NEW posted \in Nat, NEW tried \in Nat, NEW posted2 \in Nat, NEW tried2 \in Nat,
         posted + Cardinality(S) <= tried,
         posted2 - posted + Count(p, T) <= tried2 - tried + Count(p, S)
  PROVE  IsFiniteSet(T) /\ posted2 + Cardinality(T) <= tried2
<1>1. /\ IsFiniteSet(S \ {p})
      /\ Cardinality(S) \in Nat /\ Cardinality(S \ {p}) \in Nat
      /\ Cardinality(S) = Cardinality(S \ {p}) + Count(p, S)
  <2>1. /\ IsFiniteSet(S \ {p})
        /\ Cardinality(S \ {p}) = IF p \in S THEN Cardinality(S) - 1 ELSE Cardinality(S)
    BY FS_RemoveElement
  <2>2. Cardinality(S) \in Nat /\ Cardinality(S \ {p}) \in Nat
    BY <2>1, FS_CardinalityType
  <2> QED
    BY <2>1, <2>2 DEF Count
<1>2. CASE p \in T
  <2>1. T = (T \ {p}) \cup {p} /\ p \notin T \ {p}
    BY <1>2
  <2>2. IsFiniteSet(T) /\ Cardinality(T) = Cardinality(S \ {p}) + 1
    BY <1>1, <2>1, FS_AddElement
  <2> QED
    BY <1>1, <1>2, <2>2 DEF Count
<1>3. CASE p \notin T
  <2>1. T = S \ {p}
    BY <1>3
  <2> QED
    BY <1>1, <1>3, <2>1 DEF Count
<1> QED
  BY <1>2, <1>3

(* Where a loop is between two rows. *)
LEMMA StepsToNext ==
  ASSUME TypeInv, NEW p \in Publishers,
         \/ FindMany(p) \/ Save(p) \/ PublishFails(p) \/ Crash(p)
         \/ \E r \in Rows : Skip(p, r)
  PROVE  publisher'[p].step = "next" /\ publisher'[p].row = NoRow
<1>1. publisher \in [Publishers -> Loops]
  BY DEF TypeInv, TypeOK, Loops
<1>2. CASE FindMany(p) \/ Crash(p)
  <2>1. Idle \in Loops /\ Idle.step = "next" /\ Idle.row = NoRow
    BY IdleIsLoop DEF Idle
  <2>2. CASE FindMany(p)
    BY <1>1, <2>1, <2>2 DEF FindMany, Loops
  <2>3. CASE Crash(p)
    BY <1>1, <2>1, <2>3 DEF Crash
  <2> QED
    BY <1>2, <2>2, <2>3
<1>3. CASE Save(p) \/ PublishFails(p)
  BY <1>1, <1>3, RestFacts DEF Save, PublishFails
<1>4. CASE \E r \in Rows : Skip(p, r)
  <2>1. PICK r \in Rows : Skip(p, r)
    BY <1>4
  <2>2. [publisher[p] EXCEPT !.batch = @ \ {r}] \in Loops
    BY <1>1 DEF Loops
  <2> QED
    BY <1>1, <2>1, <2>2, RestFacts DEF Skip
<1> QED
  BY <1>2, <1>3, <1>4

(* What a step of p adds to a row's threads and claims it adds to its tries.*)
LEMMA TriesOfStep ==
  ASSUME TypeInv, NEW p \in Publishers, Step(p), NEW r \in Rows
  PROVE  /\ Posters(r)' \ {p} = Posters(r) \ {p}
         /\ threads'[r] - threads[r] + Count(p, Posters(r)')
              <= tries'[r] - tries[r] + Count(p, Posters(r))
<1>1. PICK c \in Loops : publisher' = [publisher EXCEPT ![p] = c]
  BY LoopSteps
<1>2. /\ publisher \in [Publishers -> Loops] /\ RowInHand(p)
      /\ threads \in [Rows -> Nat] /\ tries \in [Rows -> Nat]
  BY PublicationAssumption DEF TypeInv, TypeOK, Loops
<1>3. publisher'[p] = c /\ \A q \in Publishers \ {p} : publisher'[q] = publisher[q]
  BY <1>1, <1>2
<1>4. Posters(r)' \ {p} = Posters(r) \ {p}
  BY <1>3 DEF Posters, AtWorkOn
<1> DEFINE Owing(l) == l.row = r /\ l.step \in {"claimed", "status", "posting"}
<1>5. /\ p \in Posters(r) <=> Owing(publisher[p])
      /\ p \in Posters(r)' <=> Owing(publisher'[p])
  BY DEF Posters, AtWorkOn
<1>6. CASE FindMany(p) \/ \E x \in Rows : Skip(p, x)
  <2>1. publisher'[p].step = "next"
    BY <1>2, <1>6, StepsToNext
  <2>2. UNCHANGED <<threads, tries>>
    BY <1>6 DEF FindMany, Skip, azure
  <2> QED
    BY <1>2, <1>4, <1>5, <2>1, <2>2 DEF Count
<1>7. CASE \E x \in Rows : Claim(p, x)
  <2>1. PICK x \in Rows : Claim(p, x)
    BY <1>7
  <2>2. /\ ~Owing(publisher[p])
        /\ Owing(publisher'[p]) <=> r = x
        /\ tries'[r] = IF r = x THEN tries[r] + 1 ELSE tries[r]
        /\ UNCHANGED threads
    BY <1>2, <2>1 DEF Claim, CountAttempt, Loops, azure
  <2> QED
    BY <1>2, <1>4, <1>5, <2>2 DEF Count
<1>8. CASE Look(p)
  <2>1. publisher'[p] = [publisher[p] EXCEPT !.step = publisher'[p].step]
    BY <1>2, <1>8 DEF Look, Loops
  <2>2. Owing(publisher'[p]) => Owing(publisher[p])
    BY <1>2, <1>8, <2>1 DEF Look, Loops
  <2>3. UNCHANGED <<threads, tries>>
    BY <1>8 DEF Look, azure
  <2> QED
    BY <1>2, <1>4, <1>5, <2>2, <2>3 DEF Count
<1>9. ASSUME Post(p) \/ UNCHANGED azure
      PROVE  \/ threads'[r] = threads[r]
             \/ threads'[r] = threads[r] + 1 /\ Owing(publisher[p]) /\ publisher[p].step = "posting"
  BY <1>2, <1>9 DEF Post, azure
<1>10. CASE Posted(p)
  <2>1. /\ publisher'[p].step = IF publisher[p].step = "status" THEN "posting" ELSE "saving"
        /\ publisher'[p].row = publisher[p].row
    BY <1>2, <1>10 DEF Posted, Loops
  <2>2. publisher[p].step \in {"status", "posting"} /\ UNCHANGED tries
    BY <1>10 DEF Posted, Post
  <2> QED
    BY <1>2, <1>4, <1>5, <1>9, <1>10, <2>1, <2>2 DEF Count, Posted
<1>11. CASE Save(p) \/ PublishFails(p) \/ Crash(p)
  <2>1. publisher'[p].step = "next"
    BY <1>2, <1>11, StepsToNext
  <2>2. UNCHANGED tries /\ (Post(p) \/ UNCHANGED azure)
    BY <1>11 DEF Save, PublishFails, Crash
  <2> QED
    BY <1>2, <1>4, <1>5, <1>9, <2>1, <2>2 DEF Count
<1> QED
  BY <1>6, <1>7, <1>8, <1>10, <1>11 DEF Step, Publish

LEMMA TriesInit == Init => TriesInv
<1> SUFFICES ASSUME Init, NEW r \in Rows
             PROVE  IsFiniteSet(Posters(r)) /\ threads[r] + Cardinality(Posters(r)) <= tries[r]
  BY DEF TriesInv, ThreadsWithinTries, Posters
<1>1. Posters(r) = {} /\ threads[r] = 0 /\ tries[r] = 0
  BY DEF Init, Idle, Posters, AtWorkOn
<1> QED
  BY <1>1, FS_EmptySet

LEMMA TriesNext == TypeInv /\ TriesInv /\ [Next]_vars => TriesInv'
<1> SUFFICES ASSUME TypeInv, TriesInv, [Next]_vars, NEW r \in Rows
             PROVE  /\ IsFiniteSet(Posters(r)')
                    /\ threads'[r] + Cardinality(Posters(r)') <= tries'[r]
  BY DEF TriesInv, ThreadsWithinTries, Posters
<1>1. IsFiniteSet(Posters(r)) /\ threads[r] + Cardinality(Posters(r)) <= tries[r]
  BY DEF TriesInv, ThreadsWithinTries, Posters
<1>2. CASE Other \/ UNCHANGED vars
  <2>1. UNCHANGED <<threads, tries, publisher>>
    BY <1>2, OtherEffects DEF vars, azure
  <2>2. Posters(r)' = Posters(r)
    BY <2>1 DEF Posters, AtWorkOn
  <2> QED
    BY <1>1, <2>1, <2>2
<1>3. ASSUME NEW p \in Publishers, Step(p)
      PROVE  /\ IsFiniteSet(Posters(r)')
             /\ threads'[r] + Cardinality(Posters(r)') <= tries'[r]
  <2>1. threads[r] \in Nat /\ tries[r] \in Nat /\ threads'[r] \in Nat /\ tries'[r] \in Nat
    BY <1>3, StepEffects, PublicationAssumption DEF TypeInv, TypeOK
  <2> QED
    BY <1>1, <1>3, <2>1, TriesOfStep, TriesKept
<1> QED
  BY <1>2, <1>3, NextCases

----------------------------------------------------------------------------
(* CompletedWasPublished *)

LEMMA PostedInit == Init => PostedInv
  BY DEF Init, PostedInv, StatusFirst, SavedIsPosted, CompletedWasPublished, Idle, Rows

(* What is on the pull request stays there; a thread is left by a POST.    *)
LEMMA AzureGrows ==
  ASSUME TypeInv, NEW p \in Publishers, Post(p) \/ UNCHANGED azure
  PROVE  /\ shown # "none" => shown' # "none"
         /\ publisher[p].step = "status" /\ Post(p) => shown' # "none"
         /\ \A r \in Rows :
              /\ threads'[r] >= threads[r]
              /\ threads'[r] # threads[r] =>
                   /\ publisher[p].step = "posting" /\ publisher[p].row = r
                   /\ threads'[r] = threads[r] + 1
         /\ publisher[p].step = "posting" /\ Post(p) => threads'[publisher[p].row] > 0
<1>1. threads \in [Rows -> Nat]
  BY DEF TypeInv, TypeOK
<1>2. publisher[p].step = "posting" => publisher[p].row \in Rows
  BY DEF TypeInv, RowInHand
<1>3. CASE UNCHANGED azure /\ ~Post(p)
  BY <1>1, <1>3 DEF azure
<1>4. CASE Post(p)
  BY <1>1, <1>2, <1>4 DEF Post, StateOf
<1> QED
  BY <1>3, <1>4

LEMMA StepLeavesAzureOrPosts ==
  ASSUME NEW p \in Publishers, Step(p)
  PROVE  Post(p) \/ UNCHANGED azure
  BY DEF Step, Publish, FindMany, Claim, Skip, Look, Posted, Save, PublishFails, Crash

(* How a step takes a loop to each of its later stages. *)
LEMMA StepsOn ==
  ASSUME TypeInv, NEW p \in Publishers, Step(p), publisher'[p].step # "next"
  PROVE  \/ \E r \in Rows :
              /\ Claim(p, r) /\ publisher'[p].step = "claimed"
              /\ publisher'[p].row = r /\ publisher'[p].saw = publisher[p].saw
              /\ publisher'[p].batch = publisher[p].batch \ {r}
              /\ publisher'[p].job = publisher[p].job
         \/ /\ Look(p) \/ Posted(p)
            /\ publisher'[p].row = publisher[p].row
            /\ publisher'[p].saw = publisher[p].saw
            /\ publisher'[p].batch = publisher[p].batch
            /\ publisher'[p].job = publisher[p].job
            /\ \/ /\ publisher'[p].step = "saving"
                  /\ \/ Look(p) /\ threads[publisher[p].row] > 0
                     \/ Posted(p) /\ publisher[p].step = "posting"
               \/ /\ publisher'[p].step \in {"status", "posting"} /\ Look(p)
                  /\ ~AlreadyPublished(p, publisher[p].row)
                  /\ publisher'[p].step = "status" <=> publisher[p].row = StatusRow
               \/ /\ publisher'[p].step = "posting"
                  /\ Posted(p) /\ publisher[p].step = "status"
<1>1. publisher \in [Publishers -> Loops]
  BY DEF TypeInv, TypeOK, Loops
<1>2. CASE \E r \in Rows : Claim(p, r)
  <2>1. PICK r \in Rows : Claim(p, r)
    BY <1>2
  <2>2. publisher'[p] = [publisher[p] EXCEPT !.step = "claimed", !.row = r, !.batch = @ \ {r}]
    BY <1>1, <2>1 DEF Claim
  <2> QED
    BY <1>1, <2>1, <2>2 DEF Loops
<1>3. CASE Look(p)
  <2>1. publisher'[p] = [publisher[p] EXCEPT !.step =
             IF AlreadyPublished(p, publisher[p].row) THEN "saving"
             ELSE IF publisher[p].row = StatusRow THEN "status" ELSE "posting"]
    BY <1>1, <1>3 DEF Look
  <2>2. AlreadyPublished(p, publisher[p].row) => threads[publisher[p].row] > 0
    BY DEF AlreadyPublished
  <2> QED
    BY <1>1, <1>3, <2>1, <2>2 DEF Loops
<1>4. CASE Posted(p)
  <2>1. publisher'[p] = [publisher[p] EXCEPT !.step =
             IF publisher[p].step = "status" THEN "posting" ELSE "saving"]
    BY <1>1, <1>4 DEF Posted
  <2>2. publisher[p].step \in {"status", "posting"}
    BY <1>4 DEF Posted, Post
  <2> QED
    BY <1>1, <1>4, <2>1, <2>2 DEF Loops
<1> QED
  BY <1>2, <1>3, <1>4, StepsToNext DEF Step, Publish

(* The others are where they were. *)
LEMMA OthersStay ==
  ASSUME TypeInv, NEW p \in Publishers, Step(p)
  PROVE  \A q \in Publishers \ {p} : publisher'[q] = publisher[q]
  BY LoopSteps DEF TypeInv, TypeOK

LEMMA PostedNext == TypeInv /\ PostedInv /\ [Next]_vars => PostedInv'
<1> SUFFICES ASSUME TypeInv, PostedInv, [Next]_vars PROVE PostedInv'
  OBVIOUS
<1> USE DEF PostedInv
<1>1. CASE UNCHANGED vars
  BY <1>1 DEF StatusFirst, SavedIsPosted, CompletedWasPublished, vars, azure
<1>2. CASE Other
  <2>1. UNCHANGED <<threads, shown, publisher>>
    BY <1>2, OtherEffects DEF azure
  <2>2. \A r \in Rows : row'[r] = "completed" => row[r] = "completed"
    BY <1>2 DEF Other, EndJob, RetryJob, ReportRetryFailure, LeaseExpires, TypeInv, TypeOK
  <2> QED
    BY <2>1, <2>2 DEF StatusFirst, SavedIsPosted, CompletedWasPublished, Rows
<1>3. ASSUME NEW p \in Publishers, Step(p) PROVE PostedInv'
  <2>1. /\ shown # "none" => shown' # "none"
        /\ publisher[p].step = "status" /\ Post(p) => shown' # "none"
        /\ \A r \in Rows :
             /\ threads'[r] >= threads[r]
             /\ threads'[r] # threads[r] => publisher[p].step = "posting" /\ publisher[p].row = r
        /\ publisher[p].step = "posting" /\ Post(p) => threads'[publisher[p].row] > 0
    BY <1>3, AzureGrows, StepLeavesAzureOrPosts
  <2>2. \A r \in Rows : threads[r] > 0 => threads'[r] > 0
    BY <1>3, <2>1, StepEffects DEF TypeInv, TypeOK
  <2>3. StatusRow \in Rows /\ \A q \in Publishers \ {p} : publisher'[q] = publisher[q]
    BY <1>3, OthersStay DEF Rows
  <2>4. \A q \in Publishers : RowInHand(q)
    BY DEF TypeInv
  <2>5. StatusFirst'
    <3>1. threads'[StatusRow] > 0 => shown' # "none"
      BY <2>1, <2>3 DEF StatusFirst
    <3>2. publisher'[p].step = "posting" /\ publisher'[p].row = StatusRow => shown' # "none"
      BY <1>3, <2>1, StepsOn DEF Posted
    <3> QED
      BY <2>1, <2>3, <3>1, <3>2 DEF StatusFirst
  <2>6. SavedIsPosted'
    <3>1. publisher'[p].step = "saving" => threads'[publisher'[p].row] > 0
      <4> SUFFICES ASSUME publisher'[p].step = "saving" PROVE threads'[publisher'[p].row] > 0
        OBVIOUS
      <4>1. /\ publisher'[p].row = publisher[p].row
            /\ \/ Look(p) /\ threads[publisher[p].row] > 0
               \/ Posted(p) /\ publisher[p].step = "posting"
        BY <1>3, StepsOn
      <4>2. publisher[p].row \in Rows
        BY <2>4, <4>1 DEF Look, RowInHand
      <4> QED
        BY <2>1, <2>2, <4>1, <4>2 DEF Posted
    <3> QED
      BY <2>2, <2>3, <2>4, <3>1 DEF SavedIsPosted, RowInHand
  <2>7. CompletedWasPublished'
    <3>1. ASSUME NEW r \in Rows, row'[r] = "completed", row[r] # "completed"
          PROVE  /\ threads[r] > 0
                 /\ r = StatusRow => shown # "none"
      <4>1. Save(p) /\ publisher[p].row = r
        BY <1>3, <3>1 DEF Step, Publish, FindMany, Claim, Skip, Look, Posted, Save,
                          PublishFails, AfterFailure, Crash, TypeInv, TypeOK
      <4> QED
        BY <4>1 DEF Save, SavedIsPosted, StatusFirst
    <3> QED
      BY <2>1, <2>2, <2>3, <3>1 DEF CompletedWasPublished
  <2> QED
    BY <2>5, <2>6, <2>7
<1> QED
  BY <1>1, <1>2, <1>3, NextCases

----------------------------------------------------------------------------
(* NoDuplicateThread *)

LEMMA SingleInit == Init => SingleInv
  BY PublicationAssumption DEF Init, SingleInv, NoDuplicateThread, Undisturbed, Idle

(* A claim that may still leave a thread has one try of its own. *)
LEMMA PosterHasTry ==
  ASSUME TypeInv, TriesInv, NEW r \in Rows, NEW p \in Posters(r)
  PROVE  threads[r] + 1 <= tries[r]
<1>1. IsFiniteSet(Posters(r)) /\ threads[r] + Cardinality(Posters(r)) <= tries[r]
  BY DEF TriesInv, ThreadsWithinTries, Posters
<1>2. Cardinality(Posters(r)) \in Nat /\ Cardinality(Posters(r)) # 0
  BY <1>1, FS_CardinalityType, FS_EmptySet
<1>3. threads[r] \in Nat /\ tries[r] \in Nat
  BY PublicationAssumption DEF TypeInv, TypeOK
<1> QED
  BY <1>1, <1>2, <1>3

(* tries and outpaced change with a claim only. *)
LEMMA ClaimCounts ==
  ASSUME TypeInv, NEW p \in Publishers, Step(p)
  PROVE  /\ outpaced \subseteq outpaced'
         /\ \A r \in Rows : tries'[r] # tries[r] => Claim(p, r)
         /\ \A r \in Rows : Claim(p, r) =>
              /\ tries'[r] = tries[r] + 1
              /\ r \notin outpaced' => publisher[p].saw[r] = tries[r] /\ AtWorkOn(r) = {}
<1>1. CASE \E r \in Rows : Claim(p, r)
  BY <1>1 DEF Claim, CountAttempt, TypeInv, TypeOK
<1>2. CASE ~\E r \in Rows : Claim(p, r)
  BY <1>2 DEF Step, Publish, FindMany, Skip, Look, Posted, Save, PublishFails, Crash
<1> QED
  BY <1>1, <1>2

LEMMA SingleNext == TypeInv /\ TriesInv /\ SingleInv /\ [Next]_vars => SingleInv'
<1> SUFFICES ASSUME TypeInv, TriesInv, SingleInv, [Next]_vars PROVE SingleInv'
  OBVIOUS
<1>1. CASE Other \/ UNCHANGED vars
  <2>1. UNCHANGED <<threads, tries, publisher, outpaced>>
    BY <1>1, OtherEffects DEF vars, azure
  <2> QED
    BY <2>1 DEF SingleInv, NoDuplicateThread, Undisturbed, AtWorkOn
<1>2. ASSUME NEW p \in Publishers, Step(p) PROVE SingleInv'
  <2>1. \A q \in Publishers \ {p} : publisher'[q] = publisher[q]
    BY <1>2, OthersStay
  <2>2. TypeInv'
    BY TypeNext
  <2>3. /\ outpaced \subseteq outpaced'
        /\ \A r \in Rows : tries'[r] # tries[r] => Claim(p, r)
        /\ \A r \in Rows : Claim(p, r) =>
             /\ tries'[r] = tries[r] + 1
             /\ r \notin outpaced' => publisher[p].saw[r] = tries[r] /\ AtWorkOn(r) = {}
    BY <1>2, ClaimCounts
  <2>4. \A r \in Rows : threads'[r] # threads[r] =>
          /\ publisher[p].step = "posting" /\ publisher[p].row = r
          /\ threads'[r] = threads[r] + 1
    BY <1>2, AzureGrows, StepLeavesAzureOrPosts
  <2>5. ASSUME publisher'[p].row \in Rows \ outpaced' PROVE Undisturbed(p)'
    <3>1. publisher'[p].step # "next"
      BY <2>2, <2>5, PublicationAssumption DEF TypeInv, RowInHand
    <3>2. CASE \E r \in Rows : Claim(p, r) /\ publisher'[p].step = "claimed"
                 /\ publisher'[p].row = r /\ publisher'[p].saw = publisher[p].saw
      <4>1. PICK r \in Rows : /\ Claim(p, r) /\ publisher'[p].step = "claimed"
                              /\ publisher'[p].row = r /\ publisher'[p].saw = publisher[p].saw
        BY <3>2
      <4>2. AtWorkOn(r) = {} /\ publisher[p].saw[r] = tries[r] /\ tries'[r] = tries[r] + 1
        BY <2>3, <2>5, <4>1
      <4>3. AtWorkOn(r)' = {p}
        BY <2>1, <4>1, <4>2 DEF AtWorkOn
      <4> QED
        BY <4>1, <4>2, <4>3 DEF Undisturbed
    <3>3. CASE \/ Look(p) /\ publisher'[p].step = "saving"
               \/ Look(p) /\ ~AlreadyPublished(p, publisher[p].row)
               \/ Posted(p)
      <4> DEFINE r == publisher[p].row
      <4>1. /\ publisher'[p].row = r /\ publisher'[p].saw = publisher[p].saw
            /\ publisher[p].step \in {"claimed", "status", "posting"}
            /\ outpaced' = outpaced /\ tries' = tries
        BY <1>2, <3>1, <3>3, StepsOn DEF Look, Posted, Post, Claim
      <4>2. r \in Rows \ outpaced /\ Undisturbed(p)
        BY <2>5, <4>1 DEF SingleInv
      <4>3. AtWorkOn(r)' = {p}
        BY <2>1, <4>1, <4>2 DEF Undisturbed, AtWorkOn
      <4>4. CASE Look(p)
        <5>1. threads' = threads /\ publisher[p].step = "claimed"
          BY <4>4 DEF Look, azure
        <5>2. p \in Posters(r)
          BY <4>1, <4>2 DEF Posters, Undisturbed
        <5>3. threads[r] \in Nat /\ threads[r] + 1 <= tries[r]
          BY <4>2, <5>2, PosterHasTry DEF TypeInv, TypeOK
        <5>4. publisher[p].saw[r] \in Nat /\ tries[r] = publisher[p].saw[r] + 1
          BY <4>2, PublicationAssumption DEF Undisturbed, TypeInv, TypeOK
        <5>5. ~AlreadyPublished(p, r) => threads[r] = 0
          BY <5>3, <5>4 DEF AlreadyPublished
        <5> QED
          BY <3>3, <4>1, <4>2, <4>3, <4>4, <5>1, <5>4, <5>5 DEF Undisturbed, Posted, Post
      <4>5. CASE Posted(p)
        <5>1. publisher'[p].step = IF publisher[p].step = "status" THEN "posting" ELSE "saving"
          BY <4>5 DEF Posted, TypeInv, TypeOK
        <5>2. publisher[p].step = "status" => threads'[r] = threads[r] /\ threads[r] = 0
          BY <2>4, <4>2 DEF Undisturbed
        <5>3. publisher[p].saw[r] + 1 = tries[r]
          BY <4>2 DEF Undisturbed
        <5> QED
          BY <4>1, <4>3, <5>1, <5>2, <5>3 DEF Undisturbed
      <4> QED
        BY <3>3, <4>4, <4>5
    <3> QED
      BY <1>2, <3>1, <3>2, <3>3, StepsOn
  <2>6. ASSUME NEW q \in Publishers \ {p}, publisher'[q].row \in Rows \ outpaced'
        PROVE  Undisturbed(q)'
    <3> DEFINE r == publisher[q].row
    <3>1. r \in Rows \ outpaced /\ r \notin outpaced' /\ publisher'[q] = publisher[q]
      BY <2>1, <2>3, <2>6
    <3>2. Undisturbed(q) /\ AtWorkOn(r) = {q} /\ publisher[p].row # r
      BY <3>1 DEF SingleInv, Undisturbed, AtWorkOn
    <3>3. ~Claim(p, r) /\ threads'[r] = threads[r] /\ tries'[r] = tries[r]
      BY <2>3, <2>4, <3>1, <3>2
    <3>4. publisher'[p].row # r
      <4>1. CASE publisher'[p].step = "next"
        BY <2>2, <3>1, <4>1, PublicationAssumption DEF TypeInv, RowInHand
      <4>2. CASE publisher'[p].step # "next"
        BY <1>2, <3>2, <3>3, <4>2, StepsOn
      <4> QED
        BY <4>1, <4>2
    <3>5. AtWorkOn(r)' = {q}
      BY <2>1, <3>1, <3>2, <3>4 DEF AtWorkOn
    <3> QED
      BY <3>1, <3>2, <3>3, <3>5 DEF Undisturbed
  <2>7. NoDuplicateThread'
    <3> SUFFICES ASSUME NEW r \in Rows \ outpaced', threads'[r] # threads[r]
                 PROVE  threads'[r] <= 1
      BY <2>3 DEF SingleInv, NoDuplicateThread
    <3>1. publisher[p].step = "posting" /\ publisher[p].row = r /\ threads'[r] = threads[r] + 1
      BY <2>4
    <3>2. Undisturbed(p)
      BY <2>3, <3>1 DEF SingleInv
    <3> QED
      BY <3>1, <3>2 DEF Undisturbed
  <2> QED
    BY <2>5, <2>6, <2>7 DEF SingleInv
<1> QED
  BY <1>1, <1>2, NextCases

----------------------------------------------------------------------------
(* OnlyRequestShown *)

LEMMA RequestInit == Init => RequestInv
  BY DEF Init, RequestInv, Untouched, Idle

(* The snapshots of a step are those of the batch, or of the rows by now.  *)
LEMMA SnapshotOfStep ==
  ASSUME TypeInv, NEW p \in Publishers, Step(p), AboutStatus(p)'
  PROVE  \/ AboutStatus(p) /\ publisher'[p].job = publisher[p].job
         \/ Due(StatusRow) /\ publisher'[p].job = job
<1>1. publisher \in [Publishers -> Loops] /\ StatusRow \in Rows /\ NoRow # StatusRow
  BY PublicationAssumption DEF TypeInv, TypeOK, Loops, Rows
<1>2. ASSUME NEW b \in Loops, publisher'[p] = Rest(b)
      PROVE  StatusRow \in b.batch /\ publisher'[p].job = b.job
  <2>1. Rest(b) # Idle
    BY <1>1, <1>2 DEF AboutStatus, Idle
  <2>2. Rest(b) = [b EXCEPT !.step = "next", !.row = NoRow]
    BY <2>1 DEF Rest
  <2> QED
    BY <1>1, <1>2, <2>2 DEF AboutStatus, Loops
<1>3. CASE FindMany(p)
  <2>1. publisher'[p] = [Idle EXCEPT !.batch = {r \in Rows : Due(r)}, !.saw = tries, !.job = job]
    BY <1>1, <1>3 DEF FindMany
  <2>2. publisher'[p].batch = {r \in Rows : Due(r)} /\ publisher'[p].row = NoRow
        /\ publisher'[p].job = job
    BY <2>1, IdleIsLoop DEF Idle, Loops
  <2> QED
    BY <1>1, <2>2 DEF AboutStatus
<1>4. CASE \E r \in Rows : Skip(p, r)
  <2>1. PICK r \in Rows : Skip(p, r)
    BY <1>4
  <2> DEFINE b == [publisher[p] EXCEPT !.batch = @ \ {r}]
  <2>2. b \in Loops /\ b.job = publisher[p].job /\ b.batch \subseteq publisher[p].batch
    BY <1>1 DEF Loops
  <2>3. publisher'[p] = Rest(b)
    BY <1>1, <2>1 DEF Skip
  <2> QED
    BY <1>2, <2>2, <2>3 DEF AboutStatus
<1>5. CASE Save(p) \/ PublishFails(p)
  <2>1. publisher'[p] = Rest(publisher[p])
    BY <1>1, <1>5 DEF Save, PublishFails
  <2> QED
    BY <1>1, <1>2, <2>1 DEF AboutStatus
<1>6. CASE Crash(p)
  <2>1. publisher'[p] = Idle
    BY <1>1, <1>6 DEF Crash
  <2> QED
    BY <1>1, <2>1 DEF AboutStatus, Idle
<1>7. CASE publisher'[p].step # "next"
  <2>1. publisher'[p].job = publisher[p].job
    BY <1>7, StepsOn
  <2>2. AboutStatus(p)
    <3>1. CASE \E r \in Rows : /\ Claim(p, r) /\ publisher'[p].row = r
                               /\ publisher'[p].batch = publisher[p].batch \ {r}
      BY <3>1 DEF AboutStatus, Claim
    <3>2. CASE publisher'[p].row = publisher[p].row /\ publisher'[p].batch = publisher[p].batch
      BY <3>2 DEF AboutStatus
    <3> QED
      BY <1>7, <3>1, <3>2, StepsOn
  <2> QED
    BY <2>1, <2>2
<1>8. CASE Look(p) \/ Posted(p) \/ \E r \in Rows : Claim(p, r)
  <2>1. publisher'[p].step # "next"
    BY <1>1, <1>8 DEF Look, Posted, Claim, Loops
  <2> QED
    BY <1>7, <2>1
<1> QED
  BY <1>3, <1>4, <1>5, <1>6, <1>8 DEF Step, Publish

LEMMA RequestNext == TypeInv /\ RequestInv /\ [Next]_vars => RequestInv'
<1> SUFFICES ASSUME TypeInv, RequestInv, [Next]_vars PROVE RequestInv'
  OBVIOUS
<1>1. asks \in Nat
  BY PublicationAssumption DEF TypeInv, TypeOK
<1>2. CASE UNCHANGED vars
  BY <1>2 DEF RequestInv, Untouched, AboutStatus, vars, jobState, azure
<1>3. CASE Other
  <2>1. UNCHANGED <<shown, publisher>>
    BY <1>3, OtherEffects DEF azure
  <2>2. \/ UNCHANGED jobState /\ row' # row
        \/ job' = "working" /\ UNCHANGED <<asks, row>>
        \/ asks' = asks + 1
    BY <1>3 DEF Other, EndJob, RetryJob, ReportRetryFailure, LeaseExpires, TypeInv, TypeOK
  <2>3. CASE asks' = asks + 1
    <3>1. asks' # 0 /\ (asks' = 1 => asks = 0)
      BY <1>1, <2>3
    <3>2. Untouched => \A p \in Publishers : ~AboutStatus(p)
      BY PublicationAssumption DEF Untouched, AboutStatus, Idle, Rows
    <3> QED
      BY <2>1, <3>1, <3>2 DEF RequestInv, Untouched, AboutStatus
  <2>4. CASE asks' = asks /\ row' = row
    BY <2>1, <2>2, <2>4 DEF RequestInv, Untouched, AboutStatus, jobState, Ended
  <2>5. CASE \E r \in Rows : LeaseExpires(r)
    <3>1. asks # 0 /\ UNCHANGED jobState
      BY <2>5 DEF LeaseExpires, RequestInv, Untouched
    <3> QED
      BY <2>1, <3>1 DEF RequestInv, AboutStatus, jobState
  <2>6. asks' = asks + 1 \/ (asks' = asks /\ row' = row) \/ \E r \in Rows : LeaseExpires(r)
    BY <1>3 DEF Other, EndJob, RetryJob, ReportRetryFailure
  <2> QED
    BY <2>3, <2>4, <2>5, <2>6
<1>4. ASSUME NEW p \in Publishers, Step(p) PROVE RequestInv'
  <2>1. UNCHANGED jobState /\ \A q \in Publishers \ {p} : publisher'[q] = publisher[q]
    BY <1>4, StepEffects, OthersStay
  <2>2. asks # 0
    <3>1. ASSUME Untouched PROVE ~Step(p)
      <4>1. publisher[p] = Idle /\ Idle.step = "next" /\ Idle.batch = {}
        BY <3>1 DEF Untouched, Idle
      <4>2. \A r \in Rows : ~Due(r)
        BY <3>1 DEF Untouched, Due
      <4> QED
        BY <4>1, <4>2 DEF Step, Publish, FindMany, Claim, Skip, Look, Posted, Post, Save,
                          PublishFails, Crash
    <3> QED
      BY <1>4, <3>1 DEF RequestInv
  <2>3. publisher'[p].step = "status" => publisher'[p].row = StatusRow
    BY <1>4, StepsOn
  <2>4. ASSUME asks = 1, job \in Ended
        PROVE  /\ AboutStatus(p)' => publisher'[p].job = job
               /\ shown' \in {"none", StateOf(job)}
    <3>1. AboutStatus(p) => publisher[p].job = job
      BY <2>4 DEF RequestInv
    <3>2. AboutStatus(p)' => publisher'[p].job = job
      BY <1>4, <3>1, SnapshotOfStep
    <3>3. ASSUME shown' # shown PROVE shown' = StateOf(job)
      <4>1. /\ Post(p) /\ publisher[p].step = "status"
            /\ shown' = StateOf(publisher[p].job)
        BY <1>4, <3>3, StepLeavesAzureOrPosts DEF Post, azure
      <4>2. AboutStatus(p)
        BY <4>1 DEF RequestInv, AboutStatus
      <4> QED
        BY <3>1, <4>1, <4>2
    <3> QED
      BY <2>4, <3>2, <3>3 DEF RequestInv
  <2>5. ASSUME asks = 1, job \in Ended, NEW q \in Publishers, AboutStatus(q)'
        PROVE  publisher'[q].job = job
    <3>1. CASE q = p
      BY <2>4, <2>5, <3>1
    <3>2. CASE q # p
      <4>1. publisher'[q] = publisher[q] /\ AboutStatus(q)
        BY <2>1, <2>5, <3>2 DEF AboutStatus
      <4> QED
        BY <2>5, <4>1 DEF RequestInv
    <3> QED
      BY <3>1, <3>2
  <2> QED
    BY <2>1, <2>2, <2>3, <2>4, <2>5 DEF RequestInv, jobState
<1> QED
  BY <1>2, <1>3, <1>4, NextCases

----------------------------------------------------------------------------
(* The inductive invariant: types, tries, posts, undisturbed claims and    *)
(* snapshots.                                                              *)
THEOREM PublicationInvariant == Spec => []Inv
<1>1. Init => Inv
  BY TypeInit, TriesInit, PostedInit, SingleInit, RequestInit DEF Inv
<1>2. Inv /\ [Next]_vars => Inv'
  BY TypeNext, TriesNext, PostedNext, SingleNext, RequestNext DEF Inv
<1> QED
  BY <1>1, <1>2, PTL DEF Spec

(* review_publications rows keep their types: the CAS never counts past    *)
(* the limit of tries.                                                     *)
THEOREM PublicationTypes == Spec => []TypeOK
<1>1. Inv => TypeOK
  BY DEF Inv, TypeInv
<1> QED
  BY <1>1, PublicationInvariant, PTL

(* publishOne: a row that is completed has its thread on the pull request, *)
(* and the status row its status, for any number of processes and crashes. *)
THEOREM CompletedIsPublished == Spec => []CompletedWasPublished
<1>1. Inv => CompletedWasPublished
  BY DEF Inv, PostedInv
<1> QED
  BY <1>1, PublicationInvariant, PTL

(* Every thread on the pull request was counted as an attempt first.       *)
THEOREM ThreadsAreCounted == Spec => []ThreadsWithinTries
<1>1. Inv => ThreadsWithinTries
  BY DEF Inv, TriesInv
<1> QED
  BY <1>1, PublicationInvariant, PTL

(* findPublication on every attempt but the first, and the snapshot's      *)
(* attempts, together: one thread at most, unless a claim was stale or     *)
(* overtook one at work.                                                   *)
THEOREM ThreadIsSingle == Spec => []NoDuplicateThread
<1>1. Inv => NoDuplicateThread
  BY DEF Inv, SingleInv
<1> QED
  BY <1>1, PublicationInvariant, PTL

(* A state asked for once is shown as it is, although the snapshot it is   *)
(* posted from may be old.                                                 *)
THEOREM RequestIsShown == Spec => []OnlyRequestShown
<1>1. Inv => OnlyRequestShown
  <2> SUFFICES ASSUME Inv, asks = 1, job \in Ended, row[StatusRow] = "completed"
               PROVE  shown = "succeeded" <=> job = "completed"
    BY DEF OnlyRequestShown
  <2>1. shown # "none" /\ shown \in {"none", StateOf(job)}
    BY DEF Inv, PostedInv, CompletedWasPublished, RequestInv
  <2> QED
    BY <2>1 DEF StateOf
<1> QED
  BY <1>1, PublicationInvariant, PTL
=============================================================================
