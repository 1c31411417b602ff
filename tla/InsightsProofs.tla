--------------------------- MODULE InsightsProofs ---------------------------
(* Theorems about Insights for any devices, categories, command types, number*)
(* of threads, limits and levels.  First what operators did after alerts     *)
(* (CreditsInv); then the rules, a rebuild and the list of the page, whatever*)
(* was read; and last the threads that read, dismiss and publish (ShownInv). *)
EXTENDS Insights, SequenceTheorems, FiniteSetTheorems, WellFoundedInduction, TLAPS

-----------------------------------------------------------------------------
(* Counting.                                                                 *)

\* One more, and one fewer, of r in a bag.
LEMMA CopiesFacts ==
  ASSUME NEW b, IsABag(b), NEW r
  PROVE  /\ \A q : Copies(q, b) \in Nat
         /\ IsABag(b (+) SetToBag({r}))
         /\ \A q : Copies(q, b (+) SetToBag({r})) = Copies(q, b) + (IF q = r THEN 1 ELSE 0)
         /\ Copies(r, b) > 0 =>
               /\ IsABag(b (-) SetToBag({r}))
               /\ \A q : Copies(q, b (-) SetToBag({r})) = Copies(q, b) - (IF q = r THEN 1 ELSE 0)
<1> DEFINE more == b (+) SetToBag({r})
           less == b (-) SetToBag({r})
<1>1. \A q \in DOMAIN b : b[q] \in Nat /\ b[q] > 0
  BY DEF IsABag
<1>2. \A q : Copies(q, b) = IF q \in DOMAIN b THEN b[q] ELSE 0
  BY DEF Copies, BagIn, BagToSet
<1>3. \A q : Copies(q, b) \in Nat
  BY <1>1, <1>2
<1>4. more = [q \in DOMAIN b \cup {r} |-> Copies(q, b) + (IF q = r THEN 1 ELSE 0)]
  <2>1. DOMAIN SetToBag({r}) = {r} /\ SetToBag({r})[r] = 1
    BY DEF SetToBag
  <2>2. more = [q \in DOMAIN b \cup DOMAIN SetToBag({r}) |->
                   (IF q \in DOMAIN b THEN b[q] ELSE 0)
                   + (IF q \in DOMAIN SetToBag({r}) THEN SetToBag({r})[q] ELSE 0)]
    BY DEF (+)
  <2>3. \A q : (IF q \in DOMAIN SetToBag({r}) THEN SetToBag({r})[q] ELSE 0)
                  = (IF q = r THEN 1 ELSE 0)
    BY <2>1
  <2>4. ASSUME NEW q \in DOMAIN b \cup {r}
        PROVE  (IF q \in DOMAIN b THEN b[q] ELSE 0)
                   + (IF q \in DOMAIN SetToBag({r}) THEN SetToBag({r})[q] ELSE 0)
               = Copies(q, b) + (IF q = r THEN 1 ELSE 0)
    BY <1>2, <2>3
  <2> HIDE DEF more
  <2> QED
    BY <2>1, <2>2, <2>4
<1>5. IsABag(more) /\ \A q : Copies(q, more) = Copies(q, b) + (IF q = r THEN 1 ELSE 0)
  <2>1. DOMAIN more = DOMAIN b \cup {r}
    BY <1>4
  <2>2. ASSUME NEW q \in DOMAIN b \cup {r}
        PROVE  more[q] = Copies(q, b) + (IF q = r THEN 1 ELSE 0) /\ more[q] \in {n \in Nat : n > 0}
    <3>1. more[q] = Copies(q, b) + (IF q = r THEN 1 ELSE 0)
      BY <1>4
    <3>2. CASE q = r
      BY <1>3, <3>1, <3>2
    <3>3. CASE q # r
      BY <1>1, <1>2, <3>1, <3>3
    <3> QED
      BY <3>1, <3>2, <3>3
  <2>3. IsABag(more)
    <3> HIDE DEF more
    <3>1. more = [q \in DOMAIN more |-> more[q]]
      BY <1>4, <2>1
    <3> QED
      BY <2>1, <2>2, <3>1 DEF IsABag
  <2>4. \A q : Copies(q, more) = IF q \in DOMAIN b \cup {r} THEN more[q] ELSE 0
    <3> HIDE DEF more
    <3> QED
      BY <2>1 DEF Copies, BagIn, BagToSet
  <2> HIDE DEF more
  <2> QED
    BY <1>2, <2>2, <2>3, <2>4
<1>6. ASSUME Copies(r, b) > 0
      PROVE  IsABag(less) /\ \A q : Copies(q, less) = Copies(q, b) - (IF q = r THEN 1 ELSE 0)
  <2> DEFINE left(q) == b[q] - (IF q = r THEN 1 ELSE 0)
             rest == {q \in DOMAIN b : left(q) > 0}
  <2>1. r \in DOMAIN b /\ b[r] \in Nat /\ b[r] > 0
    BY <1>1, <1>2, <1>6
  <2>2. less = [q \in rest |-> left(q)]
    <3>1. DOMAIN SetToBag({r}) = {r} /\ SetToBag({r})[r] = 1
      BY DEF SetToBag
    <3> DEFINE both == [q \in DOMAIN b |-> IF q \in DOMAIN SetToBag({r})
                                           THEN b[q] - SetToBag({r})[q] ELSE b[q]]
    <3>2. less = [q \in {d \in DOMAIN both : both[d] > 0} |-> both[q]]
      BY Zenon DEF (-)
    <3>3. DOMAIN both = DOMAIN b /\ \A q \in DOMAIN b : both[q] = left(q)
      BY <1>1, <3>1
    <3> HIDE DEF less, both, left
    <3>4. {d \in DOMAIN both : both[d] > 0} = rest
      BY <3>3
    <3> QED
      BY <3>2, <3>3, <3>4
  <2>3. \A q \in DOMAIN b : left(q) \in Nat /\ (left(q) > 0 \/ left(q) = 0)
    BY <1>1, <2>1
  <2>4. DOMAIN less = rest /\ \A q \in rest : less[q] = left(q) /\ less[q] \in {n \in Nat : n > 0}
    BY <2>2, <2>3
  <2>5. IsABag(less)
    <3> HIDE DEF less, rest, left
    <3>1. less = [q \in DOMAIN less |-> less[q]]
      BY <2>2, <2>4
    <3> QED
      BY <2>4, <3>1 DEF IsABag
  <2>6. \A q : Copies(q, less) = IF q \in rest THEN left(q) ELSE 0
    <3> HIDE DEF less, rest, left
    <3> QED
      BY <2>4 DEF Copies, BagIn, BagToSet
  <2>7. ASSUME NEW q PROVE Copies(q, less) = Copies(q, b) - (IF q = r THEN 1 ELSE 0)
    <3>1. CASE q \in DOMAIN b
      BY <1>2, <2>3, <2>6, <3>1
    <3>2. CASE q \notin DOMAIN b
      BY <1>2, <2>1, <2>6, <3>2
    <3> QED
      BY <3>1, <3>2
  <2> HIDE DEF less
  <2> QED
    BY <2>5, <2>7
<1> QED
  BY <1>3, <1>5, <1>6

\* The commands credited with r.
CreditedWith(c, r) == {n \in DOMAIN c : c[n] = r}

\* There are finitely many.
LEMMA CreditType ==
  ASSUME NEW c, IsFiniteSet(DOMAIN c)
  PROVE  \A q : IsFiniteSet(CreditedWith(c, q)) /\ Cardinality(CreditedWith(c, q)) \in Nat
<1> TAKE q
<1>1. CreditedWith(c, q) \in SUBSET DOMAIN c
  BY DEF CreditedWith
<1> QED
  BY <1>1, FS_Subset, FS_CardinalityType

\* A command more that is credited.
LEMMA CreditAt ==
  ASSUME NEW c, NEW n, NEW r
  PROVE  DOMAIN With(c, n, r) = DOMAIN c \cup {n}
BY DEF With

LEMMA CreditAdded ==
  ASSUME NEW c, NEW n, NEW r, IsFiniteSet(DOMAIN c), n \notin DOMAIN c, NEW q
  PROVE  Cardinality(CreditedWith(With(c, n, r), q))
            = Cardinality(CreditedWith(c, q)) + (IF q = r THEN 1 ELSE 0)
<1> DEFINE e == With(c, n, r)
<1>1. /\ DOMAIN e = DOMAIN c \cup {n} /\ e[n] = r
      /\ \A m \in DOMAIN c : e[m] = c[m]
  BY DEF With
<1> HIDE DEF e
<1>2. CASE q = r
  <2>1. CreditedWith(e, q) = CreditedWith(c, q) \cup {n} /\ n \notin CreditedWith(c, q)
    BY <1>1, <1>2 DEF CreditedWith
  <2> QED
    BY CreditType, <1>2, <2>1, FS_AddElement DEF e
<1>3. CASE q # r
  <2>1. CreditedWith(e, q) = CreditedWith(c, q)
    BY <1>1, <1>3 DEF CreditedWith
  <2> QED
    BY CreditType, <1>3, <2>1 DEF e
<1> QED
  BY <1>2, <1>3

\* A command fewer.
LEMMA CreditRemoved ==
  ASSUME NEW c, IsFiniteSet(DOMAIN c), NEW n \in DOMAIN c
  PROVE  /\ DOMAIN Restrict(c, DOMAIN c \ {n}) = DOMAIN c \ {n}
         /\ Cardinality(CreditedWith(c, c[n])) > 0
         /\ \A q : Cardinality(CreditedWith(Restrict(c, DOMAIN c \ {n}), q))
                      = Cardinality(CreditedWith(c, q)) - (IF q = c[n] THEN 1 ELSE 0)
<1> DEFINE e == Restrict(c, DOMAIN c \ {n})
<1>1. DOMAIN e = DOMAIN c \ {n} /\ \A m \in DOMAIN c \ {n} : e[m] = c[m]
  BY DEF Restrict
<1> HIDE DEF e
<1>2. n \in CreditedWith(c, c[n])
  BY DEF CreditedWith
<1>3. Cardinality(CreditedWith(c, c[n])) > 0
  <2>1. Cardinality(CreditedWith(c, c[n])) # 0
    BY CreditType, <1>2, FS_EmptySet
  <2> QED
    BY CreditType, <2>1
<1>4. ASSUME NEW q
      PROVE  Cardinality(CreditedWith(e, q))
                 = Cardinality(CreditedWith(c, q)) - (IF q = c[n] THEN 1 ELSE 0)
  <2>1. CreditedWith(e, q) = CreditedWith(c, q) \ {n}
    BY <1>1 DEF CreditedWith
  <2>2. n \in CreditedWith(c, q) <=> q = c[n]
    BY DEF CreditedWith
  <2>3. Cardinality(CreditedWith(c, q) \ {n})
           = IF n \in CreditedWith(c, q) THEN Cardinality(CreditedWith(c, q)) - 1
                                         ELSE Cardinality(CreditedWith(c, q))
    BY CreditType, FS_RemoveElement
  <2> QED
    BY CreditType, <2>1, <2>2, <2>3
<1> QED
  BY <1>1, <1>3, <1>4 DEF e
-----------------------------------------------------------------------------
(* The inductive invariant of what is learned.                               *)

\* Every thread is somewhere.
ThreadsAt == DOMAIN thread = Threads /\ \A t \in Threads : "at" \in DOMAIN thread[t]

Learning(t) == thread[t].at \in {"learn", "credit"} /\ thread[t].id # 0

\* A command is learned from by at most one thread and credited after that.
LearnedOnce ==
    /\ \A t \in Threads : Learning(t) => thread[t].id \in (1 .. lastId) \ DOMAIN credited
    /\ \A t, u \in Threads :
          Learning(t) /\ Learning(u) /\ thread[t].id = thread[u].id => t = u

\* A command that was forgotten before that is among the early ones.
ForgottenEarly ==
    /\ \A t \in Threads : Learning(t) /\ thread[t].id \in forgotten => thread[t].id \in early
    /\ DOMAIN credited \cap forgotten \subseteq early

Overrides == [kind : CommandTypes \cup {"none"}, until : Nat, id : Nat]
UndoRecords == [id : Nat, batch : Nat, priors : [Devices -> Overrides]]

\* What is forgotten was issued.
IdsIssued ==
    /\ lastId \in Nat /\ clock \in Nat
    /\ override \in [Devices -> Overrides] /\ undo \in Seq(UndoRecords)
    /\ DOMAIN credited \subseteq 1 .. lastId /\ forgotten \subseteq 1 .. lastId
    /\ \A t \in Threads : thread[t].at = "forget" => thread[t].id \in 1 .. lastId
    /\ \A i \in 1 .. Len(undo) : undo[i].id \in 1 .. lastId

\* The counts are those of the clicks and of the credited commands.
CountsAdd ==
    /\ IsABag(counts) /\ IsABag(clicks)
    /\ \A r : Copies(r, counts) = Copies(r, clicks) + Cardinality(CreditedWith(credited, r))

CreditsInv == ThreadsAt /\ IdsIssued /\ LearnedOnce /\ ForgottenEarly /\ CountsAdd

\* No thread but t moves.
Moves(t) ==
    /\ DOMAIN thread' = Threads /\ "at" \in DOMAIN thread'[t]
    /\ \A u \in Threads \ {t} : thread'[u] = thread[u]

\* At first nothing is learned.
LEMMA CreditsStart == Init => CreditsInv
<1> SUFFICES ASSUME Init PROVE CreditsInv
  OBVIOUS
<1>1. DOMAIN thread = Threads /\ \A t \in Threads : thread[t] = Idle
  BY DEF Init
<1>2. ThreadsAt /\ \A t \in Threads : thread[t].at = "idle"
  BY <1>1 DEF ThreadsAt, Idle
<1>3. undo = <<>> /\ credited = <<>> /\ lastId = 0 /\ forgotten = {} /\ clock = 0
  BY DEF Init
<1>4. override \in [Devices -> Overrides]
  BY DEF Init, NoOverride, Overrides
<1>5. DOMAIN credited = {}
  BY <1>3
<1>6. IdsIssued
  BY <1>2, <1>3, <1>4, <1>5 DEF IdsIssued
<1>7. LearnedOnce /\ ForgottenEarly
  BY <1>2, <1>5 DEF LearnedOnce, ForgottenEarly, Learning
<1>8. CountsAdd
  <2>1. counts = EmptyBag /\ clicks = EmptyBag
    BY DEF Init
  <2>2. DOMAIN EmptyBag = {}
    BY DEF EmptyBag, SetToBag
  <2>3. IsABag(EmptyBag)
    <3>1. EmptyBag = [e \in DOMAIN EmptyBag |-> EmptyBag[e]]
      BY DEF EmptyBag, SetToBag
    <3> QED
      BY <2>2, <3>1 DEF IsABag
  <2>4. \A r : Copies(r, EmptyBag) = 0
    BY <2>2 DEF Copies, BagIn, BagToSet
  <2>5. \A r : CreditedWith(credited, r) = {}
    BY <1>5 DEF CreditedWith
  <2> QED
    BY <2>1, <2>3, <2>4, <2>5, FS_EmptySet DEF CountsAdd
<1> QED
  BY <1>2, <1>6, <1>7, <1>8 DEF CreditsInv

\* A thread that does not begin to learn or to forget a command.
LEMMA ThreadKeeps ==
  ASSUME CreditsInv, NEW t \in Threads, Moves(t),
         thread'[t].at # "forget",
         Learning(t)' => Learning(t) /\ thread'[t].id = thread[t].id,
         UNCHANGED <<lastId, undo, override, learnVars>>, clock' \in Nat
  PROVE  CreditsInv'
<1>1. /\ UNCHANGED <<lastId, undo, override, counts, credited, clicks, early, forgotten>>
      /\ DOMAIN thread' = Threads /\ \A u \in Threads \ {t} : thread'[u] = thread[u]
  BY DEF learnVars, Moves
<1>2. \A u \in Threads : Learning(u)' => Learning(u) /\ thread'[u].id = thread[u].id
  BY <1>1 DEF Learning
<1>3. \A u \in Threads : thread'[u].at = "forget" => thread[u].at = "forget" /\ thread'[u] = thread[u]
  BY <1>1
<1>4. ThreadsAt'
  BY <1>1 DEF CreditsInv, ThreadsAt, Moves
<1>5. IdsIssued'
  BY <1>1, <1>3 DEF CreditsInv, IdsIssued
<1>6. LearnedOnce'
  <2>1. LearnedOnce
    BY DEF CreditsInv
  <2>2. \A u \in Threads : Learning(u)' => thread'[u].id \in (1 .. lastId) \ DOMAIN credited
    BY <1>2, <2>1 DEF LearnedOnce
  <2>3. \A u, w \in Threads :
            Learning(u)' /\ Learning(w)' /\ thread'[u].id = thread'[w].id => u = w
    BY <1>2, <2>1 DEF LearnedOnce
  <2> QED
    BY <1>1, <2>2, <2>3 DEF LearnedOnce
<1>7. ForgottenEarly'
  <2>1. ForgottenEarly
    BY DEF CreditsInv
  <2>2. \A u \in Threads : Learning(u)' /\ thread'[u].id \in forgotten => thread'[u].id \in early
    BY <1>2, <2>1 DEF ForgottenEarly
  <2> QED
    BY <1>1, <2>1, <2>2 DEF ForgottenEarly
<1>8. CountsAdd'
  BY <1>1 DEF CreditsInv, CountsAdd
<1> QED
  BY <1>4, <1>5, <1>6, <1>7, <1>8 DEF CreditsInv

\* A rebuild, a dismissal, a click and the end of a batch learn nothing.
LEMMA CallKeeps ==
  ASSUME CreditsInv, NEW t \in Threads,
         \/ CloseBatch(t) \/ (\E d \in Devices : Detect(t, d)) \/ Dismiss(t) \/ BeginRebuild(t)
         \/ Click(t) \/ FindAlert(t) \/ EndDetect(t) \/ Read(t) \/ Publish(t)
  PROVE  CreditsInv'
<1>1. DOMAIN thread = Threads /\ "at" \in DOMAIN thread[t] /\ clock \in Nat
  BY DEF CreditsInv, ThreadsAt, IdsIssued
<1> DEFINE Keeps == /\ Moves(t) /\ thread'[t].at # "forget"
                    /\ Learning(t)' => Learning(t) /\ thread'[t].id = thread[t].id
                    /\ UNCHANGED <<lastId, undo, override, learnVars>> /\ clock' \in Nat
<1>2. ASSUME NEW x, thread' = [thread EXCEPT ![t] = x], "at" \in DOMAIN x
      PROVE  Moves(t) /\ thread'[t] = x
  BY <1>1, <1>2 DEF Moves
<1>3. ASSUME CloseBatch(t) PROVE Keeps
  <2> DEFINE x == [at |-> "detect", todo |-> Devices]
  <2>1. /\ thread' = [thread EXCEPT ![t] = x] /\ clock' = clock + 1
        /\ UNCHANGED <<lastId, undo, override, learnVars>>
    BY <1>3 DEF CloseBatch, commandVars, engineVars
  <2>2. "at" \in DOMAIN x /\ x.at = "detect"
    OBVIOUS
  <2>3. clock' \in Nat
    BY <1>1, <2>1
  <2> HIDE DEF x
  <2>4. Moves(t) /\ thread'[t].at = "detect"
    BY <1>2, <2>1, <2>2
  <2> QED
    BY <2>1, <2>3, <2>4 DEF Learning
<1>4. ASSUME NEW d \in Devices, Detect(t, d) PROVE Keeps
  <2> DEFINE x == [thread[t] EXCEPT !.todo = @ \ {d}]
  <2>1. /\ thread' = [thread EXCEPT ![t] = x] /\ clock' = clock /\ thread[t].at = "detect"
        /\ UNCHANGED <<lastId, undo, override, learnVars>>
    BY <1>4 DEF Detect, commandVars, engineVars
  <2>2. "at" \in DOMAIN x /\ x.at = "detect"
    BY <1>1, <2>1
  <2> HIDE DEF x
  <2> QED
    BY <1>1, <1>2, <2>1, <2>2 DEF Learning
<1>5. ASSUME Dismiss(t) PROVE Keeps
  <2>1. PICK s : thread' = [thread EXCEPT ![t] = [at |-> "wait", dismissal |-> s]]
    BY <1>5 DEF Dismiss
  <2>2. clock' = clock /\ UNCHANGED <<lastId, undo, override, learnVars>>
    BY <1>5 DEF Dismiss, worldVars, commandVars
  <2> DEFINE x == [at |-> "wait", dismissal |-> s]
  <2>3. thread' = [thread EXCEPT ![t] = x]
    BY <2>1
  <2>4. "at" \in DOMAIN x /\ x.at = "wait"
    OBVIOUS
  <2> HIDE DEF x
  <2> QED
    BY <1>1, <1>2, <2>2, <2>3, <2>4 DEF Learning
<1>6. ASSUME BeginRebuild(t) PROVE Keeps
  <2> DEFINE x == [at |-> "rebuild", next |-> 1, view |-> <<>>, dismissal |-> thread[t].dismissal]
  <2>1. /\ thread' = [thread EXCEPT ![t] = x] /\ clock' = clock
        /\ UNCHANGED <<lastId, undo, override, learnVars>>
    BY <1>6 DEF BeginRebuild, worldVars, commandVars
  <2>2. "at" \in DOMAIN x /\ x.at = "rebuild"
    OBVIOUS
  <2> HIDE DEF x
  <2> QED
    BY <1>1, <1>2, <2>1, <2>2 DEF Learning
<1>7. ASSUME Click(t) PROVE Keeps
  <2>1. PICK d \in Devices : thread' = [thread EXCEPT ![t] =
            [at |-> "learn", id |-> 0, action |-> "Inspect", target |-> d, batch |-> clock]]
    BY <1>7 DEF Click
  <2>2. clock' = clock /\ UNCHANGED <<lastId, undo, override, learnVars>>
    BY <1>7 DEF Click, worldVars, commandVars, engineVars
  <2> DEFINE x == [at |-> "learn", id |-> 0, action |-> "Inspect", target |-> d, batch |-> clock]
  <2>3. thread' = [thread EXCEPT ![t] = x]
    BY <2>1
  <2>4. "at" \in DOMAIN x /\ x.at = "learn" /\ x.id = 0
    OBVIOUS
  <2> HIDE DEF x
  <2> QED
    BY <1>1, <1>2, <2>2, <2>3, <2>4 DEF Learning
<1>8. ASSUME FindAlert(t) PROVE Keeps
  <2>1. thread[t].at = "learn" /\ clock' = clock /\ UNCHANGED <<lastId, undo, override, learnVars>>
    BY <1>8 DEF FindAlert, worldVars, commandVars, engineVars
  <2>2. CASE thread' = [thread EXCEPT ![t] = AfterLearning(t)]
    <3>1. AfterLearning(t).at \in {"idle", "wait"} /\ "at" \in DOMAIN AfterLearning(t)
      BY DEF AfterLearning, Idle, Waiting
    <3>2. Moves(t) /\ thread'[t].at \in {"idle", "wait"}
      BY <1>2, <2>2, <3>1
    <3> QED
      BY <1>1, <2>1, <3>2 DEF Learning
  <2>3. ASSUME NEW r, thread' = [thread EXCEPT ![t] =
                                    [at |-> "credit", id |-> thread[t].id, response |-> r]]
        PROVE  Keeps
    <3> DEFINE x == [at |-> "credit", id |-> thread[t].id, response |-> r]
    <3>1. "at" \in DOMAIN x /\ x.at = "credit" /\ x.id = thread[t].id
      OBVIOUS
    <3>2. thread' = [thread EXCEPT ![t] = x]
      BY <2>3
    <3> HIDE DEF x
    <3> QED
      BY <1>1, <1>2, <2>1, <3>1, <3>2 DEF Learning
  <2> QED
    BY <1>8, <2>2, <2>3 DEF FindAlert
<1>9. ASSUME EndDetect(t) PROVE Keeps
  <2>1. /\ thread' = [thread EXCEPT ![t] = Waiting] /\ clock' = clock
        /\ UNCHANGED <<lastId, undo, override, learnVars>>
    BY <1>9 DEF EndDetect, worldVars, commandVars, engineVars
  <2>2. "at" \in DOMAIN Waiting /\ Waiting.at = "wait"
    BY DEF Waiting
  <2> QED
    BY <1>1, <1>2, <2>1, <2>2 DEF Learning
<1>10. ASSUME Read(t) PROVE Keeps
  <2> DEFINE x == [thread[t] EXCEPT
                      !.view = With(@, ReadOrder[thread[t].next], World[ReadOrder[thread[t].next]]),
                      !.next = @ + 1]
  <2>1. /\ thread' = [thread EXCEPT ![t] = x] /\ clock' = clock /\ thread[t].at = "rebuild"
        /\ UNCHANGED <<lastId, undo, override, learnVars>>
    <3>1. thread' = [thread EXCEPT
              ![t].view = With(@, ReadOrder[thread[t].next], World[ReadOrder[thread[t].next]]),
              ![t].next = @ + 1]
      BY <1>10 DEF Read
    <3>2. /\ clock' = clock /\ thread[t].at = "rebuild"
          /\ UNCHANGED <<lastId, undo, override, learnVars>>
      BY <1>10 DEF Read, worldVars, commandVars, engineVars
    <3> QED
      BY <1>1, <3>1, <3>2
  <2>2. "at" \in DOMAIN x /\ x.at = "rebuild"
    BY <1>1, <2>1
  <2> HIDE DEF x
  <2> QED
    BY <1>1, <1>2, <2>1, <2>2 DEF Learning
<1>11. ASSUME Publish(t) PROVE Keeps
  <2>1. /\ thread' = [thread EXCEPT ![t] = Idle] /\ clock' = clock
        /\ UNCHANGED <<lastId, undo, override, learnVars>>
    BY <1>11 DEF Publish, worldVars, commandVars
  <2>2. "at" \in DOMAIN Idle /\ Idle.at = "idle"
    BY DEF Idle
  <2> QED
    BY <1>1, <1>2, <2>1, <2>2 DEF Learning
<1>12. Keeps
  BY <1>3, <1>4, <1>5, <1>6, <1>7, <1>8, <1>9, <1>10, <1>11, Zenon
<1> QED
  BY <1>12, ThreadKeeps

\* A command gets an id that no other has.
LEMMA IssueKeeps ==
  ASSUME CreditsInv, NEW t \in Threads, Issue(t)
  PROVE  CreditsInv'
<1>1. PICK type \in CommandTypes, target \in Targets :
          /\ \/ IssueOverride(type, target)
             \/ IssueMute(type, target)
             \/ IssueAcknowledge(type, target)
          /\ thread' = [thread EXCEPT ![t] = [at |-> "learn", id |-> lastId + 1, action |-> type,
                                              target |-> target, batch |-> clock]]
  BY DEF Issue
<1>2. /\ thread[t] = Idle /\ lastId' = lastId + 1 /\ clock' = clock
      /\ UNCHANGED <<counts, credited, clicks, early, forgotten>>
  BY DEF Issue, engineVars, learnVars
<1>3. /\ lastId \in Nat /\ lastId + 1 \in Nat /\ clock \in Nat /\ GraceBatches \in Nat
      /\ override \in [Devices -> Overrides] /\ undo \in Seq(UndoRecords)
      /\ \A i \in 1 .. Len(undo) : undo[i].id \in 1 .. lastId
      /\ DOMAIN thread = Threads /\ \A u \in Threads : "at" \in DOMAIN thread[u]
  BY InsightsAssumption DEF CreditsInv, IdsIssued, ThreadsAt
<1> DEFINE x == [at |-> "learn", id |-> lastId + 1, action |-> type, target |-> target,
                 batch |-> clock]
           record == [id |-> lastId + 1, batch |-> clock, priors |-> override]
<1>4. x.at = "learn" /\ x.id = lastId + 1 /\ "at" \in DOMAIN x
  OBVIOUS
<1>5. thread'[t] = x /\ DOMAIN thread' = Threads /\ \A u \in Threads \ {t} : thread'[u] = thread[u]
  <2>1. thread' = [thread EXCEPT ![t] = x]
    BY <1>1
  <2> HIDE DEF x
  <2> QED
    BY <1>3, <2>1
<1> HIDE DEF x
<1>6. override' \in [Devices -> Overrides]
  <2>1. CASE IssueOverride(type, target)
    <3>1. clock + GraceBatches \in Nat
      BY <1>3
    <3>2. [kind |-> type, until |-> clock + GraceBatches, id |-> lastId + 1] \in Overrides
      BY <1>3, <3>1 DEF Overrides
    <3> QED
      BY <1>3, <2>1, <3>2 DEF IssueOverride
  <2>2. CASE IssueMute(type, target) \/ IssueAcknowledge(type, target)
    BY <1>3, <2>2 DEF IssueMute, IssueAcknowledge
  <2> QED
    BY <1>1, <2>1, <2>2
<1>7. record \in UndoRecords /\ record.id = lastId + 1
  BY <1>3 DEF UndoRecords
<1>8. undo' = undo \/ undo' = Append(undo, record)
  BY <1>1 DEF IssueOverride, IssueMute, IssueAcknowledge
<1> HIDE DEF record
<1>9. undo' \in Seq(UndoRecords) /\ \A i \in 1 .. Len(undo') : undo'[i].id \in 1 .. lastId + 1
  <2>1. 1 .. lastId \subseteq 1 .. lastId + 1 /\ lastId + 1 \in 1 .. lastId + 1
    BY <1>3
  <2>2. CASE undo' = undo
    BY <1>3, <2>1, <2>2
  <2>3. CASE undo' = Append(undo, record)
    <3>1. /\ undo' \in Seq(UndoRecords) /\ Len(undo') = Len(undo) + 1
          /\ undo'[Len(undo) + 1] = record /\ Len(undo) \in Nat
          /\ \A i \in 1 .. Len(undo) : undo'[i] = undo[i]
      BY <1>3, <1>7, <2>3
    <3>2. \A i \in 1 .. Len(undo) + 1 : i \in 1 .. Len(undo) \/ i = Len(undo) + 1
      BY <3>1
    <3> QED
      BY <1>3, <1>7, <2>1, <3>1, <3>2
  <2> QED
    BY <1>8, <2>2, <2>3
<1>10. /\ \A u \in Threads : Learning(u)' => (u = t \/ Learning(u)) /\ (u # t => thread'[u] = thread[u])
       /\ \A u \in Threads : thread'[u].at = "forget" => thread[u].at = "forget" /\ thread'[u] = thread[u]
       /\ \A u \in Threads : Learning(u)' /\ u = t => thread'[u].id = lastId + 1
  BY <1>4, <1>5 DEF Learning
<1>11. ThreadsAt'
  BY <1>3, <1>4, <1>5 DEF ThreadsAt
<1>12. IdsIssued'
  <2>1. 1 .. lastId \subseteq 1 .. lastId + 1
    BY <1>3
  <2> QED
    BY <1>2, <1>3, <1>6, <1>9, <1>10, <2>1 DEF CreditsInv, IdsIssued
<1>13. lastId + 1 \notin 1 .. lastId /\ lastId + 1 \in 1 .. lastId + 1 /\ 1 .. lastId \subseteq 1 .. lastId + 1
  BY <1>3
<1>14. lastId + 1 \notin DOMAIN credited /\ lastId + 1 \notin forgotten
  BY <1>13 DEF CreditsInv, IdsIssued
<1>15. \A u \in Threads : Learning(u) => thread[u].id \in (1 .. lastId) \ DOMAIN credited
  BY DEF CreditsInv, LearnedOnce
<1>16. LearnedOnce'
  <2>1. ASSUME NEW u \in Threads, Learning(u)'
        PROVE  thread'[u].id \in (1 .. lastId + 1) \ DOMAIN credited
    BY <1>10, <1>13, <1>14, <1>15, <2>1
  <2>2. ASSUME NEW u \in Threads, NEW w \in Threads, Learning(u)', Learning(w)',
               thread'[u].id = thread'[w].id
        PROVE  u = w
    BY <1>10, <1>13, <1>15, <2>2 DEF CreditsInv, LearnedOnce
  <2> QED
    BY <1>2, <2>1, <2>2 DEF LearnedOnce
<1>17. ForgottenEarly'
  <2>1. \A u \in Threads : Learning(u)' /\ thread'[u].id \in forgotten => thread'[u].id \in early
    BY <1>10, <1>14 DEF CreditsInv, ForgottenEarly
  <2> QED
    BY <1>2, <2>1 DEF CreditsInv, ForgottenEarly
<1>18. CountsAdd'
  BY <1>2 DEF CreditsInv, CountsAdd
<1> QED
  BY <1>11, <1>12, <1>16, <1>17, <1>18 DEF CreditsInv

\* A command is credited: its thread has learned from it.
LEMMA CreditKeeps ==
  ASSUME CreditsInv, NEW t \in Threads, Credit(t)
  PROVE  CreditsInv'
<1> DEFINE r == thread[t].response
           n == thread[t].id
<1>1. /\ thread[t].at = "credit" /\ counts' = counts (+) SetToBag({r})
      /\ IF n = 0 THEN clicks' = clicks (+) SetToBag({r}) /\ credited' = credited
                  ELSE credited' = With(credited, n, r) /\ clicks' = clicks
      /\ thread' = [thread EXCEPT ![t] = AfterLearning(t)]
      /\ UNCHANGED <<clock, lastId, undo, override, early, forgotten>>
  BY Zenon DEF Credit, worldVars, commandVars
<1>2. /\ DOMAIN thread = Threads /\ \A u \in Threads : "at" \in DOMAIN thread[u]
  BY DEF CreditsInv, ThreadsAt
<1>3. AfterLearning(t).at \in {"idle", "wait"} /\ "at" \in DOMAIN AfterLearning(t)
  BY DEF AfterLearning, Idle, Waiting
<1>4. /\ thread'[t].at \in {"idle", "wait"} /\ ThreadsAt'
      /\ \A u \in Threads \ {t} : thread'[u] = thread[u]
  BY <1>1, <1>2, <1>3 DEF ThreadsAt
<1>5. /\ \A u \in Threads : Learning(u)' => u # t /\ Learning(u) /\ thread'[u] = thread[u]
      /\ \A u \in Threads : thread'[u].at = "forget" => thread[u].at = "forget" /\ thread'[u] = thread[u]
  BY <1>4 DEF Learning
<1>6. n # 0 => n \in (1 .. lastId) \ DOMAIN credited
  BY <1>1 DEF CreditsInv, LearnedOnce, Learning
<1>7. IsFiniteSet(DOMAIN credited)
  <2>1. lastId \in Nat /\ DOMAIN credited \in SUBSET (1 .. lastId)
    BY DEF CreditsInv, IdsIssued
  <2>2. IsFiniteSet(1 .. lastId)
    BY <2>1, FS_Interval
  <2> QED
    BY <2>1, <2>2, FS_Subset
<1> HIDE DEF r, n
<1>8. DOMAIN credited' = IF n = 0 THEN DOMAIN credited ELSE DOMAIN credited \cup {n}
  BY <1>1, CreditAt
<1>9. IdsIssued'
  BY <1>1, <1>5, <1>6, <1>8 DEF CreditsInv, IdsIssued
<1>10. LearnedOnce'
  <2>1. LearnedOnce /\ (n # 0 => Learning(t)) /\ n = thread[t].id
    BY <1>1 DEF CreditsInv, Learning, n
  <2>2. ASSUME NEW u \in Threads, Learning(u)'
        PROVE  thread'[u].id \in (1 .. lastId) \ DOMAIN credited'
    BY <1>5, <1>8, <2>1, <2>2 DEF LearnedOnce
  <2>3. \A u, w \in Threads :
            Learning(u)' /\ Learning(w)' /\ thread'[u].id = thread'[w].id => u = w
    BY <1>5, <2>1 DEF LearnedOnce
  <2> QED
    BY <1>1, <2>2, <2>3 DEF LearnedOnce
<1>11. ForgottenEarly'
  <2>1. ForgottenEarly /\ (n # 0 => Learning(t)) /\ n = thread[t].id
    BY <1>1 DEF CreditsInv, Learning, n
  <2>2. DOMAIN credited' \cap forgotten \subseteq early
    BY <1>8, <2>1 DEF ForgottenEarly
  <2>3. \A u \in Threads : Learning(u)' /\ thread'[u].id \in forgotten => thread'[u].id \in early
    BY <1>5, <2>1 DEF ForgottenEarly
  <2> QED
    BY <1>1, <2>2, <2>3 DEF ForgottenEarly
<1>12. CountsAdd'
  <2>1. /\ IsABag(counts) /\ IsABag(clicks)
        /\ \A q : Copies(q, counts) = Copies(q, clicks) + Cardinality(CreditedWith(credited, q))
    BY DEF CreditsInv, CountsAdd
  <2>2. /\ \A q : Copies(q, counts) \in Nat /\ Copies(q, clicks) \in Nat
        /\ IsABag(counts') /\ IsABag(clicks (+) SetToBag({r}))
        /\ \A q : Copies(q, counts') = Copies(q, counts) + (IF q = r THEN 1 ELSE 0)
        /\ \A q : Copies(q, clicks (+) SetToBag({r})) = Copies(q, clicks) + (IF q = r THEN 1 ELSE 0)
    BY <1>1, <2>1, CopiesFacts
  <2>3. /\ \A q : Cardinality(CreditedWith(credited, q)) \in Nat
        /\ n # 0 => \A q : Cardinality(CreditedWith(With(credited, n, r), q))
                              = Cardinality(CreditedWith(credited, q)) + (IF q = r THEN 1 ELSE 0)
    <3>1. \A q : Cardinality(CreditedWith(credited, q)) \in Nat
      BY <1>7, CreditType
    <3>2. ASSUME NEW m, NEW p, m \notin DOMAIN credited, NEW q
          PROVE  Cardinality(CreditedWith(With(credited, m, p), q))
                    = Cardinality(CreditedWith(credited, q)) + (IF q = p THEN 1 ELSE 0)
      BY <1>7, <3>2, CreditAdded
    <3>3. n # 0 => n \notin DOMAIN credited
      BY <1>6
    <3> QED
      BY <3>1, <3>2, <3>3, Zenon
  <2>4. CASE n = 0
    <3>1. clicks' = clicks (+) SetToBag({r}) /\ credited' = credited
      BY <1>1, <2>4
    <3>2. ASSUME NEW q
          PROVE  Copies(q, counts') = Copies(q, clicks') + Cardinality(CreditedWith(credited', q))
      <4>1. /\ Copies(q, counts) = Copies(q, clicks) + Cardinality(CreditedWith(credited, q))
            /\ Copies(q, counts') = Copies(q, counts) + (IF q = r THEN 1 ELSE 0)
            /\ Copies(q, clicks') = Copies(q, clicks) + (IF q = r THEN 1 ELSE 0)
            /\ Copies(q, clicks) \in Nat /\ Cardinality(CreditedWith(credited, q)) \in Nat
        BY <2>1, <2>2, <2>3, <3>1
      <4> QED
        BY <3>1, <4>1
    <3> QED
      BY <2>2, <3>1, <3>2 DEF CountsAdd
  <2>5. CASE n # 0
    <3>1. clicks' = clicks /\ credited' = With(credited, n, r)
      BY <1>1, <2>5
    <3>2. ASSUME NEW q
          PROVE  Copies(q, counts') = Copies(q, clicks') + Cardinality(CreditedWith(credited', q))
      BY <2>1, <2>2, <2>3, <2>5, <3>1
    <3> QED
      BY <2>1, <2>2, <3>1, <3>2 DEF CountsAdd
  <2> QED
    BY <2>4, <2>5
<1> QED
  BY <1>4, <1>9, <1>10, <1>11, <1>12 DEF CreditsInv

\* An undo takes the id of the newest record.
LEMMA UndoKeeps ==
  ASSUME CreditsInv, NEW t \in Threads, Undo(t)
  PROVE  CreditsInv'
<1> DEFINE x == [at |-> "forget", id |-> Last(undo).id]
<1>1. /\ undo # <<>> /\ undo' = Front(undo) /\ thread' = [thread EXCEPT ![t] = x]
      /\ override' = [d \in Devices |-> IF override[d].id = Last(undo).id
                                        THEN Last(undo).priors[d] ELSE override[d]]
      /\ UNCHANGED <<clock, lastId, counts, credited, clicks, early, forgotten>>
  BY DEF Undo, engineVars, learnVars
<1>2. /\ lastId \in Nat /\ clock \in Nat
      /\ override \in [Devices -> Overrides] /\ undo \in Seq(UndoRecords)
      /\ \A i \in 1 .. Len(undo) : undo[i].id \in 1 .. lastId
      /\ DOMAIN thread = Threads /\ \A u \in Threads : "at" \in DOMAIN thread[u]
  BY DEF CreditsInv, IdsIssued, ThreadsAt
<1>3. /\ Last(undo) \in UndoRecords /\ Last(undo).id \in 1 .. lastId
      /\ undo' \in Seq(UndoRecords) /\ Len(undo') \in Nat
      /\ \A i \in 1 .. Len(undo') : i \in 1 .. Len(undo) /\ undo'[i] = undo[i]
  <2>1. /\ Len(undo) \in Nat /\ Len(undo) >= 1 /\ Len(undo) \in 1 .. Len(undo)
        /\ \A i \in 1 .. Len(undo) : undo[i] \in UndoRecords
    BY <1>1, <1>2
  <2>2. Last(undo) = undo[Len(undo)]
    BY DEF Last
  <2>3. undo' = SubSeq(undo, 1, Len(undo) - 1)
    BY <1>1 DEF Front
  <2>4. /\ undo' \in Seq(UndoRecords) /\ Len(undo') = Len(undo) - 1
        /\ \A i \in 1 .. Len(undo) - 1 : undo'[i] = undo[i]
    <3>1. \A i \in 1 .. Len(undo) - 1 : i \in 1 .. Len(undo) /\ undo[i] \in UndoRecords
      BY <2>1
    <3>2. 1 \in Int /\ Len(undo) - 1 \in Nat /\ Len(undo) - 1 - 1 + 1 = Len(undo) - 1
          /\ (1 <= Len(undo) - 1 \/ Len(undo) - 1 = 0)
          /\ \A i \in 1 .. Len(undo) - 1 : 1 + i - 1 = i
      BY <2>1
    <3> QED
      BY <2>3, <3>1, <3>2, SubSeqProperties
  <2> QED
    BY <1>2, <2>1, <2>2, <2>4, SMTT(30)
<1>4. x.at = "forget" /\ x.id = Last(undo).id /\ "at" \in DOMAIN x
  OBVIOUS
<1> HIDE DEF x
<1>5. thread'[t] = x /\ DOMAIN thread' = Threads /\ \A u \in Threads \ {t} : thread'[u] = thread[u]
  BY <1>1, <1>2
<1>6. /\ \A u \in Threads : Learning(u)' => Learning(u) /\ thread'[u] = thread[u]
      /\ \A u \in Threads : thread'[u].at = "forget" =>
             \/ thread'[u].id = Last(undo).id
             \/ thread[u].at = "forget" /\ thread'[u] = thread[u]
  BY <1>4, <1>5 DEF Learning
<1>7. ThreadsAt'
  BY <1>2, <1>4, <1>5 DEF ThreadsAt
<1>8. override' \in [Devices -> Overrides]
  BY <1>1, <1>2, <1>3 DEF UndoRecords
<1>9. IdsIssued'
  BY <1>1, <1>2, <1>3, <1>6, <1>8 DEF CreditsInv, IdsIssued
<1>10. LearnedOnce' /\ ForgottenEarly' /\ CountsAdd'
  <2>1. LearnedOnce'
    BY <1>1, <1>6 DEF CreditsInv, LearnedOnce
  <2>2. ForgottenEarly'
    BY <1>1, <1>6 DEF CreditsInv, ForgottenEarly
  <2>3. CountsAdd'
    BY <1>1 DEF CreditsInv, CountsAdd
  <2> QED
    BY <2>1, <2>2, <2>3
<1> QED
  BY <1>7, <1>9, <1>10 DEF CreditsInv

\* A command that is forgotten is no longer credited; one that is still to be
\* learned from was forgotten early.
LEMMA ForgetKeeps ==
  ASSUME CreditsInv, NEW t \in Threads, Forget(t)
  PROVE  CreditsInv'
<1> DEFINE n == thread[t].id
           r == credited[n]
<1>1. /\ thread[t].at = "forget" /\ thread' = [thread EXCEPT ![t] = Waiting]
      /\ IF n \in DOMAIN credited
         THEN counts' = Decremented(r) /\ credited' = Restrict(credited, DOMAIN credited \ {n})
         ELSE counts' = counts /\ credited' = credited
      /\ forgotten' = forgotten \cup {n}
      /\ early' = IF \E u \in Threads : thread[u].at \in {"learn", "credit"} /\ thread[u].id = n
                  THEN early \cup {n} ELSE early
      /\ UNCHANGED <<clock, lastId, undo, override, clicks>>
  BY Zenon DEF Forget, worldVars, commandVars
<1>2. /\ n \in 1 .. lastId /\ n # 0 /\ lastId \in Nat
      /\ DOMAIN thread = Threads /\ \A u \in Threads : "at" \in DOMAIN thread[u]
  BY <1>1 DEF CreditsInv, IdsIssued, ThreadsAt
<1>3. "at" \in DOMAIN Waiting /\ Waiting.at = "wait"
  BY DEF Waiting
<1>4. /\ thread'[t].at = "wait" /\ ThreadsAt'
      /\ \A u \in Threads \ {t} : thread'[u] = thread[u]
  BY <1>1, <1>2, <1>3 DEF ThreadsAt
<1>5. /\ \A u \in Threads : Learning(u)' => Learning(u) /\ thread'[u] = thread[u]
      /\ \A u \in Threads : thread'[u].at = "forget" => thread[u].at = "forget" /\ thread'[u] = thread[u]
  BY <1>4 DEF Learning
<1>6. IsFiniteSet(DOMAIN credited)
  <2>1. lastId \in Nat /\ DOMAIN credited \in SUBSET (1 .. lastId)
    BY DEF CreditsInv, IdsIssued
  <2>2. IsFiniteSet(1 .. lastId)
    BY <2>1, FS_Interval
  <2> QED
    BY <2>1, <2>2, FS_Subset
<1> HIDE DEF r, n
<1>7. DOMAIN credited' = DOMAIN credited \ {n}
  <2>1. CASE n \in DOMAIN credited
    BY <1>1, <1>6, <2>1, CreditRemoved
  <2>2. CASE n \notin DOMAIN credited
    BY <1>1, <2>2
  <2> QED
    BY <2>1, <2>2
<1>8. IdsIssued'
  BY <1>1, <1>2, <1>5, <1>7 DEF CreditsInv, IdsIssued
<1>9. LearnedOnce'
  BY <1>1, <1>5, <1>7 DEF CreditsInv, LearnedOnce
<1>10. ForgottenEarly'
  <2>1. ForgottenEarly /\ early \subseteq early'
    BY <1>1 DEF CreditsInv
  <2>2. DOMAIN credited' \cap forgotten' \subseteq early'
    BY <1>1, <1>7, <2>1 DEF ForgottenEarly
  <2>3. ASSUME NEW u \in Threads, Learning(u)', thread'[u].id \in forgotten'
        PROVE  thread'[u].id \in early'
    <3>1. Learning(u) /\ thread'[u] = thread[u]
      BY <1>5, <2>3
    <3>2. CASE thread[u].id = n
      BY <1>1, <3>1, <3>2 DEF Learning
    <3>3. CASE thread[u].id # n
      BY <1>1, <2>1, <2>3, <3>1, <3>3 DEF ForgottenEarly
    <3> QED
      BY <3>2, <3>3
  <2> QED
    BY <2>2, <2>3 DEF ForgottenEarly
<1>11. CountsAdd'
  <2>1. /\ IsABag(counts) /\ IsABag(clicks)
        /\ \A q : Copies(q, counts) = Copies(q, clicks) + Cardinality(CreditedWith(credited, q))
    BY DEF CreditsInv, CountsAdd
  <2>2. CASE n \notin DOMAIN credited
    BY <1>1, <2>1, <2>2 DEF CountsAdd
  <2>3. CASE n \in DOMAIN credited
    <3>1. counts' = counts (-) SetToBag({r}) /\ credited' = Restrict(credited, DOMAIN credited \ {n})
      BY <1>1, <2>3 DEF Decremented
    <3>2. /\ \A q : Copies(q, counts) \in Nat /\ Copies(q, clicks) \in Nat
          /\ \A q : Cardinality(CreditedWith(credited, q)) \in Nat
      BY <1>6, <2>1, CopiesFacts, CreditType
    <3>3. /\ Cardinality(CreditedWith(credited, r)) > 0
          /\ \A q : Cardinality(CreditedWith(credited', q))
                       = Cardinality(CreditedWith(credited, q)) - (IF q = r THEN 1 ELSE 0)
      BY <1>6, <2>3, <3>1, CreditRemoved DEF r
    <3>4. Copies(r, counts) > 0
      <4>1. Copies(r, counts) = Copies(r, clicks) + Cardinality(CreditedWith(credited, r))
        BY <2>1
      <4> QED
        BY <3>2, <3>3, <4>1
    <3>5. /\ IsABag(counts')
          /\ \A q : Copies(q, counts') = Copies(q, counts) - (IF q = r THEN 1 ELSE 0)
      BY <2>1, <3>1, <3>4, CopiesFacts
    <3>6. ASSUME NEW q
          PROVE  Copies(q, counts') = Copies(q, clicks) + Cardinality(CreditedWith(credited', q))
      <4>1. /\ Copies(q, counts) = Copies(q, clicks) + Cardinality(CreditedWith(credited, q))
            /\ Copies(q, counts') = Copies(q, counts) - (IF q = r THEN 1 ELSE 0)
            /\ Cardinality(CreditedWith(credited', q))
                   = Cardinality(CreditedWith(credited, q)) - (IF q = r THEN 1 ELSE 0)
            /\ Copies(q, clicks) \in Nat /\ Cardinality(CreditedWith(credited, q)) \in Nat
        BY <2>1, <3>2, <3>3, <3>5
      <4> QED
        BY <4>1
    <3> QED
      BY <1>1, <2>1, <3>5, <3>6 DEF CountsAdd
  <2> QED
    BY <2>2, <2>3
<1> QED
  BY <1>4, <1>8, <1>9, <1>10, <1>11 DEF CreditsInv

\* What the telemetry consumer does learns nothing.
LEMMA TelemetryKeeps ==
  ASSUME CreditsInv, Telemetry \/ UNCHANGED vars
  PROVE  CreditsInv'
<1>1. UNCHANGED <<clock, lastId, undo, override, counts, credited, clicks, early, forgotten, thread>>
  <2>1. CASE Telemetry
    BY <2>1 DEF Telemetry, Raise, Unacknowledge, LogCleared, ReportDrift, ReportBattery, commandVars,
                engineVars, learnVars
  <2>2. CASE UNCHANGED vars
    BY <2>2 DEF vars, worldVars, commandVars, engineVars, learnVars
  <2> QED
    BY <2>1, <2>2
<1> QED
  BY <1>1 DEF CreditsInv, ThreadsAt, IdsIssued, LearnedOnce, ForgottenEarly, CountsAdd, Learning

\* Every step keeps it.
LEMMA CreditsStep == CreditsInv /\ [Next]_vars => CreditsInv'
<1> SUFFICES ASSUME CreditsInv, [Next]_vars PROVE CreditsInv'
  OBVIOUS
<1>1. CASE Telemetry \/ UNCHANGED vars
  BY <1>1, TelemetryKeeps
<1>2. ASSUME NEW t \in Threads, Input(t) \/ BeginRebuild(t) \/ Other(t) PROVE CreditsInv'
  <2>1. CASE Issue(t) \/ Undo(t) \/ Credit(t) \/ Forget(t)
    BY <2>1, IssueKeeps, UndoKeeps, CreditKeeps, ForgetKeeps
  <2>2. CASE \/ CloseBatch(t) \/ (\E d \in Devices : Detect(t, d)) \/ Dismiss(t) \/ BeginRebuild(t)
             \/ Click(t) \/ FindAlert(t) \/ EndDetect(t) \/ Read(t) \/ Publish(t)
    BY <2>2, CallKeeps
  <2> QED
    BY <1>2, <2>1, <2>2 DEF Input, Other
<1> QED
  BY <1>1, <1>2 DEF Next

\* Whatever is learned and forgotten at once, the count of a response is that of
\* its clicks and of the commands credited with it, and a command that was taken
\* back is credited only where the undo overtook the learning.  Code:
\* InsightEngine's Increment, LearnFromCommand, LearnFromClick and ForgetCommand.
THEOREM CountsAreTrue == Spec => []CountsAreCredits
<1>1. CreditsInv => CountsAreCredits
  BY DEF CreditsInv, CountsAdd, ForgottenEarly, CountsAreCredits, CreditedWith
<1> QED
  BY <1>1, CreditsStart, CreditsStep, PTL DEF Spec
-----------------------------------------------------------------------------
(* Folds.  Max, FoldSet, FoldLeft and MapThenSumSet are recursive functions  *)
(* over the finite subsets of a set.  A smallest subset that has not got what*)
(* the steps keep cannot exist, so all of them have it; and with that a      *)
(* function with the fold's equation exists, which CHOOSE then picks.        *)

\* A set of finite subsets has a smallest one.
LEMMA SmallestSubset ==
  ASSUME NEW S, IsFiniteSet(S), NEW Bad \in SUBSET (SUBSET S), Bad # {}
  PROVE  \E s \in Bad : \A r \in SUBSET s : r # s => r \notin Bad
<1> DEFINE R == StrictSubsetOrdering(S)
<1>1. IsWellFoundedOn(R, SUBSET S)
  BY FS_StrictSubsetOrderingWellFounded, FS_FiniteSubsetsOfFinite
<1>2. \A T, U \in SUBSET S : T \subseteq U /\ T # U => <<T, U>> \in R
  BY DEF StrictSubsetOrdering
<1> HIDE DEF R
<1>3. PICK s \in Bad : \A r \in Bad : ~ (<<r, s>> \in R)
  BY <1>1, WFMin
<1> QED
  BY <1>2, <1>3

\* A fold: it takes each element, in the order in which pick does, to what was
\* folded before.
IsFold(it, S, base, pick, step) ==
    \A s \in SUBSET S :
        it[s] = IF s = {} THEN base ELSE step[<<pick[s], it[s \ {pick[s]}]>>]

Keeps(step, S, Good) ==
    \A s \in SUBSET S, x \in S : \A y :
       x \notin s /\ <<s, y>> \in Good => <<s \cup {x}, step[<<x, y>>]>> \in Good

Picks(pick, S) == \A s \in SUBSET S : s # {} => pick[s] \in s

\* What is kept by each step of a fold holds of all of it.
LEMMA FoldInduction ==
  ASSUME NEW S, IsFiniteSet(S), NEW pick, Picks(pick, S), NEW it, NEW Good,
         <<{}, it[{}]>> \in Good,
         \A s \in SUBSET S : s # {} /\ <<s \ {pick[s]}, it[s \ {pick[s]}]>> \in Good
                                => <<s, it[s]>> \in Good
  PROVE  \A s \in SUBSET S : <<s, it[s]>> \in Good
<1> DEFINE Bad == {s \in SUBSET S : <<s, it[s]>> \notin Good}
<1>1. SUFFICES ASSUME Bad # {} PROVE FALSE
  BY <1>1
<1>2. PICK s \in Bad : \A r \in SUBSET s : r # s => r \notin Bad
  <2>1. Bad \in SUBSET (SUBSET S)
    OBVIOUS
  <2> HIDE DEF Bad
  <2> QED
    BY <1>1, <2>1, SmallestSubset
<1>3. s \in SUBSET S /\ <<s, it[s]>> \notin Good
  OBVIOUS
<1>4. s # {}
  BY <1>3
<1>5. PICK x : x = pick[s]
  OBVIOUS
<1>6. x \in s
  BY <1>3, <1>4, <1>5 DEF Picks
<1> DEFINE r == s \ {x}
<1>7. r \in SUBSET S /\ r # s /\ r \in SUBSET s
  BY <1>3, <1>6
<1>8. <<r, it[r]>> \in Good
  BY <1>2, <1>7
<1> QED
  BY <1>3, <1>4, <1>5, <1>8

\* Of finitely many things that are compared one is not below another.
LEMMA FirstOf ==
  ASSUME NEW S, IsFiniteSet(S), S # {}, NEW rel,
         \A x, y \in S : <<x, y>> \in rel \/ <<y, x>> \in rel,
         \A x, y, z \in S : <<x, y>> \in rel /\ <<y, z>> \in rel => <<x, z>> \in rel
  PROVE  \E x \in S : \A y \in S : <<x, y>> \in rel
<1> DEFINE Above(x) == {y \in S : <<x, y>> \notin rel}
           Aboves == {Above(x) : x \in S}
<1>1. PICK s \in Aboves : \A r \in SUBSET s : r # s => r \notin Aboves
  <2>1. \A x \in S : Above(x) \in SUBSET S
    OBVIOUS
  <2>2. Aboves \in SUBSET (SUBSET S) /\ Aboves # {}
    <3> HIDE DEF Above
    <3> QED
      BY <2>1
  <2> HIDE DEF Aboves
  <2> QED
    BY <2>2, SmallestSubset
<1>2. PICK x \in S : s = Above(x)
  BY <1>1
<1>3. ASSUME NEW y \in S, <<x, y>> \notin rel PROVE FALSE
  <2>1. y \in Above(x) /\ y \notin Above(y)
    BY <1>3
  <2>2. Above(y) \subseteq Above(x)
    BY <1>3
  <2>3. Above(y) \in Aboves
    OBVIOUS
  <2> HIDE DEF Above, Aboves
  <2> QED
    BY <1>1, <1>2, <2>1, <2>2, <2>3
<1> QED
  BY <1>3

\* The greatest of finitely many numbers.
LEMMA MaxFacts ==
  ASSUME NEW S \in SUBSET Int, IsFiniteSet(S), S # {}
  PROVE  Max(S) \in S /\ \A x \in S : Max(S) >= x
<1> DEFINE rel == {p \in S \X S : p[1] >= p[2]}
<1>1. \A x, y \in S : <<x, y>> \in rel <=> x >= y
  OBVIOUS
<1>2. \A x, y \in S : x >= y \/ y >= x
  OBVIOUS
<1>3. \A x, y, z \in S : x >= y /\ y >= z => x >= z
  OBVIOUS
<1> HIDE DEF rel
<1>4. \E x \in S : \A y \in S : <<x, y>> \in rel
  BY <1>1, <1>2, <1>3, FirstOf
<1>5. \E x \in S : \A y \in S : x >= y
  BY <1>1, <1>4
<1> QED
  BY <1>5 DEF Max

\* A set of numbers has a least one.
LEMMA LeastNumber ==
  ASSUME NEW S \in SUBSET Nat, S # {}
  PROVE  \E x \in S : \A y \in S : x <= y
<1> DEFINE R == OpToRel(<, Nat)
<1>1. \A x, y \in Nat : x < y => <<x, y>> \in R
  BY Zenon DEF OpToRel
<1>2. IsWellFoundedOn(R, Nat)
  BY NatLessThanWellFounded, Zenon
<1> HIDE DEF R
<1>3. PICK x \in S : \A y \in S : ~ (<<y, x>> \in R)
  BY <1>2, WFMin
<1>4. \A y \in S : ~ (y < x)
  BY <1>1, <1>3
<1> QED
  BY <1>4

\* There is a fold of a finite set, where something is kept.
LEMMA FoldExists ==
  ASSUME NEW S, IsFiniteSet(S), NEW base, NEW pick, Picks(pick, S), NEW step,
         NEW Good, <<{}, base>> \in Good, Keeps(step, S, Good)
  PROVE  \E it : IsFold(it, S, base, pick, step) /\ it = [s \in SUBSET S |-> it[s]]
<1> DEFINE Small(n) == {u \in SUBSET S : Cardinality(u) <= n}
           Next1(f, s) == IF s = {} THEN base ELSE step[<<pick[s], f[s \ {pick[s]}]>>]
           R == {p[2] : p \in Good}
           Folds(n) == {f \in [Small(n) -> R] :
                           \A s \in Small(n) : f[s] = Next1(f, s) /\ <<s, f[s]>> \in Good}
           Bad == {n \in Nat : Folds(n) = {}}
<1>1. \A s \in SUBSET S : /\ IsFiniteSet(s) /\ Cardinality(s) \in Nat /\ Cardinality(s) <= Cardinality(S)
                          /\ Cardinality(s) = 0 => s = {}
                          /\ s # {} => /\ pick[s] \in S /\ s \ {pick[s]} \in SUBSET S
                                       /\ Cardinality(s \ {pick[s]}) = Cardinality(s) - 1
  <2>1. ASSUME NEW s \in SUBSET S
        PROVE  IsFiniteSet(s) /\ Cardinality(s) \in Nat /\ Cardinality(s) <= Cardinality(S)
    BY FS_Subset, FS_CardinalityType
  <2>2. ASSUME NEW s \in SUBSET S, s # {}
        PROVE  /\ pick[s] \in S /\ s \ {pick[s]} \in SUBSET S
               /\ Cardinality(s \ {pick[s]}) = Cardinality(s) - 1
    <3>1. pick[s] \in s
      BY <2>2 DEF Picks
    <3> QED
      BY <2>1, <3>1, FS_RemoveElement
  <2> QED
    BY <2>1, <2>2, FS_EmptySet
<1> HIDE DEF R
<1>r. \A s, y : <<s, y>> \in Good => y \in R
  BY DEF R
<1>2. Folds(0) # {}
  <2> DEFINE f == [s \in Small(0) |-> base]
  <2>1. ASSUME NEW s \in Small(0) PROVE s = {}
    <3>1. s \in SUBSET S /\ Cardinality(s) <= 0
      OBVIOUS
    <3>2. IsFiniteSet(s) /\ Cardinality(s) \in Nat
      BY <1>1, <3>1, Zenon
    <3>3. Cardinality(s) = 0
      BY <3>1, <3>2
    <3> QED
      BY <3>2, <3>3, FS_EmptySet
  <2>2. f \in [Small(0) -> R]
    BY <1>r
  <2>3. \A s \in Small(0) : f[s] = Next1(f, s) /\ <<s, f[s]>> \in Good
    BY <2>1
  <2> HIDE DEF Small, Next1, f
  <2> QED
    BY <2>2, <2>3
<1>3. ASSUME NEW n \in Nat, Folds(n) # {} PROVE Folds(n + 1) # {}
  <2>1. PICK f \in [Small(n) -> R] :
               \A s \in Small(n) : f[s] = Next1(f, s) /\ <<s, f[s]>> \in Good
    BY <1>3
  <2> DEFINE g == [s \in Small(n + 1) |-> Next1(f, s)]
  <2>2. ASSUME NEW s \in Small(n + 1), s # {}
        PROVE  pick[s] \in S /\ pick[s] \in s /\ s \ {pick[s]} \in Small(n)
    <3>1. s \in SUBSET S /\ Cardinality(s) <= n + 1
      OBVIOUS
    <3>2. /\ pick[s] \in S /\ s \ {pick[s]} \in SUBSET S /\ Cardinality(s) \in Nat
          /\ Cardinality(s \ {pick[s]}) = Cardinality(s) - 1
      BY <1>1, <2>2, <3>1, Zenon
    <3>3. Cardinality(s) - 1 <= n
      BY <3>1, <3>2
    <3>4. pick[s] \in s
      BY <2>2, <3>1, Zenon DEF Picks
    <3> QED
      BY <3>2, <3>3, <3>4
  <2>3. ASSUME NEW s \in Small(n + 1)
        PROVE  <<s, Next1(f, s)>> \in Good
    <3>1. CASE s = {}
      BY <3>1
    <3>2. CASE s # {}
      <4> DEFINE r == s \ {pick[s]}
      <4>1. /\ pick[s] \in S /\ pick[s] \notin r /\ r \in SUBSET S /\ r \cup {pick[s]} = s
            /\ r \in Small(n)
        BY <2>2, <3>2
      <4>2. <<r, f[r]>> \in Good
        <5> HIDE DEF r, Small, Next1
        <5> QED
          BY <2>1, <4>1
      <4>3. Next1(f, s) = step[<<pick[s], f[r]>>]
        BY <3>2
      <4> HIDE DEF r, Small, Next1
      <4>4. <<r \cup {pick[s]}, step[<<pick[s], f[r]>>]>> \in Good
        BY <4>1, <4>2 DEF Keeps
      <4> QED
        BY <4>1, <4>3, <4>4
    <3> QED
      BY <3>1, <3>2
  <2>4. \A s \in Small(n) : s \in Small(n + 1) /\ g[s] = f[s]
    <3>1. ASSUME NEW s \in Small(n) PROVE s \in Small(n + 1)
      <4>1. s \in SUBSET S /\ Cardinality(s) <= n
        OBVIOUS
      <4>2. Cardinality(s) \in Nat
        BY <1>1, <4>1, Zenon
      <4> QED
        BY <4>1, <4>2
    <3>2. g = [s \in Small(n + 1) |-> Next1(f, s)]
      OBVIOUS
    <3>3. \A s \in Small(n) : f[s] = Next1(f, s)
      BY <2>1
    <3>4. \A s \in Small(n + 1) : g[s] = Next1(f, s)
      BY <3>2
    <3> HIDE DEF Small, Next1, g
    <3> QED
      BY <3>1, <3>3, <3>4
  <2>5. \A s \in Small(n + 1) : g[s] = Next1(g, s)
    <3> HIDE DEF Small
    <3>1. \A s \in Small(n + 1) : Next1(g, s) = Next1(f, s)
      <4> TAKE s \in Small(n + 1)
      <4>1. CASE s = {}
        BY <4>1
      <4>2. CASE s # {}
        <5>1. g[s \ {pick[s]}] = f[s \ {pick[s]}]
          BY <2>2, <2>4, <4>2
        <5> HIDE DEF g
        <5> QED
          BY <4>2, <5>1
      <4> QED
        BY <4>1, <4>2
    <3> QED
      BY <3>1
  <2>6. g \in [Small(n + 1) -> R] /\ \A s \in Small(n + 1) : <<s, g[s]>> \in Good
    <3> HIDE DEF Small, Next1
    <3> QED
      BY <1>r, <2>3
  <2> HIDE DEF Small, Next1, g
  <2> QED
    BY <2>5, <2>6
<1>4. Bad = {}
  <2> SUFFICES ASSUME Bad # {} PROVE FALSE
    OBVIOUS
  <2> HIDE DEF Folds
  <2>1. PICK n \in Bad : \A m \in Bad : n <= m
    <3>1. Bad \in SUBSET Nat
      OBVIOUS
    <3> HIDE DEF Bad
    <3> QED
      BY <3>1, LeastNumber
  <2>2. n \in Nat /\ n # 0 /\ n - 1 \in Nat /\ n = (n - 1) + 1
    BY <1>2
  <2>3. n - 1 \notin Bad
    BY <2>1, <2>2
  <2> QED
    BY <1>3, <2>2, <2>3
<1>5. Cardinality(S) \in Nat /\ Small(Cardinality(S)) = SUBSET S
  BY <1>1, FS_CardinalityType
<1>6. PICK f \in [SUBSET S -> R] : \A s \in SUBSET S : f[s] = Next1(f, s) /\ <<s, f[s]>> \in Good
  <2>1. Folds(Cardinality(S)) # {}
    <3> HIDE DEF Folds
    <3> QED
      BY <1>4, <1>5
  <2> HIDE DEF Small, Next1
  <2> QED
    BY <1>5, <2>1
<1> QED
  BY <1>6 DEF IsFold

\* it is the fold, and what it is of each set but the last step is Good.
KeptFold(it, S, base, pick, step, Good) ==
    /\ it = [s \in SUBSET S |-> it[s]] /\ it[{}] = base
    /\ \A s \in SUBSET S : s # {} =>
          /\ pick[s] \in S
          /\ <<s \ {pick[s]}, it[s \ {pick[s]}]>> \in Good
          /\ it[s] = step[<<pick[s], it[s \ {pick[s]}]>>]

\* Where the steps keep something, there is a fold that keeps it.
LEMMA FoldKeeps ==
  ASSUME NEW S, IsFiniteSet(S), NEW base, NEW pick, Picks(pick, S), NEW step,
         NEW Good, <<{}, base>> \in Good, Keeps(step, S, Good)
  PROVE  \E it : KeptFold(it, S, base, pick, step, Good)
<1>1. PICK it : IsFold(it, S, base, pick, step) /\ it = [s \in SUBSET S |-> it[s]]
  BY FoldExists
<1>2. it[{}] = base
  BY <1>1 DEF IsFold
<1>3. ASSUME NEW s \in SUBSET S, s # {}
      PROVE  /\ it[s] = step[<<pick[s], it[s \ {pick[s]}]>>]
             /\ pick[s] \in s /\ pick[s] \in S /\ s \ {pick[s]} \in SUBSET S
  <2>1. pick[s] \in s
    BY <1>3 DEF Picks
  <2> QED
    BY <1>1, <1>3, <2>1 DEF IsFold
<1>4. \A s \in SUBSET S : <<s, it[s]>> \in Good
  <2>1. ASSUME NEW s \in SUBSET S, s # {}, <<s \ {pick[s]}, it[s \ {pick[s]}]>> \in Good
        PROVE  <<s, it[s]>> \in Good
    <3>1. PICK x \in S : x = pick[s]
      BY <1>3, <2>1
    <3>2. PICK r \in SUBSET S : r = s \ {x}
      BY <1>3, <2>1, <3>1
    <3>3. r \cup {x} = s /\ x \notin r
      BY <1>3, <2>1, <3>1, <3>2
    <3>4. <<r, it[r]>> \in Good /\ it[s] = step[<<x, it[r]>>]
      BY <1>3, <2>1, <3>1, <3>2
    <3>5. <<r \cup {x}, step[<<x, it[r]>>]>> \in Good
      BY <3>3, <3>4 DEF Keeps
    <3> QED
      BY <3>3, <3>4, <3>5
  <2> QED
    BY <1>2, <2>1, FoldInduction
<1>5. ASSUME NEW s \in SUBSET S, s # {}
      PROVE  <<s \ {pick[s]}, it[s \ {pick[s]}]>> \in Good
  <2>1. PICK r \in SUBSET S : r = s \ {pick[s]}
    BY <1>3, <1>5
  <2> QED
    BY <1>4, <2>1
<1> QED
  BY <1>1, <1>2, <1>3, <1>5 DEF KeptFold

\* One rule.
AddAll(v, found, rule) == FoldSet(LAMBDA s, f : AddTo(v, f, s), found, rule)

AddKeeps(v, S, Good) ==
    \A s \in SUBSET S, x \in S : \A y :
       x \notin s /\ <<s, y>> \in Good => <<s \cup {x}, AddTo(v, y, x)>> \in Good

\* What AddTo keeps holds of all suggestions that were added.
LEMMA AddFold ==
  ASSUME NEW v, NEW S, IsFiniteSet(S), NEW base, NEW Good, <<{}, base>> \in Good,
         AddKeeps(v, S, Good)
  PROVE  <<S, AddAll(v, base, S)>> \in Good
<1> DEFINE Body(h) == [s \in SUBSET S |-> IF s = {} THEN base
                         ELSE AddTo(v, h[s \ {CHOOSE x \in s : TRUE}], CHOOSE x \in s : TRUE)]
           g == CHOOSE h : h = Body(h)
           pick == [s \in SUBSET S |-> CHOOSE x \in s : TRUE]
           R == {p[2] : p \in Good}
           step == [p \in S \X R |-> AddTo(v, p[2], p[1])]
<1>1. AddAll(v, base, S) = g[S]
  BY Zenon DEF AddAll, FoldSet, MapThenFoldSet
<1>2. Picks(pick, S)
  BY DEF Picks
<1>3. \A s \in SUBSET S : pick[s] = CHOOSE x \in s : TRUE
  OBVIOUS
<1>4. \A s, y : <<s, y>> \in Good => y \in R
  OBVIOUS
<1>5. \A x \in S, y \in R : step[<<x, y>>] = AddTo(v, y, x)
  OBVIOUS
<1>6. \E h : h = Body(h)
  <2> HIDE DEF pick, R, step
  <2>1. Keeps(step, S, Good)
    BY <1>4, <1>5 DEF Keeps, AddKeeps
  <2>2. PICK h : /\ h = [s \in SUBSET S |-> h[s]] /\ h[{}] = base
                 /\ \A s \in SUBSET S : s # {} =>
                       /\ pick[s] \in S
                       /\ <<s \ {pick[s]}, h[s \ {pick[s]}]>> \in Good
                       /\ h[s] = step[<<pick[s], h[s \ {pick[s]}]>>]
    <3>1. \E h : KeptFold(h, S, base, pick, step, Good)
      BY <1>2, <2>1, FoldKeeps
    <3> QED
      BY <3>1 DEF KeptFold
  <2>3. \A s \in SUBSET S : h[s] = IF s = {} THEN base ELSE AddTo(v, h[s \ {pick[s]}], pick[s])
    BY <1>4, <1>5, <2>2
  <2>4. h = Body(h)
    BY <1>3, <2>2, <2>3
  <2> QED
    BY <2>4
<1>7. PICK h : h = g /\ h = Body(h)
  <2> HIDE DEF Body
  <2> QED
    BY <1>6
<1>8. \A s \in SUBSET S : h[s] = IF s = {} THEN base ELSE AddTo(v, h[s \ {pick[s]}], pick[s])
  <2>1. h = Body(h)
    BY <1>7, Zenon
  <2> HIDE DEF g
  <2>2. \A s \in SUBSET S : h[s] = IF s = {} THEN base
                         ELSE AddTo(v, h[s \ {CHOOSE x \in s : TRUE}], CHOOSE x \in s : TRUE)
    BY <2>1
  <2> QED
    BY <1>3, <2>2
<1> HIDE DEF pick, g
<1>9. ASSUME NEW s \in SUBSET S, s # {}, <<s \ {pick[s]}, h[s \ {pick[s]}]>> \in Good
      PROVE  <<s, h[s]>> \in Good
  <2>1. /\ pick[s] \in S /\ s \ {pick[s]} \in SUBSET S
        /\ (s \ {pick[s]}) \cup {pick[s]} = s /\ pick[s] \notin s \ {pick[s]}
    BY <1>2, <1>9 DEF Picks
  <2> QED
    BY <1>8, <1>9, <2>1 DEF AddKeeps
<1>10. <<{}, h[{}]>> \in Good
  BY <1>8
<1>11. \A s \in SUBSET S : <<s, h[s]>> \in Good
  BY <1>2, <1>9, <1>10, FoldInduction
<1>12. <<S, h[S]>> \in Good
  BY <1>11
<1> QED
  BY <1>1, <1>7, <1>12, Zenon

AddAllKeeps(v, Good) ==
    \A s \in SUBSET (1 .. 6), i \in 1 .. 6 : \A y :
       i \notin s /\ <<s, y>> \in Good => <<s \cup {i}, AddAll(v, y, Rules(v)[i])>> \in Good

\* What is kept rule by rule holds of a rebuild.
LEMMA RebuildFold ==
  ASSUME NEW v, NEW Good, <<{}, {}>> \in Good, AddAllKeeps(v, Good)
  PROVE  <<1 .. 6, RebuildCore(v)>> \in Good
<1> DEFINE S == 1 .. 6
           Body(h) == [s \in SUBSET S |-> IF s = {} THEN {}
                         ELSE AddAll(v, h[s \ {Max(s)}], Rules(v)[Max(s)])]
           g == CHOOSE h : h = Body(h)
           pick == [s \in SUBSET S |-> Max(s)]
           R == {p[2] : p \in Good}
           step == [p \in S \X R |-> AddAll(v, p[2], Rules(v)[p[1]])]
<1>1. RebuildCore(v) = g[S]
  <2>1. DOMAIN Rules(v) = S
    BY DEF Rules
  <2>2. RebuildCore(v) = (CHOOSE h : h = [s \in SUBSET (DOMAIN Rules(v)) |-> IF s = {} THEN {}
                         ELSE AddAll(v, h[s \ {Max(s)}], Rules(v)[Max(s)])])[DOMAIN Rules(v)]
    BY Zenon DEF RebuildCore, AddAll, FoldLeft, MapThenFoldSet
  <2> QED
    BY <2>1, <2>2, Zenon
<1>0. IsFiniteSet(S)
  <2>1. 1 \in Int /\ 6 \in Int
    OBVIOUS
  <2> QED
    BY <2>1, FS_Interval, Zenon
<1>2. Picks(pick, S)
  <2>1. ASSUME NEW s \in SUBSET S, s # {} PROVE pick[s] \in s
    <3>1. IsFiniteSet(s) /\ s \in SUBSET Int
      <4>1. s \in SUBSET Int
        OBVIOUS
      <4>2. IsFiniteSet(s)
        <5> HIDE DEF S
        <5> QED
          BY <1>0, FS_Subset
      <4> QED
        BY <4>1, <4>2
    <3>2. Max(s) \in s
      BY <2>1, <3>1, MaxFacts
    <3> QED
      BY <3>2
  <2> QED
    BY <2>1 DEF Picks
<1>3. \A s \in SUBSET S : pick[s] = Max(s)
  OBVIOUS
<1>4. \A s, y : <<s, y>> \in Good => y \in R
  OBVIOUS
<1>5. \A x \in S, y \in R : step[<<x, y>>] = AddAll(v, y, Rules(v)[x])
  OBVIOUS
<1> HIDE DEF S
<1>6. \E h : h = Body(h)
  <2> HIDE DEF pick, R, step
  <2>1. Keeps(step, S, Good)
    BY <1>4, <1>5 DEF Keeps, AddAllKeeps, S
  <2>2. PICK h : /\ h = [s \in SUBSET S |-> h[s]] /\ h[{}] = {}
                 /\ \A s \in SUBSET S : s # {} =>
                       /\ pick[s] \in S
                       /\ <<s \ {pick[s]}, h[s \ {pick[s]}]>> \in Good
                       /\ h[s] = step[<<pick[s], h[s \ {pick[s]}]>>]
    <3>1. \E h : KeptFold(h, S, {}, pick, step, Good)
      BY <1>0, <1>2, <2>1, FoldKeeps
    <3> QED
      BY <3>1 DEF KeptFold
  <2>3. \A s \in SUBSET S : h[s] = IF s = {} THEN {}
                                   ELSE AddAll(v, h[s \ {pick[s]}], Rules(v)[pick[s]])
    BY <1>4, <1>5, <2>2
  <2>4. \A s \in SUBSET S : h[s] = IF s = {} THEN {}
                                   ELSE AddAll(v, h[s \ {Max(s)}], Rules(v)[Max(s)])
    BY <1>3, <2>3
  <2>5. h = Body(h)
    BY <2>2, <2>4
  <2> QED
    BY <2>5
<1>7. PICK h : h = g /\ h = Body(h)
  <2> HIDE DEF Body
  <2> QED
    BY <1>6
<1>8. \A s \in SUBSET S : h[s] = IF s = {} THEN {}
                                 ELSE AddAll(v, h[s \ {pick[s]}], Rules(v)[pick[s]])
  <2>1. h = Body(h)
    BY <1>7, Zenon
  <2> HIDE DEF g
  <2>2. \A s \in SUBSET S : h[s] = IF s = {} THEN {}
                         ELSE AddAll(v, h[s \ {Max(s)}], Rules(v)[Max(s)])
    BY <2>1
  <2> QED
    BY <1>3, <2>2
<1> HIDE DEF pick, g
<1>9. ASSUME NEW s \in SUBSET S, s # {}, <<s \ {pick[s]}, h[s \ {pick[s]}]>> \in Good
      PROVE  <<s, h[s]>> \in Good
  <2>1. /\ pick[s] \in S /\ s \ {pick[s]} \in SUBSET S
        /\ (s \ {pick[s]}) \cup {pick[s]} = s /\ pick[s] \notin s \ {pick[s]}
    BY <1>2, <1>9 DEF Picks
  <2> QED
    BY <1>8, <1>9, <2>1 DEF AddAllKeeps, S
<1>10. <<{}, h[{}]>> \in Good
  BY <1>8
<1>11. \A s \in SUBSET S : <<s, h[s]>> \in Good
  BY <1>0, <1>2, <1>9, <1>10, FoldInduction
<1>12. <<S, h[S]>> \in Good
  BY <1>11
<1> QED
  BY <1>1, <1>7, <1>12, Zenon DEF S

\* A sum is at least each of what is summed.
LEMMA SumBounds ==
  ASSUME NEW S, IsFiniteSet(S), NEW c, \A x \in S : c[x] \in Nat
  PROVE  \E sum \in Nat : /\ sum = MapThenSumSet(LAMBDA q : c[q], S)
                          /\ \A x \in S : c[x] <= sum
<1> DEFINE Body(h) == [s \in SUBSET S |-> IF s = {} THEN 0
                         ELSE c[CHOOSE x \in s : TRUE] + h[s \ {CHOOSE x \in s : TRUE}]]
           g == CHOOSE h : h = Body(h)
           pick == [s \in SUBSET S |-> CHOOSE x \in s : TRUE]
           step == [p \in S \X Nat |-> c[p[1]] + p[2]]
           Good == {p \in (SUBSET S) \X Nat : \A x \in p[1] : c[x] <= p[2]}
<1>1. MapThenSumSet(LAMBDA q : c[q], S) = g[S]
  BY Zenon DEF MapThenSumSet, MapThenFoldSet
<1>2. Picks(pick, S)
  BY DEF Picks
<1>3. \A s \in SUBSET S : pick[s] = CHOOSE x \in s : TRUE
  OBVIOUS
<1>4. \A s, y : <<s, y>> \in Good <=> s \in SUBSET S /\ y \in Nat /\ \A x \in s : c[x] <= y
  OBVIOUS
<1>5. \A x \in S, y \in Nat : step[<<x, y>>] = c[x] + y
  OBVIOUS
<1> HIDE DEF Good, step, pick
<1>6. <<{}, 0>> \in Good
  BY <1>4
<1>7. ASSUME NEW s \in SUBSET S, NEW x \in S, NEW y, <<s, y>> \in Good
      PROVE  <<s \cup {x}, c[x] + y>> \in Good
  <2>1. y \in Nat /\ \A z \in s : c[z] <= y
    BY <1>4, <1>7
  <2>2. c[x] + y \in Nat /\ \A z \in s \cup {x} : c[z] <= c[x] + y
    BY <2>1
  <2>3. s \cup {x} \in SUBSET S
    OBVIOUS
  <2> QED
    BY <1>4, <2>2, <2>3
<1>8. \E h : h = Body(h)
  <2>1. Keeps(step, S, Good)
    BY <1>4, <1>5, <1>7 DEF Keeps
  <2>2. PICK h : /\ h = [s \in SUBSET S |-> h[s]] /\ h[{}] = 0
                 /\ \A s \in SUBSET S : s # {} =>
                       /\ pick[s] \in S
                       /\ <<s \ {pick[s]}, h[s \ {pick[s]}]>> \in Good
                       /\ h[s] = step[<<pick[s], h[s \ {pick[s]}]>>]
    <3>1. \E h : KeptFold(h, S, 0, pick, step, Good)
      BY <1>2, <1>6, <2>1, FoldKeeps
    <3> QED
      BY <3>1 DEF KeptFold
  <2>3. \A s \in SUBSET S : h[s] = IF s = {} THEN 0 ELSE c[pick[s]] + h[s \ {pick[s]}]
    BY <1>4, <1>5, <2>2
  <2>4. \A s \in SUBSET S : h[s] = IF s = {} THEN 0
                    ELSE c[CHOOSE x \in s : TRUE] + h[s \ {CHOOSE x \in s : TRUE}]
    BY <1>3, <2>3
  <2>5. h = Body(h)
    BY <2>2, <2>4
  <2> QED
    BY <2>5
<1>9. PICK h : h = g /\ h = Body(h)
  <2> HIDE DEF Body
  <2> QED
    BY <1>8
<1>10. \A s \in SUBSET S : h[s] = IF s = {} THEN 0 ELSE c[pick[s]] + h[s \ {pick[s]}]
  <2>1. h = Body(h)
    BY <1>9, Zenon
  <2> HIDE DEF g
  <2>2. \A s \in SUBSET S : h[s] = IF s = {} THEN 0
                    ELSE c[CHOOSE x \in s : TRUE] + h[s \ {CHOOSE x \in s : TRUE}]
    BY <2>1
  <2> QED
    BY <1>3, <2>2
<1> HIDE DEF g
<1>11. ASSUME NEW s \in SUBSET S, s # {}, <<s \ {pick[s]}, h[s \ {pick[s]}]>> \in Good
       PROVE  <<s, h[s]>> \in Good
  <2>1. /\ pick[s] \in S /\ s \ {pick[s]} \in SUBSET S
        /\ (s \ {pick[s]}) \cup {pick[s]} = s
    BY <1>2, <1>11 DEF Picks
  <2>2. <<(s \ {pick[s]}) \cup {pick[s]}, c[pick[s]] + h[s \ {pick[s]}]>> \in Good
    BY <1>7, <1>11, <2>1
  <2> QED
    BY <1>10, <1>11, <2>1, <2>2
<1>12. <<{}, h[{}]>> \in Good
  BY <1>6, <1>10
<1>13. \A s \in SUBSET S : <<s, h[s]>> \in Good
  BY <1>2, <1>11, <1>12, FoldInduction
<1>14. h[S] \in Nat /\ \A x \in S : c[x] <= h[S]
  BY <1>4, <1>13
<1>15. h[S] = MapThenSumSet(LAMBDA q : c[q], S)
  BY <1>1, <1>9, Zenon
<1> QED
  BY <1>14, <1>15, Zenon

-----------------------------------------------------------------------------
(* What the rules suggest has its type.                                      *)

\* A share in percent.
LEMMA DivBound ==
  ASSUME NEW a \in Nat, NEW s \in Nat, a <= s, s > 0
  PROVE  (100 * a) \div s \in 0 .. 100
<1> DEFINE q == (100 * a) \div s
<1>1. 100 * a \in Nat /\ 100 * a <= 100 * s
  OBVIOUS
<1>2. q \in Int /\ s * q <= 100 * a /\ 100 * a < s * (q + 1)
  BY <1>1, SMTT(60)
<1>3. q >= 0
  BY <1>1, <1>2
<1>4. q <= 100
  BY <1>1, <1>2
<1> QED
  BY <1>2, <1>3, <1>4

\* A finite set has finitely many images.
LEMMA ImageFinite ==
  ASSUME NEW S, IsFiniteSet(S), NEW f
  PROVE  IsFiniteSet({f[x] : x \in S})
<1> DEFINE T == {f[x] : x \in S}
           g == [x \in S |-> f[x]]
<1>1. g \in Surjection(S, T)
  BY DEF Surjection
<1> HIDE DEF g, T
<1>2. IsFiniteSet(T)
  BY <1>1, FS_Surjection
<1> QED
  BY <1>2 DEF T

\* What a rebuild has read, as far as the rules depend on it.
AlertRecords == {NoAlert} \cup [batch : Nat, severity : Nat]

CountsTyped(c) == IsABag(c) /\ DOMAIN c \subseteq Responses /\ IsFiniteSet(DOMAIN c)

ViewTyped(v) ==
    /\ v.now \in Nat
    /\ v.alerts \in [Sensors -> AlertRecords]
    /\ v.offlineSince \in [Devices -> Nat]
    /\ v.devices.battery \in [Devices -> 0 .. 100]
    /\ CountsTyped(v.learned.counts)

\* A suggestion of any rule.
LEMMA SuggestionTyped ==
  ASSUME NEW action \in CommandTypes \cup {"Acknowledge", "Inspect"}, NEW target \in Targets,
         NEW kind \in {"Learned", "Rule"}, NEW cause \in Causes, NEW device \in Devices,
         NEW tier \in 0 .. 4, NEW severity \in Int, NEW confidence \in 0 .. 100,
         NEW version \in Versions, NEW source \in RuleNames
  PROVE  Suggestion(action, target, kind, cause, device, Rank(tier, severity, confidence),
                    version, source) \in Suggestions
<1>1. Rank(tier, severity, confidence) \in (-4 .. 0) \X Int \X (0 .. 100)
  BY DEF Rank
<1>2. <<action, target>> \in Ids
  BY DEF Ids
<1>3. {source} \in (SUBSET RuleNames) \ {{}}
  OBVIOUS
<1> HIDE DEF Ids
<1> QED
  BY <1>1, <1>2, <1>3 DEF Suggestion, Suggestions

\* Alerts are those of finitely many sensors.
LEMMA ViewFacts ==
  ASSUME NEW v, ViewTyped(v)
  PROVE  /\ IsFiniteSet(Sensors) /\ Sensors \subseteq Devices
         /\ Alerting(v) \subseteq Sensors /\ Visible(v) \subseteq Alerting(v)
         /\ \A d \in Alerting(v) : /\ v.alerts[d].batch \in Nat /\ v.alerts[d].severity \in Nat
                                   /\ AlertVersion(v, d) \in Versions
<1>1. IsFiniteSet(Sensors) /\ Sensors \subseteq Devices
  BY InsightsAssumption, FS_Subset DEF Sensors
<1>2. Alerting(v) \subseteq Sensors /\ Visible(v) \subseteq Alerting(v)
  BY DEF Alerting, Visible
<1>3. \A d \in Alerting(v) : v.alerts[d] \in [batch : Nat, severity : Nat]
  BY DEF Alerting, ViewTyped, AlertRecords
<1> QED
  BY <1>1, <1>2, <1>3 DEF AlertVersion, Versions

\* Every rule makes finitely many suggestions.
LEMMA LearnedTyped ==
  ASSUME NEW v, ViewTyped(v)
  PROVE  Learned(v) \subseteq Suggestions /\ IsFiniteSet(Learned(v))
<1>1. ASSUME NEW d \in Visible(v)
      PROVE  LearnedFor(v, d) \subseteq Suggestions /\ IsFiniteSet(LearnedFor(v, d))
  <2> DEFINE Fit == {q \in Row(v, d) \X Targets :
                        /\ v.learned.counts[q[1]] >= MinSupport
                        /\ q[2] \in ResponseTargets(d, q[1].scope)
                        /\ ~AlreadyDone(v, q[1].action, d, q[2])}
             f == [p \in Fit |-> Suggestion(p[1].action, p[2], "Learned", "Breach", d,
                Rank(0, v.alerts[d].severity, Confidence(v, d, p[1])), AlertVersion(v, d), "Learned")]
  <2>1. LearnedFor(v, d) = {f[p] : p \in Fit}
    BY DEF LearnedFor
  <2>2. Row(v, d) \subseteq DOMAIN v.learned.counts /\ IsFiniteSet(Row(v, d))
    BY FS_Subset DEF ViewTyped, CountsTyped, Row
  <2>3. IsFiniteSet(Targets)
    BY InsightsAssumption, FS_AddElement DEF Targets
  <2>4. IsFiniteSet(Fit)
    <3>1. IsFiniteSet(Row(v, d) \X Targets)
      BY <2>2, <2>3, FS_Product
    <3>2. Fit \in SUBSET (Row(v, d) \X Targets)
      OBVIOUS
    <3> HIDE DEF Fit
    <3> QED
      BY <3>1, <3>2, FS_Subset
  <2>5. \A r \in Row(v, d) : /\ v.learned.counts[r] \in Nat /\ v.learned.counts[r] > 0
                             /\ r.action \in CommandTypes \cup {"Acknowledge", "Inspect"}
    BY <2>2 DEF ViewTyped, CountsTyped, IsABag, Responses
  <2>6. \A r \in Row(v, d) : Confidence(v, d, r) \in 0 .. 100
    <3> TAKE r \in Row(v, d)
    <3> DEFINE c == v.learned.counts
    <3>2. PICK sum \in Nat : /\ sum = MapThenSumSet(LAMBDA q : c[q], Row(v, d))
                             /\ \A x \in Row(v, d) : c[x] <= sum
      <4>1. \A x \in Row(v, d) : c[x] \in Nat
        BY <2>5
      <4> QED
        BY <2>2, <4>1, SumBounds, Zenon
    <3>3. Confidence(v, d, r) = (100 * c[r]) \div sum
      BY <3>2, Zenon DEF Confidence
    <3>4. c[r] \in Nat /\ c[r] > 0 /\ c[r] <= sum
      <4>1. \A x \in Row(v, d) : c[x] <= sum
        BY <3>2, Zenon
      <4> QED
        BY <2>5, <4>1
    <3>5. sum \in Nat /\ sum > 0
      <4>1. sum \in Nat
        BY <3>2, Zenon
      <4> QED
        BY <3>4, <4>1
    <3>6. (100 * c[r]) \div sum \in 0 .. 100
      BY <3>4, <3>5, DivBound
    <3> QED
      BY <3>3, <3>6, Zenon
  <2>7. ASSUME NEW p \in Fit PROVE f[p] \in Suggestions
    <3>1. /\ p[1] \in Row(v, d) /\ p[2] \in Targets
      OBVIOUS
    <3>2. /\ p[1].action \in CommandTypes \cup {"Acknowledge", "Inspect"}
          /\ Confidence(v, d, p[1]) \in 0 .. 100
      BY <2>5, <2>6, <3>1
    <3>3. /\ d \in Devices /\ v.alerts[d].severity \in Int /\ AlertVersion(v, d) \in Versions
      BY ViewFacts
    <3>4. Suggestion(p[1].action, p[2], "Learned", "Breach", d,
                Rank(0, v.alerts[d].severity, Confidence(v, d, p[1])), AlertVersion(v, d), "Learned")
             \in Suggestions
      <4>1. /\ "Learned" \in {"Learned", "Rule"} /\ "Breach" \in Causes /\ "Learned" \in RuleNames
            /\ 0 \in 0 .. 4
        BY DEF Causes, RuleNames
      <4> HIDE DEF Fit, f
      <4> QED
        BY <3>1, <3>2, <3>3, <4>1, SuggestionTyped, Zenon
    <3> HIDE DEF Fit
    <3> QED
      BY <3>4
  <2> HIDE DEF Fit, f
  <2> QED
    BY <2>1, <2>4, <2>7, ImageFinite
<1> DEFINE g == [d \in Visible(v) |-> LearnedFor(v, d)]
<1>2. IsFiniteSet(Visible(v))
  BY ViewFacts, FS_Subset
<1>3. IsFiniteSet({g[d] : d \in Visible(v)})
  BY <1>2, ImageFinite
<1>4. Learned(v) = UNION {g[d] : d \in Visible(v)}
  BY DEF Learned
<1>5. \A T \in {g[d] : d \in Visible(v)} : IsFiniteSet(T) /\ T \subseteq Suggestions
  BY <1>1
<1> HIDE DEF g
<1> QED
  BY <1>3, <1>4, <1>5, FS_UNION

\* The worst of the neglected alerts exists, and the latest of their batches.
LEMMA NeglectedTyped ==
  ASSUME NEW v, ViewTyped(v)
  PROVE  Neglected(v) \subseteq Suggestions /\ IsFiniteSet(Neglected(v))
<1> DEFINE old == {d \in Visible(v) \ v.acknowledged :
                      v.now - v.alerts[d].batch >= NeglectedBatches}
           worst == CHOOSE d \in old : \A e \in old : v.alerts[d].severity >= v.alerts[e].severity
           batches == {v.alerts[d].batch : d \in old}
           sev == [d \in old |-> v.alerts[d].severity]
           rel == {p \in old \X old : sev[p[1]] >= sev[p[2]]}
           s == Suggestion("Acknowledge", Subzone, "Rule", "Breach", worst,
                         Rank(0, v.alerts[worst].severity, 90), Number(Max(batches)), "Neglected")
<1>1. Neglected(v) = IF old = {} THEN {} ELSE {s}
  BY Zenon DEF Neglected
<1>2. CASE old = {}
  <2>1. Neglected(v) = {}
    BY <1>1, <1>2, Zenon
  <2> QED
    BY <2>1, FS_EmptySet
<1>3. CASE old # {}
  <2>1. old \subseteq Visible(v) /\ IsFiniteSet(old)
    <3>1. old \subseteq Visible(v)
      OBVIOUS
    <3>2. IsFiniteSet(Visible(v))
      BY ViewFacts, FS_Subset
    <3> HIDE DEF old
    <3> QED
      BY <3>1, <3>2, FS_Subset
  <2>2. \A d \in old : /\ d \in Devices /\ v.alerts[d].batch \in Nat
                       /\ v.alerts[d].severity \in Nat
    BY <2>1, ViewFacts
  <2> HIDE DEF old
  <2>3. worst \in old
    <3>1. \A d \in old : sev[d] \in Nat /\ sev[d] = v.alerts[d].severity
      BY <2>2
    <3> HIDE DEF sev
    <3>2. \A x, y \in old : <<x, y>> \in rel <=> sev[x] >= sev[y]
      OBVIOUS
    <3> HIDE DEF rel
    <3>3. \A x, y \in old : <<x, y>> \in rel \/ <<y, x>> \in rel
      <4>1. \A x, y \in old : sev[x] >= sev[y] \/ sev[y] >= sev[x]
        BY <3>1
      <4> QED
        BY <3>2, <4>1
    <3>4. ASSUME NEW x \in old, NEW y \in old, NEW z \in old, <<x, y>> \in rel, <<y, z>> \in rel
          PROVE  <<x, z>> \in rel
      <4>1. sev[x] \in Nat /\ sev[y] \in Nat /\ sev[z] \in Nat
        BY <3>1
      <4>2. sev[x] >= sev[y] /\ sev[y] >= sev[z]
        BY <3>2, <3>4
      <4> QED
        BY <3>2, <4>1, <4>2
    <3>5. PICK x \in old : \A y \in old : <<x, y>> \in rel
      BY <1>3, <2>1, <3>3, <3>4, FirstOf
    <3>6. \A y \in old : v.alerts[x].severity >= v.alerts[y].severity
      BY <3>1, <3>2, <3>5
    <3> QED
      BY <3>6, Zenon
  <2> HIDE DEF worst
  <2>4. Max(batches) \in Nat
    <3> DEFINE b == [d \in old |-> v.alerts[d].batch]
    <3>1. batches = {b[d] : d \in old}
      OBVIOUS
    <3>2. IsFiniteSet(batches)
      <4> HIDE DEF b, batches
      <4> QED
        BY <2>1, <3>1, ImageFinite
    <3>3. batches \in SUBSET Nat /\ batches # {}
      BY <1>3, <2>2
    <3> HIDE DEF batches
    <3>4. batches \in SUBSET Int
      BY <3>3
    <3>5. Max(batches) \in batches
      BY <3>2, <3>3, <3>4, MaxFacts
    <3> QED
      BY <3>3, <3>5
  <2> HIDE DEF batches
  <2>5. Number(Max(batches)) \in Versions
    BY <2>4 DEF Number, Versions
  <2>6. /\ "Acknowledge" \in CommandTypes \cup {"Acknowledge", "Inspect"} /\ Subzone \in Targets
        /\ "Rule" \in {"Learned", "Rule"} /\ "Breach" \in Causes /\ "Neglected" \in RuleNames
        /\ 0 \in 0 .. 4 /\ 90 \in 0 .. 100
        /\ v.alerts[worst].severity \in Int /\ worst \in Devices
    BY <2>2, <2>3 DEF Causes, RuleNames, Targets
  <2>7. s \in Suggestions
    BY <2>5, <2>6, SuggestionTyped, Zenon
  <2>8. Neglected(v) = {s}
    BY <1>1, <1>3, Zenon
  <2> HIDE DEF s
  <2> QED
    BY <2>7, <2>8, FS_Singleton
<1> QED
  BY <1>2, <1>3

\* Versions that are just numbers.
LEMMA NumberTyped == \A n \in Nat : Number(n) \in Versions
BY DEF Number, Versions

\* Drifting sensors are registered.
LEMMA DriftTyped ==
  ASSUME NEW v, ViewTyped(v), drifting \subseteq Sensors
  PROVE  Drift(v) \subseteq Suggestions /\ IsFiniteSet(Drift(v))
<1> DEFINE S == {s \in drifting \ (Alerting(v) \cup v.muted) : v.offlineSince[s] = 0}
           f == [d \in S |-> Suggestion("Inspect", d, "Rule", "Drift", d, Rank(1, 0, 80),
                                        <<Category[d], 0>>, "Drift")]
<1>1. Drift(v) = {f[d] : d \in S}
  BY DEF Drift
<1>2. S \subseteq Sensors
  OBVIOUS
<1> HIDE DEF S
<1>3. IsFiniteSet(S)
  BY <1>2, ViewFacts, FS_Subset
<1>4. ASSUME NEW d \in S PROVE f[d] \in Suggestions
  <2>1. d \in Devices /\ d \in Targets /\ Category[d] \in Metrics
    BY <1>2, ViewFacts DEF Metrics, Targets
  <2>2. <<Category[d], 0>> \in Versions
    BY <2>1 DEF Versions
  <2>3. /\ "Inspect" \in CommandTypes \cup {"Acknowledge", "Inspect"}
        /\ "Rule" \in {"Learned", "Rule"} /\ "Drift" \in Causes /\ "Drift" \in RuleNames
        /\ 1 \in 0 .. 4 /\ 0 \in Int /\ 80 \in 0 .. 100
    BY DEF Causes, RuleNames
  <2>4. Suggestion("Inspect", d, "Rule", "Drift", d, Rank(1, 0, 80),
                                        <<Category[d], 0>>, "Drift") \in Suggestions
    BY <2>1, <2>2, <2>3, SuggestionTyped, Zenon
  <2> QED
    BY <2>4
<1> HIDE DEF f
<1> QED
  BY <1>1, <1>3, <1>4, ImageFinite

\* Neighbours of a device with an alert.
LEMMA CoLocatedTyped ==
  ASSUME NEW v, ViewTyped(v)
  PROVE  CoLocated(v) \subseteq Suggestions /\ IsFiniteSet(CoLocated(v))
<1> DEFINE Of(d) == {Suggestion("Inspect", n, "Rule", "Breach", d,
                        Rank(2, v.alerts[d].severity, 70), AlertVersion(v, d), "CoLocated") :
                        n \in Neighbours(d) \ Alerting(v)}
<1>1. ASSUME NEW d \in Visible(v) PROVE Of(d) \subseteq Suggestions /\ IsFiniteSet(Of(d))
  <2> DEFINE S == Neighbours(d) \ Alerting(v)
             f == [n \in S |-> Suggestion("Inspect", n, "Rule", "Breach", d,
                        Rank(2, v.alerts[d].severity, 70), AlertVersion(v, d), "CoLocated")]
  <2>1. Of(d) = {f[n] : n \in S}
    OBVIOUS
  <2>2. S \subseteq Devices
    BY DEF Neighbours
  <2> HIDE DEF S
  <2>3. IsFiniteSet(S)
    BY <2>2, InsightsAssumption, FS_Subset
  <2>4. ASSUME NEW n \in S PROVE f[n] \in Suggestions
    <3>1. n \in Targets
      BY <2>2 DEF Targets
    <3>2. d \in Devices /\ v.alerts[d].severity \in Int /\ AlertVersion(v, d) \in Versions
      BY ViewFacts
    <3>3. /\ "Inspect" \in CommandTypes \cup {"Acknowledge", "Inspect"}
          /\ "Rule" \in {"Learned", "Rule"} /\ "Breach" \in Causes /\ "CoLocated" \in RuleNames
          /\ 2 \in 0 .. 4 /\ 70 \in 0 .. 100
      BY DEF Causes, RuleNames
    <3>4. Suggestion("Inspect", n, "Rule", "Breach", d, Rank(2, v.alerts[d].severity, 70),
                     AlertVersion(v, d), "CoLocated") \in Suggestions
      BY <3>1, <3>2, <3>3, SuggestionTyped, Zenon
    <3> QED
      BY <3>4
  <2> HIDE DEF f, Of
  <2> QED
    BY <2>1, <2>3, <2>4, ImageFinite
<1> DEFINE g == [d \in Visible(v) |-> Of(d)]
<1>2. IsFiniteSet(Visible(v))
  BY ViewFacts, FS_Subset
<1>3. IsFiniteSet({g[d] : d \in Visible(v)})
  <2> HIDE DEF g
  <2> QED
    BY <1>2, ImageFinite
<1>4. CoLocated(v) = UNION {g[d] : d \in Visible(v)}
  BY DEF CoLocated
<1>5. \A T \in {g[d] : d \in Visible(v)} : IsFiniteSet(T) /\ T \subseteq Suggestions
  <2> HIDE DEF Of
  <2> QED
    BY <1>1
<1> HIDE DEF g
<1> QED
  BY <1>3, <1>4, <1>5, FS_UNION

\* Devices that are offline for long.
LEMMA LongOfflineTyped ==
  ASSUME NEW v, ViewTyped(v)
  PROVE  LongOffline(v) \subseteq Suggestions /\ IsFiniteSet(LongOffline(v))
<1> DEFINE S == {e \in Devices \ v.muted :
                  v.offlineSince[e] # 0 /\ v.now - v.offlineSince[e] >= LongOfflineBatches}
           f == [d \in S |-> Suggestion("Inspect", d, "Rule", "Offline", d,
                        Rank(3, v.now - v.offlineSince[d], 60), Number(v.offlineSince[d]), "Offline")]
<1>1. LongOffline(v) = {f[d] : d \in S}
  BY DEF LongOffline
<1>2. S \subseteq Devices
  OBVIOUS
<1> HIDE DEF S
<1>3. IsFiniteSet(S)
  BY <1>2, InsightsAssumption, FS_Subset
<1>4. ASSUME NEW d \in S PROVE f[d] \in Suggestions
  <2>1. d \in Devices /\ d \in Targets
    BY <1>2 DEF Targets
  <2>a. v.now \in Nat /\ v.offlineSince[d] \in Nat
    BY <2>1 DEF ViewTyped
  <2>2. v.now - v.offlineSince[d] \in Int /\ Number(v.offlineSince[d]) \in Versions
    <3>1. v.now - v.offlineSince[d] \in Int
      BY <2>a
    <3>2. Number(v.offlineSince[d]) \in Versions
      BY <2>a, NumberTyped
    <3> QED
      BY <3>1, <3>2
  <2>3. /\ "Inspect" \in CommandTypes \cup {"Acknowledge", "Inspect"}
        /\ "Rule" \in {"Learned", "Rule"} /\ "Offline" \in Causes /\ "Offline" \in RuleNames
        /\ 3 \in 0 .. 4 /\ 60 \in 0 .. 100
    BY DEF Causes, RuleNames
  <2>4. Suggestion("Inspect", d, "Rule", "Offline", d, Rank(3, v.now - v.offlineSince[d], 60),
                   Number(v.offlineSince[d]), "Offline") \in Suggestions
    BY <2>1, <2>2, <2>3, SuggestionTyped, Zenon
  <2> QED
    BY <2>4
<1> HIDE DEF f
<1> QED
  BY <1>1, <1>3, <1>4, ImageFinite

\* Batteries in steps of 5 percent.
LEMMA LowBatteryTyped ==
  ASSUME NEW v, ViewTyped(v)
  PROVE  LowBattery(v) \subseteq Suggestions /\ IsFiniteSet(LowBattery(v))
<1> DEFINE S == {e \in Devices \ v.muted : v.devices.battery[e] <= LowBatteryPct}
           f == [d \in S |-> Suggestion("Inspect", d, "Rule", "Battery", d,
                        Rank(4, LowBatteryPct - v.devices.battery[d], 50),
                        Number(v.devices.battery[d] \div 5), "Battery")]
<1>1. LowBattery(v) = {f[d] : d \in S}
  BY DEF LowBattery
<1>2. S \subseteq Devices
  OBVIOUS
<1> HIDE DEF S
<1>3. IsFiniteSet(S)
  BY <1>2, InsightsAssumption, FS_Subset
<1>4. ASSUME NEW d \in S PROVE f[d] \in Suggestions
  <2>1. d \in Devices /\ d \in Targets
    BY <1>2 DEF Targets
  <2>a. LowBatteryPct \in Nat /\ v.devices.battery[d] \in 0 .. 100
    BY <2>1, InsightsAssumption DEF ViewTyped
  <2>b. v.devices.battery[d] \div 5 \in Nat
    <3>1. \A n \in 0 .. 100 : n \div 5 \in Nat
      OBVIOUS
    <3> QED
      BY <2>a, <3>1
  <2>2. /\ LowBatteryPct - v.devices.battery[d] \in Int
        /\ Number(v.devices.battery[d] \div 5) \in Versions
    <3>1. LowBatteryPct - v.devices.battery[d] \in Int
      BY <2>a
    <3>2. Number(v.devices.battery[d] \div 5) \in Versions
      BY <2>b, NumberTyped
    <3> QED
      BY <3>1, <3>2
  <2>3. /\ "Inspect" \in CommandTypes \cup {"Acknowledge", "Inspect"}
        /\ "Rule" \in {"Learned", "Rule"} /\ "Battery" \in Causes /\ "Battery" \in RuleNames
        /\ 4 \in 0 .. 4 /\ 50 \in 0 .. 100
    BY DEF Causes, RuleNames
  <2>4. Suggestion("Inspect", d, "Rule", "Battery", d, Rank(4, LowBatteryPct - v.devices.battery[d], 50),
                   Number(v.devices.battery[d] \div 5), "Battery") \in Suggestions
    BY <2>1, <2>2, <2>3, SuggestionTyped, Zenon
  <2> QED
    BY <2>4
<1> HIDE DEF f
<1> QED
  BY <1>1, <1>3, <1>4, ImageFinite

\* All six rules.
LEMMA RulesTyped ==
  ASSUME NEW v, ViewTyped(v), drifting \subseteq Sensors
  PROVE  \A i \in 1 .. 6 : Rules(v)[i] \subseteq Suggestions /\ IsFiniteSet(Rules(v)[i])
<1>1. ASSUME NEW i \in 1 .. 6
      PROVE  Rules(v)[i] \in {Learned(v), Neglected(v), Drift(v), CoLocated(v), LongOffline(v), LowBattery(v)}
  BY DEF Rules
<1> QED
  BY <1>1, LearnedTyped, NeglectedTyped, DriftTyped, CoLocatedTyped, LongOfflineTyped, LowBatteryTyped

-----------------------------------------------------------------------------
(* A rebuild.                                                                *)

Ranks == (-4 .. 0) \X Int \X (0 .. 100)

\* Ranks are compared like numbers.
LEMMA RankOrder ==
  /\ \A p \in Ranks : AtLeast(p, p)
  /\ \A p, q \in Ranks : AtLeast(p, q) \/ AtLeast(q, p)
  /\ \A p, q, r \in Ranks : AtLeast(p, q) /\ AtLeast(q, r) => AtLeast(p, r)
<1>1. \A p \in Ranks : p[1] \in Int /\ p[2] \in Int /\ p[3] \in Int
  BY DEF Ranks
<1> HIDE DEF Ranks
<1>2. \A p \in Ranks : AtLeast(p, p)
  BY <1>1 DEF AtLeast
<1>3. \A p, q \in Ranks : AtLeast(p, q) \/ AtLeast(q, p)
  BY <1>1 DEF AtLeast
<1>4. \A p, q, r \in Ranks : AtLeast(p, q) /\ AtLeast(q, r) => AtLeast(p, r)
  <2> SUFFICES ASSUME NEW p \in Ranks, NEW q \in Ranks, NEW r \in Ranks,
                      AtLeast(p, q), AtLeast(q, r)
               PROVE  AtLeast(p, r)
    OBVIOUS
  <2>1. /\ p[1] \in Int /\ p[2] \in Int /\ p[3] \in Int
        /\ q[1] \in Int /\ q[2] \in Int /\ q[3] \in Int
        /\ r[1] \in Int /\ r[2] \in Int /\ r[3] \in Int
    BY <1>1
  <2> QED
    BY <2>1 DEF AtLeast
<1> QED
  BY <1>2, <1>3, <1>4

\* Those of the offers seen that were not dismissed, and those of one id.
StandingOf(v, seen) == {o \in seen : <<o.id, o.version>> \notin v.learned.dismissed}
WithId(offers, id) == {o \in offers : o.id = id}

\* found has a suggestion for each id of the offers seen, which speaks for them.
Built(v, found, seen) ==
    /\ found \subseteq Suggestions /\ IsFiniteSet(found) /\ seen \subseteq Suggestions
    /\ \A a, b \in found : a.id = b.id => a = b
    /\ \A o \in StandingOf(v, seen) : \E c \in found : c.id = o.id
    /\ \A c \in found : SpeaksFor(c, WithId(StandingOf(v, seen), c.id))

\* The merged suggestion speaks for the offers of both.
LEMMA MergeSpeaks ==
  ASSUME NEW c \in Suggestions, NEW s \in Suggestions, c.id = s.id,
         NEW offers \in SUBSET Suggestions, SpeaksFor(c, offers)
  PROVE  /\ Merge(c, s) \in Suggestions /\ Merge(c, s).id = s.id
         /\ SpeaksFor(Merge(c, s), offers \cup {s})
<1> DEFINE m == Merge(c, s)
           b == IF AtLeast(c.rank, s.rank) THEN c ELSE s
           all == offers \cup {s}
<1>1. \A x \in Suggestions : x.rank \in Ranks /\ x.kind \in {"Learned", "Rule"}
                             /\ x.sources \in (SUBSET RuleNames) \ {{}}
  BY DEF Suggestions, Ranks
<1>2. b \in Suggestions /\ b.id = s.id
  OBVIOUS
<1>3. /\ m = [b EXCEPT !.kind = IF "Learned" \in {c.kind, s.kind} THEN "Learned" ELSE "Rule",
                       !.sources = c.sources \cup s.sources]
      /\ c.sources \cup s.sources \in (SUBSET RuleNames) \ {{}}
  BY <1>1 DEF Merge
<1> HIDE DEF b
<1>4. /\ m \in Suggestions /\ m.id = b.id
      /\ m.rank = b.rank /\ m.version = b.version /\ m.cause = b.cause /\ m.device = b.device
      /\ m.sources = c.sources \cup s.sources
      /\ m.kind = IF "Learned" \in {c.kind, s.kind} THEN "Learned" ELSE "Rule"
  <2> HIDE DEF m
  <2> QED
    BY <1>2, <1>3 DEF Suggestions
<1>5. PICK o \in offers :
         /\ \A p \in offers : AtLeast(o.rank, p.rank)
         /\ c.rank = o.rank /\ c.version = o.version /\ c.cause = o.cause /\ c.device = o.device
  BY DEF SpeaksFor
<1>6. \E best \in all :
         /\ \A p \in all : AtLeast(best.rank, p.rank)
         /\ m.rank = best.rank /\ m.version = best.version /\ m.cause = best.cause
         /\ m.device = best.device
  <2>1. CASE AtLeast(c.rank, s.rank)
    <3>1. b = c
      BY <2>1 DEF b
    <3>2. \A p \in all : AtLeast(o.rank, p.rank)
      BY <1>5, <2>1
    <3> QED
      BY <1>4, <1>5, <3>1, <3>2
  <2>2. CASE ~AtLeast(c.rank, s.rank)
    <3>1. b = s
      BY <2>2 DEF b
    <3>2. AtLeast(s.rank, o.rank)
      BY <1>1, <1>5, <2>2, RankOrder
    <3>3. ASSUME NEW p \in offers PROVE AtLeast(s.rank, p.rank)
      <4>1. s.rank \in Ranks /\ o.rank \in Ranks /\ p.rank \in Ranks /\ AtLeast(o.rank, p.rank)
        BY <1>1, <1>5
      <4> QED
        BY <3>2, <4>1, RankOrder
    <3>4. AtLeast(s.rank, s.rank)
      BY <1>1, RankOrder
    <3>5. \A p \in all : AtLeast(s.rank, p.rank)
      BY <3>3, <3>4
    <3>6. s \in all
      OBVIOUS
    <3> HIDE DEF all, m
    <3> QED
      BY <1>4, <3>1, <3>5, <3>6
  <2> QED
    BY <2>1, <2>2
<1>7. m.sources = UNION {p.sources : p \in all}
  <2>1. c.sources = UNION {p.sources : p \in offers}
    BY DEF SpeaksFor
  <2>2. UNION {p.sources : p \in all} = (UNION {p.sources : p \in offers}) \cup s.sources
    OBVIOUS
  <2> HIDE DEF m, all
  <2> QED
    BY <1>4, <2>1, <2>2
<1>8. m.kind = IF \E p \in all : p.kind = "Learned" THEN "Learned" ELSE "Rule"
  <2>1. c.kind = IF \E p \in offers : p.kind = "Learned" THEN "Learned" ELSE "Rule"
    BY DEF SpeaksFor
  <2>2. (\E p \in all : p.kind = "Learned") <=> (\E p \in offers : p.kind = "Learned") \/ s.kind = "Learned"
    OBVIOUS
  <2> HIDE DEF m, all
  <2> QED
    BY <1>4, <2>1, <2>2
<1> HIDE DEF m, all
<1>9. SpeaksFor(m, all)
  BY <1>6, <1>7, <1>8 DEF SpeaksFor
<1> QED
  BY <1>2, <1>4, <1>9 DEF m, all

\* The first suggestion with its id.
LEMMA SpeaksForItself ==
  ASSUME NEW s \in Suggestions
  PROVE  SpeaksFor(s, {s})
<1>1. s.rank \in Ranks /\ s.kind \in {"Learned", "Rule"}
  BY DEF Suggestions, Ranks
<1>2. AtLeast(s.rank, s.rank)
  BY <1>1, RankOrder
<1>3. UNION {o.sources : o \in {s}} = s.sources
  OBVIOUS
<1> QED
  BY <1>1, <1>2, <1>3 DEF SpeaksFor

\* AddTo, one suggestion.
LEMMA AddBuilds ==
  ASSUME NEW v, NEW found, NEW seen, Built(v, found, seen), NEW s \in Suggestions
  PROVE  Built(v, AddTo(v, found, s), seen \cup {s})
<1> DEFINE next == AddTo(v, found, s)
           more == seen \cup {s}
           same == {c \in found : c.id = s.id}
           old == StandingOf(v, seen)
           new == StandingOf(v, more)
<1>1. /\ found \subseteq Suggestions /\ IsFiniteSet(found) /\ more \subseteq Suggestions
      /\ \A a, b \in found : a.id = b.id => a = b
      /\ \A o \in old : \E c \in found : c.id = o.id
      /\ \A c \in found : SpeaksFor(c, WithId(old, c.id))
      /\ old \subseteq Suggestions
  BY DEF Built, StandingOf
<1>2. CASE <<s.id, s.version>> \in v.learned.dismissed
  <2>1. next = found
    BY <1>2 DEF AddTo
  <2>2. new = old
    BY <1>2 DEF StandingOf
  <2> HIDE DEF next, more, new, old
  <2> QED
    BY <1>1, <2>1, <2>2 DEF Built, next, more, new, old
<1>3. CASE <<s.id, s.version>> \notin v.learned.dismissed
  <2>1. next = (found \ same) \cup {IF same = {} THEN s ELSE Merge(CHOOSE c \in same : TRUE, s)}
    BY <1>3, Zenon DEF AddTo
  <2>2. new = old \cup {s}
    BY <1>3 DEF StandingOf
  <2>3. \A id : WithId(new, id) = IF id = s.id THEN WithId(old, id) \cup {s} ELSE WithId(old, id)
    <3> HIDE DEF new, old
    <3> QED
      BY <2>2 DEF WithId
  <2> HIDE DEF new, old, more, next
  <2>4. CASE same = {}
    <3>1. next = found \cup {s}
      BY <2>1, <2>4
    <3>2. WithId(old, s.id) = {}
      BY <1>1, <2>4 DEF WithId
    <3>3. SpeaksFor(s, WithId(new, s.id))
      <4>1. WithId(new, s.id) = {s}
        BY <2>3, <3>2
      <4> QED
        BY <4>1, SpeaksForItself
    <3>4. \A c \in next : SpeaksFor(c, WithId(new, c.id))
      BY <1>1, <2>3, <2>4, <3>1, <3>3
    <3>5. IsFiniteSet(next)
      BY <1>1, <3>1, FS_AddElement
    <3>6. /\ next \subseteq Suggestions /\ \A a, b \in next : a.id = b.id => a = b
          /\ \A o \in new : \E c \in next : c.id = o.id
      BY <1>1, <2>2, <2>4, <3>1
    <3> QED
      BY <1>1, <3>4, <3>5, <3>6 DEF Built, new, next, more
  <2>5. CASE same # {}
    <3>1. PICK c \in found : c.id = s.id /\ same = {c}
      BY <1>1, <2>5
    <3> DEFINE m == Merge(c, s)
    <3>2. next = (found \ {c}) \cup {m}
      <4>1. (CHOOSE x \in same : TRUE) = c
        BY <3>1
      <4> HIDE DEF same
      <4> QED
        BY <2>1, <2>5, <3>1, <4>1
    <3>3. /\ m \in Suggestions /\ m.id = s.id
          /\ SpeaksFor(m, WithId(old, c.id) \cup {s})
      <4>1. WithId(old, c.id) \in SUBSET Suggestions /\ SpeaksFor(c, WithId(old, c.id)) /\ c \in Suggestions
        BY <1>1, <3>1 DEF WithId
      <4> QED
        BY <3>1, <4>1, MergeSpeaks, Zenon
    <3> HIDE DEF m, same
    <3>4. \A x \in next : SpeaksFor(x, WithId(new, x.id))
      <4>1. ASSUME NEW x \in found, x # c PROVE SpeaksFor(x, WithId(new, x.id))
        BY <1>1, <2>3, <3>1, <4>1
      <4>2. SpeaksFor(m, WithId(new, m.id))
        BY <2>3, <3>1, <3>3
      <4> QED
        BY <3>2, <4>1, <4>2
    <3>5. IsFiniteSet(next)
      <4>1. IsFiniteSet(found \ {c})
        BY <1>1, FS_Subset
      <4> QED
        BY <3>2, <4>1, FS_AddElement
    <3>6. next \subseteq Suggestions
      BY <1>1, <3>2, <3>3
    <3>7. \A a, b \in next : a.id = b.id => a = b
      BY <1>1, <3>1, <3>2, <3>3
    <3>8. \A o \in new : \E x \in next : x.id = o.id
      BY <1>1, <2>2, <3>1, <3>2, <3>3
    <3> QED
      BY <1>1, <3>4, <3>5, <3>6, <3>7, <3>8 DEF Built, new, next, more
  <2> QED
    BY <2>4, <2>5
<1> QED
  BY <1>2, <1>3

\* One rule.
LEMMA RuleBuilds ==
  ASSUME NEW v, NEW found, NEW seen, Built(v, found, seen),
         NEW rule \in SUBSET Suggestions, IsFiniteSet(rule)
  PROVE  Built(v, AddAll(v, found, rule), seen \cup rule)
<1> DEFINE Good == {p \in (SUBSET rule) \X (SUBSET Suggestions) : Built(v, p[2], seen \cup p[1])}
<1>1. \A s, y : <<s, y>> \in Good <=> s \in SUBSET rule /\ Built(v, y, seen \cup s)
  <2>1. \A s, y : <<s, y>> \in Good <=> s \in SUBSET rule /\ y \in SUBSET Suggestions /\ Built(v, y, seen \cup s)
    OBVIOUS
  <2>2. \A s, y : Built(v, y, seen \cup s) => y \in SUBSET Suggestions
    BY DEF Built
  <2> HIDE DEF Good
  <2> QED
    BY <2>1, <2>2
<1> HIDE DEF Good
<1>2. <<{}, found>> \in Good
  <2>1. seen \cup {} = seen
    OBVIOUS
  <2> QED
    BY <1>1, <2>1
<1>3. AddKeeps(v, rule, Good)
  <2>1. ASSUME NEW s \in SUBSET rule, NEW x \in rule, NEW y, <<s, y>> \in Good
        PROVE  <<s \cup {x}, AddTo(v, y, x)>> \in Good
    <3>1. Built(v, y, seen \cup s) /\ x \in Suggestions
      BY <1>1, <2>1
    <3>2. Built(v, AddTo(v, y, x), (seen \cup s) \cup {x})
      BY <3>1, AddBuilds
    <3>3. (seen \cup s) \cup {x} = seen \cup (s \cup {x}) /\ s \cup {x} \in SUBSET rule
      OBVIOUS
    <3> QED
      BY <1>1, <3>2, <3>3
  <2> QED
    BY <2>1 DEF AddKeeps
<1>4. <<rule, AddAll(v, found, rule)>> \in Good
  <2>1. IsFiniteSet(rule)
    OBVIOUS
  <2> QED
    BY <1>2, <1>3, <2>1, AddFold
<1> QED
  BY <1>1, <1>4

\* The offers of the rules.
Offers(v) == UNION {Rules(v)[i] : i \in 1 .. 6}

\* All rules: a rebuild has a suggestion for each id on offer, and speaks for all.
LEMMA RebuildBuilds ==
  ASSUME NEW v, ViewTyped(v), drifting \subseteq Sensors
  PROVE  Built(v, RebuildCore(v), Offers(v))
<1> DEFINE Of(s) == UNION {Rules(v)[i] : i \in s}
           Good == {p \in (SUBSET (1 .. 6)) \X (SUBSET Suggestions) : Built(v, p[2], Of(p[1]))}
<1>1. \A s, y : <<s, y>> \in Good <=> s \in SUBSET (1 .. 6) /\ Built(v, y, Of(s))
  <2>1. \A s, y : <<s, y>> \in Good <=> s \in SUBSET (1 .. 6) /\ y \in SUBSET Suggestions /\ Built(v, y, Of(s))
    OBVIOUS
  <2>2. \A s, y : Built(v, y, Of(s)) => y \in SUBSET Suggestions
    BY DEF Built
  <2> HIDE DEF Good, Of
  <2> QED
    BY <2>1, <2>2
<1> HIDE DEF Good
<1>2. <<{}, {}>> \in Good
  <2>1. Of({}) = {} /\ StandingOf(v, {}) = {}
    BY DEF StandingOf
  <2> HIDE DEF Of
  <2>2. Built(v, {}, Of({}))
    BY <2>1, FS_EmptySet DEF Built
  <2> QED
    BY <1>1, <2>2
<1>3. AddAllKeeps(v, Good)
  <2>1. ASSUME NEW s \in SUBSET (1 .. 6), NEW i \in 1 .. 6, NEW y, <<s, y>> \in Good
        PROVE  <<s \cup {i}, AddAll(v, y, Rules(v)[i])>> \in Good
    <3>1. Built(v, y, Of(s))
      BY <1>1, <2>1
    <3>2. Rules(v)[i] \in SUBSET Suggestions /\ IsFiniteSet(Rules(v)[i])
      BY RulesTyped
    <3>3. Of(s \cup {i}) = Of(s) \cup Rules(v)[i] /\ s \cup {i} \in SUBSET (1 .. 6)
      OBVIOUS
    <3> HIDE DEF Of
    <3>4. Built(v, AddAll(v, y, Rules(v)[i]), Of(s) \cup Rules(v)[i])
      BY <3>1, <3>2, RuleBuilds
    <3> QED
      BY <1>1, <3>3, <3>4
  <2> QED
    BY <2>1 DEF AddAllKeeps
<1>4. <<1 .. 6, RebuildCore(v)>> \in Good
  BY <1>2, <1>3, RebuildFold
<1> QED
  BY <1>1, <1>4 DEF Offers

-----------------------------------------------------------------------------
(* The list that the page gets.                                              *)

\* The least of two numbers.
LEMMA MinPair ==
  ASSUME NEW a \in Int, NEW b \in Int
  PROVE  Min({a, b}) = IF a <= b THEN a ELSE b
<1>1. PICK least \in {a, b} : least = IF a <= b THEN a ELSE b
  OBVIOUS
<1>2. \A x \in {a, b} : least <= x
  BY <1>1
<1>3. \A x \in {a, b} : (\A y \in {a, b} : x <= y) => x = least
  BY <1>1
<1>4. Min({a, b}) = least
  BY <1>2, <1>3 DEF Min
<1> QED
  BY <1>1, <1>4

\* The heap takes one more, and gives up its worst.
Push(k, heap, s) ==
    LET h == heap \cup {s}
    IN  IF Cardinality(h) <= k THEN h
        ELSE h \ {CHOOSE w \in h : \A c \in h : AtLeast(c.rank, w.rank)}

\* heap has the best of S, as many as fit.
Best(k, heap, S) ==
    /\ heap \subseteq S
    /\ Cardinality(heap) = IF Cardinality(S) <= k THEN Cardinality(S) ELSE k
    /\ \A s \in heap, r \in S \ heap : AtLeast(s.rank, r.rank)

\* A heap that is not empty has a worst suggestion.
LEMMA WorstExists ==
  ASSUME NEW h \in SUBSET Suggestions, IsFiniteSet(h), h # {}
  PROVE  \E w \in h : \A c \in h : AtLeast(c.rank, w.rank)
<1> DEFINE rel == {p \in h \X h : AtLeast(p[2].rank, p[1].rank)}
<1>1. \A x, y \in h : <<x, y>> \in rel <=> AtLeast(y.rank, x.rank)
  OBVIOUS
<1>2. \A x \in h : x.rank \in Ranks
  BY DEF Suggestions, Ranks
<1> HIDE DEF rel
<1>3. \A x, y \in h : <<x, y>> \in rel \/ <<y, x>> \in rel
  BY <1>1, <1>2, RankOrder
<1>4. ASSUME NEW x \in h, NEW y \in h, NEW z \in h, <<x, y>> \in rel, <<y, z>> \in rel
      PROVE  <<x, z>> \in rel
  <2>1. x.rank \in Ranks /\ y.rank \in Ranks /\ z.rank \in Ranks
    BY <1>2
  <2>2. AtLeast(y.rank, x.rank) /\ AtLeast(z.rank, y.rank)
    BY <1>1, <1>4
  <2> QED
    BY <1>1, <2>1, <2>2, RankOrder
<1>5. PICK w \in h : \A c \in h : <<w, c>> \in rel
  BY <1>3, <1>4, FirstOf
<1> QED
  BY <1>1, <1>5

\* The heap keeps the best when one more is pushed.
LEMMA PushBest ==
  ASSUME NEW k \in Nat, NEW S \in SUBSET Suggestions, IsFiniteSet(S), NEW heap,
         Best(k, heap, S), NEW s \in Suggestions, s \notin S
  PROVE  Best(k, Push(k, heap, s), S \cup {s})
<1> DEFINE h == heap \cup {s}
           all == S \cup {s}
<1>1. /\ IsFiniteSet(heap) /\ heap \subseteq S /\ s \notin heap
      /\ Cardinality(heap) \in Nat /\ Cardinality(S) \in Nat
      /\ Cardinality(heap) = IF Cardinality(S) <= k THEN Cardinality(S) ELSE k
      /\ \A x \in heap, r \in S \ heap : AtLeast(x.rank, r.rank)
  <2>1. heap \subseteq S
    BY DEF Best
  <2>2. IsFiniteSet(heap)
    BY <2>1, FS_Subset
  <2> QED
    BY <2>1, <2>2, FS_CardinalityType DEF Best
<1>2. /\ IsFiniteSet(h) /\ Cardinality(h) = Cardinality(heap) + 1
      /\ Cardinality(all) = Cardinality(S) + 1
  BY <1>1, FS_AddElement
<1>3. CASE Cardinality(h) <= k
  <2>1. Push(k, heap, s) = h
    BY <1>3 DEF Push
  <2>2. Cardinality(S) <= k /\ Cardinality(heap) = Cardinality(S)
    BY <1>1, <1>2, <1>3
  <2>3. heap = S
    BY <1>1, <2>2, FS_Subset
  <2>4. h = all
    BY <2>3
  <2>5. Cardinality(all) <= k
    BY <1>3, <2>4
  <2> HIDE DEF h
  <2> QED
    BY <2>1, <2>4, <2>5 DEF Best
<1>4. CASE ~(Cardinality(h) <= k)
  <2>1. PICK w : w = CHOOSE x \in h : \A c \in h : AtLeast(c.rank, x.rank)
    OBVIOUS
  <2>2. Push(k, heap, s) = h \ {w}
    BY <1>4, <2>1, Zenon DEF Push
  <2>3. w \in h /\ \A c \in h : AtLeast(c.rank, w.rank)
    <3>1. h \in SUBSET Suggestions /\ h # {}
      BY <1>1
    <3> HIDE DEF h
    <3> QED
      BY <1>2, <2>1, <3>1, WorstExists
  <2>4. Cardinality(heap) = k /\ Cardinality(S) >= k
    BY <1>1, <1>2, <1>4
  <2>5. Cardinality(h \ {w}) = k
    <3> HIDE DEF h
    <3>1. Cardinality(h \ {w}) = Cardinality(h) - 1
      BY <1>2, <2>3, FS_RemoveElement
    <3> QED
      BY <1>2, <2>4, <3>1
  <2>6. ~(Cardinality(all) <= k)
    BY <1>1, <1>2, <2>4
  <2>7. ASSUME NEW x \in h \ {w}, NEW r \in all \ (h \ {w}) PROVE AtLeast(x.rank, r.rank)
    <3>1. CASE r = w
      BY <2>3, <2>7, <3>1
    <3>2. CASE r # w
      <4>1. r \in S \ heap
        BY <2>7, <3>2
      <4>2. CASE x \in heap
        BY <1>1, <4>1, <4>2
      <4>3. CASE x = s
        <5>1. w \in heap
          BY <2>3, <2>7, <4>3
        <5>2. AtLeast(x.rank, w.rank) /\ AtLeast(w.rank, r.rank)
          BY <1>1, <2>3, <2>7, <4>1, <5>1
        <5>3. x.rank \in Ranks /\ w.rank \in Ranks /\ r.rank \in Ranks
          <6>1. \A c \in Suggestions : c.rank \in Ranks
            BY DEF Suggestions, Ranks
          <6> QED
            BY <1>1, <4>1, <4>3, <5>1, <6>1
        <5> QED
          BY <5>2, <5>3, RankOrder
      <4> QED
        BY <2>7, <4>2, <4>3
    <3> QED
      BY <3>1, <3>2
  <2>8. h \ {w} \subseteq all
    BY <1>1
  <2> HIDE DEF h, all
  <2>9. Best(k, h \ {w}, all)
    BY <2>5, <2>6, <2>7, <2>8 DEF Best
  <2> QED
    BY <2>2, <2>9 DEF all
<1> QED
  BY <1>3, <1>4

PushKeeps(k, S, Good) ==
    \A s \in SUBSET S, x \in S : \A y :
       x \notin s /\ <<s, y>> \in Good => <<s \cup {x}, Push(k, y, x)>> \in Good

\* What a push keeps holds of the list.
LEMMA TopFold ==
  ASSUME NEW S, IsFiniteSet(S), NEW k, NEW Good, <<{}, {}>> \in Good, PushKeeps(k, S, Good)
  PROVE  <<S, TopK(S, k)>> \in Good
<1> DEFINE Body(h) == [s \in SUBSET S |-> IF s = {} THEN {}
                         ELSE Push(k, h[s \ {CHOOSE x \in s : TRUE}], CHOOSE x \in s : TRUE)]
           g == CHOOSE h : h = Body(h)
           pick == [s \in SUBSET S |-> CHOOSE x \in s : TRUE]
           R == {p[2] : p \in Good}
           step == [p \in S \X R |-> Push(k, p[2], p[1])]
<1>1. TopK(S, k) = g[S]
  BY Zenon DEF TopK, Push, FoldSet, MapThenFoldSet
<1>2. Picks(pick, S)
  BY DEF Picks
<1>3. \A s \in SUBSET S : pick[s] = CHOOSE x \in s : TRUE
  OBVIOUS
<1>4. \A s, y : <<s, y>> \in Good => y \in R
  OBVIOUS
<1>5. \A x \in S, y \in R : step[<<x, y>>] = Push(k, y, x)
  OBVIOUS
<1>6. \E h : h = Body(h)
  <2> HIDE DEF pick, R, step
  <2>1. Keeps(step, S, Good)
    BY <1>4, <1>5 DEF Keeps, PushKeeps
  <2>2. PICK h : /\ h = [s \in SUBSET S |-> h[s]] /\ h[{}] = {}
                 /\ \A s \in SUBSET S : s # {} =>
                       /\ pick[s] \in S
                       /\ <<s \ {pick[s]}, h[s \ {pick[s]}]>> \in Good
                       /\ h[s] = step[<<pick[s], h[s \ {pick[s]}]>>]
    <3>1. \E h : KeptFold(h, S, {}, pick, step, Good)
      BY <1>2, <2>1, FoldKeeps
    <3> QED
      BY <3>1 DEF KeptFold
  <2>3. \A s \in SUBSET S : h[s] = IF s = {} THEN {} ELSE Push(k, h[s \ {pick[s]}], pick[s])
    BY <1>4, <1>5, <2>2
  <2>4. \A s \in SUBSET S : h[s] = IF s = {} THEN {}
                    ELSE Push(k, h[s \ {CHOOSE x \in s : TRUE}], CHOOSE x \in s : TRUE)
    BY <1>3, <2>3
  <2>5. h = Body(h)
    BY <2>2, <2>4
  <2> QED
    BY <2>5
<1>7. PICK h : h = g /\ h = Body(h)
  <2> HIDE DEF Body
  <2> QED
    BY <1>6
<1>8. \A s \in SUBSET S : h[s] = IF s = {} THEN {} ELSE Push(k, h[s \ {pick[s]}], pick[s])
  <2>1. h = Body(h)
    BY <1>7, Zenon
  <2> HIDE DEF g
  <2>2. \A s \in SUBSET S : h[s] = IF s = {} THEN {}
                         ELSE Push(k, h[s \ {CHOOSE x \in s : TRUE}], CHOOSE x \in s : TRUE)
    BY <2>1
  <2> QED
    BY <1>3, <2>2
<1> HIDE DEF pick, g
<1>9. ASSUME NEW s \in SUBSET S, s # {}, <<s \ {pick[s]}, h[s \ {pick[s]}]>> \in Good
      PROVE  <<s, h[s]>> \in Good
  <2>1. /\ pick[s] \in S /\ s \ {pick[s]} \in SUBSET S
        /\ (s \ {pick[s]}) \cup {pick[s]} = s /\ pick[s] \notin s \ {pick[s]}
    BY <1>2, <1>9 DEF Picks
  <2> QED
    BY <1>8, <1>9, <2>1, SMTT(30) DEF PushKeeps
<1>10. <<{}, h[{}]>> \in Good
  BY <1>8
<1>11. \A s \in SUBSET S : <<s, h[s]>> \in Good
  BY <1>2, <1>9, <1>10, FoldInduction
<1>12. <<S, h[S]>> \in Good
  BY <1>11
<1> QED
  BY <1>1, <1>7, <1>12, Zenon

\* The list the page gets has the best of the suggestions, as many as fit.
LEMMA TopIsBest ==
  ASSUME NEW S \in SUBSET Suggestions, IsFiniteSet(S), NEW k \in Nat
  PROVE  Best(k, TopK(S, k), S)
<1> DEFINE Good == {p \in (SUBSET S) \X (SUBSET S) : Best(k, p[2], p[1])}
<1>1. \A s, y : <<s, y>> \in Good <=> s \in SUBSET S /\ Best(k, y, s)
  <2>1. \A s, y : <<s, y>> \in Good <=> s \in SUBSET S /\ y \in SUBSET S /\ Best(k, y, s)
    OBVIOUS
  <2>2. \A s \in SUBSET S : \A y : Best(k, y, s) => y \in SUBSET S
    BY DEF Best
  <2> HIDE DEF Good
  <2> QED
    BY <2>1, <2>2
<1> HIDE DEF Good
<1>2. <<{}, {}>> \in Good
  <2>1. Best(k, {}, {})
    <3>1. Cardinality({}) = 0
      BY FS_EmptySet
    <3> QED
      BY <3>1 DEF Best
  <2> QED
    BY <1>1, <2>1
<1>3. ASSUME NEW s \in SUBSET S, NEW x \in S, NEW y, x \notin s, <<s, y>> \in Good
      PROVE  <<s \cup {x}, Push(k, y, x)>> \in Good
  <2>1. IsFiniteSet(s) /\ s \in SUBSET Suggestions /\ x \in Suggestions /\ Best(k, y, s)
    BY <1>1, <1>3, FS_Subset
  <2>2. Best(k, Push(k, y, x), s \cup {x})
    BY <1>3, <2>1, PushBest
  <2> QED
    BY <1>1, <2>2
<1>4. PushKeeps(k, S, Good)
  BY <1>3 DEF PushKeeps
<1>5. <<S, TopK(S, k)>> \in Good
  BY <1>2, <1>4, TopFold
<1> QED
  BY <1>1, <1>5

-----------------------------------------------------------------------------
(* The inductive invariant of what is suggested.                             *)

\* What the rules read has its types.
WorldTyped ==
    /\ clock \in Nat
    /\ alerts \in [Sensors -> AlertRecords] /\ \A r \in recent : r.device \in Sensors
    /\ offlineSince \in [Devices -> Nat]
    /\ battery \in [Devices -> 0 .. 100] /\ drifting \subseteq Sensors
    /\ CountsTyped(counts) /\ \A n \in DOMAIN credited : credited[n] \in Responses

\* The parts that were read so far have theirs.
PartsTyped(v) ==
    /\ "now" \in DOMAIN v => v.now \in Nat
    /\ "devices" \in DOMAIN v => v.devices.battery \in [Devices -> 0 .. 100]
    /\ "alerts" \in DOMAIN v => v.alerts \in [Sensors -> AlertRecords]
    /\ "offlineSince" \in DOMAIN v => v.offlineSince \in [Devices -> Nat]
    /\ "learned" \in DOMAIN v => CountsTyped(v.learned.counts)

\* Thread t has read the parts before the next one, the dismissals among them not
\* before its own was made; if nothing changed since, they are what they were.
Rebuilding(t) ==
    /\ rebuilder = t
    /\ thread[t] = [at |-> "rebuild", next |-> thread[t].next, view |-> thread[t].view,
                    dismissal |-> thread[t].dismissal]
    /\ thread[t].next \in 1 .. 8 /\ thread[t].dismissal \subseteq dismissed
    /\ thread[t].view = [y \in DOMAIN thread[t].view |-> thread[t].view[y]]
    /\ DOMAIN thread[t].view = {ReadOrder[i] : i \in 1 .. thread[t].next - 1}
    /\ PartsTyped(thread[t].view)
    /\ fresh => \A y \in DOMAIN thread[t].view : thread[t].view[y] = World[y]
    /\ "learned" \in DOMAIN thread[t].view =>
          kept \cup thread[t].dismissal \subseteq thread[t].view.learned.dismissed

\* What a thread holds is fit for its next step.
Holds(t) ==
    /\ thread[t].at = "learn" => /\ thread[t].action \in CommandTypes \cup {"Inspect"}
                                 /\ thread[t].target \in Targets
    /\ thread[t].at = "credit" => thread[t].response \in Responses
    /\ thread[t].at = "wait" => thread[t].dismissal \subseteq dismissed
    /\ thread[t].at = "rebuild" => Rebuilding(t)

\* The candidates are suggestions that were not dismissed, and once a rebuild has
\* ended and nothing changed since it began, those that the rules make now.
CandidatesBuilt ==
    /\ CandidatesType /\ IsFiniteSet(candidates)
    /\ kept \subseteq dismissed /\ DismissedStaysAway
    /\ fresh /\ rebuilder = Nobody => Built(World, candidates, Offers(World))

ShownInv == WorldTyped /\ (\A t \in Threads : Holds(t)) /\ CandidatesBuilt

\* At first there is nothing to suggest.
LEMMA ShownStart == Init => ShownInv
<1> SUFFICES ASSUME Init PROVE ShownInv
  OBVIOUS
<1>1. WorldTyped
  <2>1. /\ clock = 0 /\ recent = {} /\ drifting = {}
        /\ offlineSince = [d \in Devices |-> 0] /\ battery = [d \in Devices |-> 100]
    BY DEF Init
  <2>2. alerts \in [Sensors -> AlertRecords]
    BY DEF Init, AlertRecords
  <2>3. CountsTyped(counts)
    <3>1. counts = EmptyBag
      BY DEF Init
    <3>2. DOMAIN EmptyBag = {} /\ EmptyBag = [e \in {} |-> EmptyBag[e]]
      BY DEF EmptyBag, SetToBag
    <3> QED
      BY <3>1, <3>2, FS_EmptySet DEF CountsTyped, IsABag
  <2>4. DOMAIN credited = {}
    <3>1. credited = <<>>
      BY DEF Init
    <3> QED
      BY <3>1
  <2> QED
    BY <2>1, <2>2, <2>3, <2>4 DEF WorldTyped
<1>2. \A t \in Threads : Holds(t)
  <2>1. \A t \in Threads : thread[t].at = "idle"
    BY DEF Init, Idle
  <2> QED
    BY <2>1 DEF Holds
<1>3. CandidatesBuilt
  <2>1. candidates = {} /\ kept = {} /\ fresh = FALSE
    BY DEF Init
  <2> QED
    BY <2>1, FS_EmptySet DEF CandidatesBuilt, CandidatesType, DismissedStaysAway
<1> QED
  BY <1>1, <1>2, <1>3 DEF ShownInv

\* A thread that stays where it is.
LEMMA HoldsOn ==
  ASSUME NEW t \in Threads, Holds(t), thread'[t] = thread[t], dismissed \subseteq dismissed',
         thread[t].at = "rebuild" => /\ rebuilder' = rebuilder /\ kept' = kept
                                     /\ fresh' => fresh /\ World' = World
  PROVE  Holds(t)'
<1>1. CASE thread[t].at = "rebuild"
  <2>1. Rebuilding(t) /\ rebuilder' = rebuilder /\ kept' = kept /\ (fresh' => fresh /\ World' = World)
    BY <1>1 DEF Holds
  <2>2. fresh' => \A y \in DOMAIN thread[t].view : thread[t].view[y] = World'[y]
    BY <2>1 DEF Rebuilding
  <2>3. Rebuilding(t)'
    BY <2>1, <2>2 DEF Rebuilding, PartsTyped
  <2> QED
    BY <1>1, <2>3 DEF Holds
<1>2. CASE thread[t].at # "rebuild"
  BY <1>2 DEF Holds
<1> QED
  BY <1>1, <1>2

\* The rules offer the same when they read the same.
LEMMA OffersStay ==
  ASSUME World' = World, drifting' = drifting
  PROVE  Offers(World)' = Offers(World)
<1>1. Drift(World)' = Drift(World)
  BY DEF Drift
<1> QED
  BY <1>1 DEF Offers, Rules

\* The candidates are not replaced.
LEMMA CandidatesStay ==
  ASSUME CandidatesBuilt, candidates' = candidates, kept' = kept, dismissed \subseteq dismissed',
         fresh' /\ rebuilder' = Nobody =>
            fresh /\ rebuilder = Nobody /\ World' = World /\ drifting' = drifting
  PROVE  CandidatesBuilt'
<1>1. /\ CandidatesType' /\ IsFiniteSet(candidates')
      /\ kept' \subseteq dismissed' /\ DismissedStaysAway'
  BY DEF CandidatesBuilt, CandidatesType, DismissedStaysAway
<1>2. ASSUME fresh', rebuilder' = Nobody PROVE Built(World, candidates, Offers(World))'
  <2>1. Built(World, candidates, Offers(World))
    BY <1>2 DEF CandidatesBuilt
  <2>2. World' = World /\ Offers(World)' = Offers(World)
    BY <1>2, OffersStay
  <2> QED
    BY <2>1, <2>2
<1> QED
  BY <1>1, <1>2 DEF CandidatesBuilt

\* Nothing that is typed changes.
LEMMA WorldStays ==
  ASSUME WorldTyped, UNCHANGED <<clock, alerts, recent, offlineSince, battery, drifting, counts, credited>>
  PROVE  WorldTyped'
BY DEF WorldTyped

\* What the telemetry consumer writes has its type.
LEMMA TelemetryTyped ==
  ASSUME WorldTyped, Telemetry
  PROVE  WorldTyped'
<1>u. clock' = clock /\ offlineSince' = offlineSince /\ counts' = counts /\ credited' = credited
  BY DEF Telemetry, Raise, Unacknowledge, LogCleared, ReportDrift, ReportBattery, engineVars, learnVars
<1>1. ASSUME NEW d \in Sensors, NEW severity \in 1 .. MaxSeverity, Raise(d, severity)
      PROVE  WorldTyped'
  <2>1. MaxSeverity \in Nat
    BY InsightsAssumption
  <2> DEFINE alert == [batch |-> clock, severity |-> severity]
  <2>2. alert \in AlertRecords
    BY <2>1 DEF WorldTyped, AlertRecords
  <2>3. /\ alerts' = [alerts EXCEPT ![d] = alert] /\ recent' = recent \cup {[device |-> d, alert |-> alert]}
        /\ battery' = battery /\ drifting' = drifting
    BY <1>1 DEF Raise, deviceVars
  <2> HIDE DEF alert
  <2>4. alerts' \in [Sensors -> AlertRecords]
    BY <2>2, <2>3 DEF WorldTyped
  <2>5. \A r \in recent' : r.device \in Sensors
    BY <2>3 DEF WorldTyped
  <2> QED
    BY <1>u, <2>3, <2>4, <2>5 DEF WorldTyped
<1>2. ASSUME NEW d \in Sensors, Unacknowledge(d) PROVE WorldTyped'
  <2>1. UNCHANGED <<clock, alerts, recent, offlineSince, battery, drifting, counts, credited>>
    BY <1>u, <1>2 DEF Unacknowledge, deviceVars
  <2> QED
    BY <2>1, WorldStays
<1>3. ASSUME NEW d \in Sensors, LogCleared(d) PROVE WorldTyped'
  <2>1. alerts' = [alerts EXCEPT ![d] = NoAlert] /\ UNCHANGED <<recent, battery, drifting>>
    BY <1>3 DEF LogCleared, deviceVars
  <2>2. alerts' \in [Sensors -> AlertRecords]
    BY <2>1 DEF WorldTyped, AlertRecords
  <2> QED
    BY <1>u, <2>1, <2>2 DEF WorldTyped
<1>4. ASSUME NEW d \in Sensors, ReportDrift(d) PROVE WorldTyped'
  <2>1. /\ drifting' = (drifting \ {d}) \cup ({d} \ drifting)
        /\ UNCHANGED <<alerts, recent, battery>>
    BY <1>4 DEF ReportDrift, alertVars
  <2>2. drifting' \subseteq Sensors
    BY <2>1 DEF WorldTyped
  <2> QED
    BY <1>u, <2>1, <2>2 DEF WorldTyped
<1>5. ASSUME NEW d \in Devices, NEW level \in BatteryLevels, ReportBattery(d, level)
      PROVE  WorldTyped'
  <2>1. battery' = [battery EXCEPT ![d] = level] /\ UNCHANGED <<alerts, recent, drifting>>
    BY <1>5 DEF ReportBattery, alertVars
  <2>2. level \in 0 .. 100
    BY InsightsAssumption
  <2>3. battery' \in [Devices -> 0 .. 100]
    BY <2>1, <2>2 DEF WorldTyped
  <2> QED
    BY <1>u, <2>1, <2>3 DEF WorldTyped
<1> QED
  BY <1>1, <1>2, <1>3, <1>4, <1>5 DEF Telemetry

\* No thread moves, and no view is fresh any more.
LEMMA TelemetryShown ==
  ASSUME ShownInv, Telemetry, fresh' = FALSE
  PROVE  ShownInv'
<1>1. UNCHANGED <<engineVars, thread>>
  BY DEF Telemetry, Raise, Unacknowledge, LogCleared, ReportDrift, ReportBattery
<1>2. UNCHANGED <<thread, candidates, rebuilder, dismissed, kept>>
  BY <1>1 DEF engineVars, buildVars, dismissVars
<1>3. WorldTyped'
  BY TelemetryTyped DEF ShownInv
<1>4. \A t \in Threads : Holds(t)'
  BY <1>2, HoldsOn DEF ShownInv
<1>5. CandidatesBuilt'
  BY <1>2, CandidatesStay DEF ShownInv
<1> QED
  BY <1>3, <1>4, <1>5 DEF ShownInv

\* Learning and forgetting keep what is counted.
LEMMA CountsStay ==
  ASSUME CountsTyped(counts), IsABag(counts'),
         NEW r \in Responses,
         counts' = counts (+) SetToBag({r}) \/ counts' = counts (-) SetToBag({r})
  PROVE  CountsTyped(counts')
<1>1. CASE counts' = counts (+) SetToBag({r})
  <2>1. DOMAIN counts' = DOMAIN counts \cup {r}
    BY <1>1 DEF (+), SetToBag
  <2>2. IsFiniteSet(DOMAIN counts')
    BY <2>1, FS_AddElement DEF CountsTyped
  <2> QED
    BY <2>1, <2>2 DEF CountsTyped
<1>2. CASE counts' = counts (-) SetToBag({r})
  <2>1. DOMAIN counts' \subseteq DOMAIN counts
    BY <1>2 DEF (-)
  <2>2. IsFiniteSet(DOMAIN counts')
    BY <2>1, FS_Subset DEF CountsTyped
  <2> QED
    BY <2>1, <2>2 DEF CountsTyped
<1> QED
  BY <1>1, <1>2
\* Thread t moves, and does not end a rebuild.
LEMMA MoveShown ==
  ASSUME ShownInv, WorldTyped', NEW t \in Threads, Moves(t), Holds(t)',
         dismissed \subseteq dismissed', kept' = kept, candidates' = candidates,
         \/ rebuilder = Nobody /\ rebuilder' # Nobody
         \/ /\ rebuilder' = rebuilder
            /\ fresh' => fresh /\ World' = World /\ drifting' = drifting
  PROVE  ShownInv'
<1>1. ASSUME NEW u \in Threads \ {t} PROVE Holds(u)'
  <2>1. Holds(u) /\ thread'[u] = thread[u]
    BY DEF ShownInv, Moves
  <2>2. thread[u].at = "rebuild" => rebuilder = u /\ rebuilder # Nobody
    BY <2>1, InsightsAssumption DEF Holds, Rebuilding
  <2> QED
    BY <2>1, <2>2, HoldsOn
<1>2. CandidatesBuilt'
  BY CandidatesStay DEF ShownInv
<1> QED
  BY <1>1, <1>2 DEF ShownInv

\* Steps that are no rebuild: nothing that was read is the current world any more.
LEMMA InputShown ==
  ASSUME ShownInv, CreditsInv, CreditsInv', NEW t \in Threads, Input(t), fresh' = FALSE
  PROVE  ShownInv'
<1>0. t \in DOMAIN thread /\ DOMAIN thread = Threads /\ "at" \in DOMAIN thread[t] /\ ThreadsAt'
  BY DEF CreditsInv, ThreadsAt
<1>w. WorldTyped /\ Holds(t)
  BY DEF ShownInv
<1>1. CASE CloseBatch(t)
  <2>1. /\ thread' = [thread EXCEPT ![t] = [at |-> "detect", todo |-> Devices]]
        /\ clock' = clock + 1
        /\ UNCHANGED <<alerts, recent, offlineSince, battery, drifting, counts, credited,
                       dismissed, kept, candidates, rebuilder>>
    BY <1>1 DEF CloseBatch, alertVars, deviceVars, engineVars, learnVars, dismissVars, buildVars
  <2>2. WorldTyped'
    BY <1>w, <2>1 DEF WorldTyped
  <2>3. Moves(t) /\ Holds(t)'
    BY <1>0, <2>1 DEF Moves, Holds
  <2> QED
    BY <2>1, <2>2, <2>3, MoveShown
<1>2. ASSUME NEW d \in Devices, Detect(t, d) PROVE ShownInv'
  <2>1. /\ thread' = [thread EXCEPT ![t].todo = @ \ {d}] /\ thread[t].at = "detect"
        /\ offlineSince' = [offlineSince EXCEPT ![d] = IF @ = 0 THEN clock ELSE 0]
        /\ UNCHANGED <<clock, alerts, recent, battery, drifting, counts, credited,
                       dismissed, kept, candidates, rebuilder>>
    BY <1>2 DEF Detect, alertVars, deviceVars, engineVars, learnVars, dismissVars, buildVars
  <2>2. WorldTyped'
    <3>1. offlineSince' \in [Devices -> Nat]
      BY <1>w, <2>1 DEF WorldTyped
    <3> QED
      BY <1>w, <2>1, <3>1 DEF WorldTyped
  <2>3. Moves(t) /\ Holds(t)'
    <3>1. thread'[t].at = "detect" /\ "at" \in DOMAIN thread'[t]
      BY <1>0, <2>1
    <3> QED
      BY <1>0, <2>1, <3>1 DEF Moves, Holds
  <2> QED
    BY <2>1, <2>2, <2>3, MoveShown
<1>3. CASE Issue(t)
  <2>1. PICK type \in CommandTypes, target \in Targets :
           thread' = [thread EXCEPT ![t] = [at |-> "learn", id |-> lastId + 1, action |-> type,
                                            target |-> target, batch |-> clock]]
    BY <1>3 DEF Issue
  <2>2. UNCHANGED <<clock, alerts, recent, offlineSince, battery, drifting, counts, credited,
                    dismissed, kept, candidates, rebuilder>>
    BY <1>3 DEF Issue, alertVars, deviceVars, engineVars, learnVars, dismissVars, buildVars
  <2>3. WorldTyped'
    BY <1>w, <2>2, WorldStays
  <2>4. Moves(t) /\ Holds(t)'
    BY <1>0, <2>1 DEF Moves, Holds
  <2> QED
    BY <2>2, <2>3, <2>4, MoveShown
<1>4. CASE Undo(t)
  <2>1. /\ thread' = [thread EXCEPT ![t] = [at |-> "forget", id |-> Last(undo).id]]
        /\ UNCHANGED <<clock, alerts, recent, offlineSince, battery, drifting, counts, credited,
                       dismissed, kept, candidates, rebuilder>>
    BY <1>4 DEF Undo, alertVars, deviceVars, engineVars, learnVars, dismissVars, buildVars
  <2>2. WorldTyped'
    BY <1>w, <2>1, WorldStays
  <2>3. Moves(t) /\ Holds(t)'
    BY <1>0, <2>1 DEF Moves, Holds
  <2> QED
    BY <2>1, <2>2, <2>3, MoveShown
<1>5. CASE Credit(t)
  <2>1. /\ thread' = [thread EXCEPT ![t] = AfterLearning(t)] /\ thread[t].at = "credit"
        /\ counts' = counts (+) SetToBag({thread[t].response})
        /\ credited' = credited \/ credited' = With(credited, thread[t].id, thread[t].response)
        /\ UNCHANGED <<clock, alerts, recent, offlineSince, battery, drifting,
                       dismissed, kept, candidates, rebuilder>>
    BY <1>5 DEF Credit, worldVars, alertVars, deviceVars, dismissVars, buildVars
  <2>2. WorldTyped'
    <3>1. thread[t].response \in Responses
      BY <1>w, <2>1 DEF Holds
    <3>2. CountsTyped(counts')
      BY <1>w, <2>1, <3>1, CountsStay DEF WorldTyped, CreditsInv, CountsAdd
    <3>3. \A n \in DOMAIN credited' : credited'[n] \in Responses
      BY <1>w, <2>1, <3>1 DEF WorldTyped, With
    <3> QED
      BY <1>w, <2>1, <3>2, <3>3 DEF WorldTyped
  <2>3. Moves(t) /\ Holds(t)'
    <3>1. thread'[t] = Idle \/ thread'[t] = Waiting
      BY <1>0, <2>1 DEF AfterLearning
    <3> QED
      BY <1>0, <2>1, <3>1 DEF Moves, Holds, Idle, Waiting
  <2> QED
    BY <2>1, <2>2, <2>3, MoveShown
<1>6. CASE Forget(t)
  <2>1. /\ thread' = [thread EXCEPT ![t] = Waiting]
        /\ \/ /\ thread[t].id \in DOMAIN credited
              /\ counts' = counts (-) SetToBag({credited[thread[t].id]})
              /\ credited' = Restrict(credited, DOMAIN credited \ {thread[t].id})
           \/ counts' = counts /\ credited' = credited
        /\ UNCHANGED <<clock, alerts, recent, offlineSince, battery, drifting,
                       dismissed, kept, candidates, rebuilder>>
    BY <1>6 DEF Forget, Decremented, worldVars, alertVars, deviceVars, dismissVars, buildVars
  <2>2. CountsTyped(counts') /\ \A n \in DOMAIN credited' : credited'[n] \in Responses
    <3>1. CASE counts' = counts /\ credited' = credited
      BY <1>w, <3>1 DEF WorldTyped
    <3>2. CASE /\ thread[t].id \in DOMAIN credited
               /\ counts' = counts (-) SetToBag({credited[thread[t].id]})
               /\ credited' = Restrict(credited, DOMAIN credited \ {thread[t].id})
      <4>1. credited[thread[t].id] \in Responses
        BY <1>w, <3>2 DEF WorldTyped
      <4>2. CountsTyped(counts')
        BY <1>w, <3>2, <4>1, CountsStay DEF WorldTyped, CreditsInv, CountsAdd
      <4>3. \A n \in DOMAIN credited' : credited'[n] \in Responses
        BY <1>w, <3>2 DEF WorldTyped, Restrict
      <4> QED
        BY <4>2, <4>3
    <3> QED
      BY <2>1, <3>1, <3>2
  <2>3. WorldTyped'
    BY <1>w, <2>1, <2>2 DEF WorldTyped
  <2>4. Moves(t) /\ Holds(t)'
    BY <1>0, <2>1 DEF Moves, Holds, Waiting
  <2> QED
    BY <2>1, <2>3, <2>4, MoveShown
<1>7. CASE Dismiss(t)
  <2>1. PICK s \in Current("all") :
           /\ dismissed' = dismissed \cup {<<s.id, s.version>>}
           /\ thread' = [thread EXCEPT ![t] = [at |-> "wait", dismissal |-> {<<s.id, s.version>>}]]
    BY <1>7 DEF Dismiss
  <2>2. UNCHANGED <<clock, alerts, recent, offlineSince, battery, drifting, counts, credited,
                    kept, candidates, rebuilder>>
    BY <1>7 DEF Dismiss, worldVars, alertVars, deviceVars, learnVars, buildVars
  <2>3. WorldTyped'
    BY <1>w, <2>2, WorldStays
  <2>4. Moves(t) /\ Holds(t)' /\ dismissed \subseteq dismissed'
    BY <1>0, <2>1 DEF Moves, Holds
  <2> QED
    BY <2>2, <2>3, <2>4, MoveShown
<1> QED
  BY <1>1, <1>2, <1>3, <1>4, <1>5, <1>6, <1>7 DEF Input

\* Steps that change nothing a rebuild reads.
LEMMA WorldSame ==
  ASSUME UNCHANGED <<worldVars, learnVars, dismissed>>
  PROVE  /\ UNCHANGED <<clock, alerts, recent, offlineSince, battery, drifting, counts, credited>>
         /\ World' = World
<1>1. UNCHANGED <<clock, alerts, recent, acknowledged, muted, offlineSince, battery, drifting,
                  override, counts, credited, dismissed>>
  BY DEF worldVars, alertVars, deviceVars, commandVars, learnVars
<1> QED
  BY <1>1 DEF World

\* A thread that takes the lock has read nothing yet; no other is rebuilding.
LEMMA BeginShown ==
  ASSUME ShownInv, CreditsInv, NEW t \in Threads, BeginRebuild(t)
  PROVE  ShownInv'
<1>0. t \in DOMAIN thread /\ DOMAIN thread = Threads
  BY DEF CreditsInv, ThreadsAt
<1>1. /\ thread[t].at = "wait" /\ rebuilder = Nobody /\ rebuilder' = t
      /\ thread' = [thread EXCEPT ![t] = [at |-> "rebuild", next |-> 1, view |-> <<>>,
                                          dismissal |-> thread[t].dismissal]]
      /\ UNCHANGED <<worldVars, learnVars, dismissed, kept, candidates>>
  BY DEF BeginRebuild, dismissVars
<1>2. WorldTyped'
  BY <1>1, WorldSame, WorldStays DEF ShownInv
<1>3. Moves(t)
  BY <1>0, <1>1 DEF Moves
<1>4. Holds(t)'
  <2>1. thread[t].dismissal \subseteq dismissed'
    BY <1>1 DEF ShownInv, Holds
  <2>2. thread'[t] = [at |-> "rebuild", next |-> 1, view |-> <<>>, dismissal |-> thread[t].dismissal]
    BY <1>0, <1>1
  <2>3. DOMAIN <<>> = {} /\ <<>> = [y \in {} |-> <<>>[y]]
    OBVIOUS
  <2>4. {ReadOrder[i] : i \in 1 .. 1 - 1} = {}
    OBVIOUS
  <2>5. PartsTyped(<<>>)
    BY <2>3 DEF PartsTyped
  <2>6. Rebuilding(t)'
    BY <1>1, <2>1, <2>2, <2>3, <2>4, <2>5 DEF Rebuilding
  <2> QED
    BY <2>2, <2>6 DEF Holds
<1>5. Nobody # t
  BY InsightsAssumption
<1> QED
  BY <1>1, <1>2, <1>3, <1>4, <1>5, MoveShown

\* A click, an alert that is found for a response, the end of a batch.
LEMMA QuietShown ==
  ASSUME ShownInv, CreditsInv, NEW t \in Threads, Click(t) \/ FindAlert(t) \/ EndDetect(t),
         fresh' = fresh
  PROVE  ShownInv'
<1>0. t \in DOMAIN thread /\ DOMAIN thread = Threads
  BY DEF CreditsInv, ThreadsAt
<1>1. UNCHANGED <<worldVars, learnVars, dismissed, kept, candidates, rebuilder>>
  BY DEF Click, FindAlert, EndDetect, engineVars, dismissVars, buildVars
<1>2. WorldTyped' /\ World' = World /\ drifting' = drifting
  BY <1>1, WorldSame, WorldStays DEF ShownInv
<1>3. Moves(t) /\ Holds(t)'
  <2>1. CASE Click(t)
    <3>1. PICK d \in Devices : thread' = [thread EXCEPT ![t] =
             [at |-> "learn", id |-> 0, action |-> "Inspect", target |-> d, batch |-> clock]]
      BY <2>1 DEF Click
    <3>2. d \in Targets
      BY DEF Targets
    <3> QED
      BY <1>0, <3>1, <3>2 DEF Moves, Holds
  <2>2. CASE EndDetect(t)
    <3>1. thread' = [thread EXCEPT ![t] = Waiting]
      BY <2>2 DEF EndDetect
    <3> QED
      BY <1>0, <3>1 DEF Moves, Holds, Waiting
  <2>3. CASE FindAlert(t)
    <3>1. CASE thread' = [thread EXCEPT ![t] = AfterLearning(t)]
      <4>1. thread'[t] = Idle \/ thread'[t] = Waiting
        BY <1>0, <3>1 DEF AfterLearning
      <4> QED
        BY <1>0, <3>1, <4>1 DEF Moves, Holds, Idle, Waiting
    <3>2. ASSUME NEW r \in NearestAlerts(thread[t].batch),
                 thread' = [thread EXCEPT ![t] =
                    [at |-> "credit", id |-> thread[t].id,
                     response |-> [metric |-> Category[r.device], action |-> thread[t].action,
                                   scope |-> ScopeOf(r.device, thread[t].target)]]]
          PROVE  Moves(t) /\ Holds(t)'
      <4>1. r.device \in Sensors
        BY DEF NearestAlerts, Eligible, ShownInv, WorldTyped
      <4>2. /\ thread[t].action \in CommandTypes \cup {"Inspect"} /\ thread[t].target \in Targets
        BY <2>3 DEF FindAlert, ShownInv, Holds
      <4>3. ScopeOf(r.device, thread[t].target) \in {Subzone, "Device"} \cup {Category[d] : d \in Devices}
        BY <4>2 DEF ScopeOf, Targets
      <4>4. [metric |-> Category[r.device], action |-> thread[t].action,
             scope |-> ScopeOf(r.device, thread[t].target)] \in Responses
        BY <4>1, <4>2, <4>3 DEF Responses, Metrics
      <4> QED
        BY <1>0, <3>2, <4>4 DEF Moves, Holds
    <3> QED
      BY <2>3, <3>1, <3>2 DEF FindAlert
  <2> QED
    BY <2>1, <2>2, <2>3
<1> QED
  BY <1>1, <1>2, <1>3, MoveShown

\* The parts in the order in which they are read.
LEMMA ReadOrderFacts ==
  /\ Len(ReadOrder) = 7
  /\ \A i, j \in 1 .. 7 : ReadOrder[i] = ReadOrder[j] => i = j
  /\ {ReadOrder[i] : i \in 1 .. 7} = DOMAIN World
<1>1. Len(ReadOrder) = 7
  BY DEF ReadOrder
<1>2. \A i, j \in 1 .. 7 : ReadOrder[i] = ReadOrder[j] => i = j
  BY DEF ReadOrder
<1>3. {ReadOrder[i] : i \in 1 .. 7} = {"now", "devices", "alerts", "acknowledged", "muted", "offlineSince", "learned"}
  BY DEF ReadOrder
<1>4. DOMAIN World = {"now", "devices", "alerts", "acknowledged", "muted", "offlineSince", "learned"}
  BY DEF World
<1> QED
  BY <1>1, <1>2, <1>3, <1>4

\* One more part is read: the dismissals include those of calls that returned.
LEMMA ReadShown ==
  ASSUME ShownInv, CreditsInv, NEW t \in Threads, Read(t), fresh' = fresh
  PROVE  ShownInv'
<1>0. t \in DOMAIN thread /\ DOMAIN thread = Threads
  BY DEF CreditsInv, ThreadsAt
<1>1. UNCHANGED <<worldVars, learnVars, dismissed, kept, candidates, rebuilder>>
  BY DEF Read, engineVars, dismissVars, buildVars
<1>2. WorldTyped /\ WorldTyped' /\ World' = World /\ drifting' = drifting
  BY <1>1, WorldSame, WorldStays DEF ShownInv
<1>3. Rebuilding(t) /\ thread[t].at = "rebuild" /\ thread[t].next \in 1 .. 7
  <2>1. Rebuilding(t) /\ thread[t].at = "rebuild" /\ thread[t].next <= 7
    BY ReadOrderFacts DEF Read, ShownInv, Holds
  <2> QED
    BY <2>1 DEF Rebuilding
<1> DEFINE n == thread[t].next
           v == thread[t].view
           part == ReadOrder[n]
           w == With(v, part, World[part])
<1>4. /\ thread'[t] = [at |-> "rebuild", next |-> n + 1, view |-> w, dismissal |-> thread[t].dismissal]
      /\ Moves(t)
  <2>1. thread' = [thread EXCEPT ![t].view = w, ![t].next = n + 1]
    BY DEF Read
  <2>2. thread[t] = [at |-> "rebuild", next |-> n, view |-> v, dismissal |-> thread[t].dismissal]
    BY <1>3 DEF Rebuilding
  <2> HIDE DEF n, v, w
  <2> DEFINE f == [thread EXCEPT ![t].view = w]
  <2>3. /\ DOMAIN f = Threads /\ \A u \in Threads \ {t} : f[u] = thread[u]
        /\ f[t] = [at |-> "rebuild", next |-> n, view |-> w, dismissal |-> thread[t].dismissal]
    BY <1>0, <2>2
  <2>6. thread' = [f EXCEPT ![t].next = n + 1]
    BY <2>1
  <2> HIDE DEF f
  <2>4. thread'[t] = [at |-> "rebuild", next |-> n + 1, view |-> w, dismissal |-> thread[t].dismissal]
    BY <2>3, <2>6
  <2>5. DOMAIN thread' = Threads /\ \A u \in Threads \ {t} : thread'[u] = thread[u]
    BY <2>3, <2>6
  <2> QED
    BY <2>4, <2>5 DEF Moves
<1>5. /\ DOMAIN w = DOMAIN v \cup {part} /\ w[part] = World[part]
      /\ w = [y \in DOMAIN w |-> w[y]]
      /\ \A y \in DOMAIN v : y # part => w[y] = v[y]
  BY DEF With
<1>6. DOMAIN w = {ReadOrder[i] : i \in 1 .. n}
  <2>1. DOMAIN v = {ReadOrder[i] : i \in 1 .. n - 1} /\ n \in 1 .. 7
    BY <1>3 DEF Rebuilding
  <2> HIDE DEF n, v, w
  <2>2. 1 .. n = (1 .. n - 1) \cup {n}
    BY <2>1
  <2>3. {ReadOrder[i] : i \in (1 .. n - 1) \cup {n}} = {ReadOrder[i] : i \in 1 .. n - 1} \cup {ReadOrder[n]}
    OBVIOUS
  <2>4. DOMAIN w = {ReadOrder[i] : i \in 1 .. n - 1} \cup {ReadOrder[n]}
    BY <1>5, <2>1
  <2> QED
    BY <2>2, <2>3, <2>4
<1>7. part \notin DOMAIN v
  <2>1. DOMAIN v = {ReadOrder[i] : i \in 1 .. n - 1} /\ n \in 1 .. 7
    BY <1>3 DEF Rebuilding
  <2> HIDE DEF n, v
  <2>2. \A i \in 1 .. n - 1 : i \in 1 .. 7 /\ i # n
    BY <2>1
  <2> QED
    BY <2>1, <2>2, ReadOrderFacts
<1>8. /\ World.now = clock /\ World.devices.battery = battery /\ World.alerts = alerts
      /\ World.offlineSince = offlineSince /\ World.learned.counts = counts
      /\ World.learned.dismissed = dismissed
  BY DEF World
<1> HIDE DEF n, v, part, w
<1>9. PartsTyped(w)
  <2>1. PartsTyped(v)
    BY <1>3 DEF Rebuilding, v
  <2>2. \A y \in DOMAIN w : \/ y \in DOMAIN v /\ w[y] = v[y]
                          \/ w[y] = World[y]
    <3>1. ASSUME NEW y \in DOMAIN w PROVE (y \in DOMAIN v /\ w[y] = v[y]) \/ w[y] = World[y]
      <4>1. y = part => w[y] = World[y]
        BY <1>5, Zenon
      <4>2. y # part => y \in DOMAIN v /\ w[y] = v[y]
        BY <1>5
      <4> QED
        BY <4>1, <4>2
    <3> QED
      BY <3>1
  <2>3. /\ clock \in Nat /\ alerts \in [Sensors -> AlertRecords]
        /\ offlineSince \in [Devices -> Nat] /\ battery \in [Devices -> 0 .. 100]
        /\ CountsTyped(counts)
    BY <1>2 DEF WorldTyped
  <2>4. /\ "now" \in DOMAIN w => w.now \in Nat
        /\ "devices" \in DOMAIN w => w.devices.battery \in [Devices -> 0 .. 100]
    BY <1>8, <2>1, <2>2, <2>3 DEF PartsTyped
  <2>5. /\ "alerts" \in DOMAIN w => w.alerts \in [Sensors -> AlertRecords]
        /\ "offlineSince" \in DOMAIN w => w.offlineSince \in [Devices -> Nat]
    BY <1>8, <2>1, <2>2, <2>3 DEF PartsTyped
  <2>6. "learned" \in DOMAIN w => CountsTyped(w.learned.counts)
    BY <1>8, <2>1, <2>2, <2>3 DEF PartsTyped
  <2> QED
    BY <2>4, <2>5, <2>6 DEF PartsTyped
<1>10. fresh => \A y \in DOMAIN w : w[y] = World[y]
  BY <1>3, <1>5 DEF Rebuilding, v
<1>11. "learned" \in DOMAIN w => kept \cup thread[t].dismissal \subseteq w.learned.dismissed
  <2>1. kept \subseteq dismissed /\ thread[t].dismissal \subseteq dismissed
    BY <1>3 DEF ShownInv, CandidatesBuilt, Rebuilding
  <2>2. "learned" \in DOMAIN v => kept \cup thread[t].dismissal \subseteq v.learned.dismissed
    BY <1>3 DEF Rebuilding, v
  <2> QED
    BY <1>5, <1>8, <2>1, <2>2
<1>12. n + 1 \in 1 .. 8 /\ (n + 1) - 1 = n
  BY <1>3 DEF n
<1>13. Holds(t)'
  <2>1. Rebuilding(t)'
    <3>1. rebuilder' = t /\ thread[t].dismissal \subseteq dismissed'
      BY <1>1, <1>3 DEF Rebuilding
    <3>2. fresh' => \A y \in DOMAIN w : w[y] = World'[y]
      BY <1>2, <1>10
    <3>3. "learned" \in DOMAIN w => kept' \cup thread[t].dismissal \subseteq w.learned.dismissed
      BY <1>1, <1>11
    <3>4. /\ thread'[t].next = n + 1 /\ thread'[t].view = w /\ thread'[t].dismissal = thread[t].dismissal
      BY <1>4
    <3> QED
      BY <1>4, <1>5, <1>6, <1>9, <1>12, <3>1, <3>2, <3>3, <3>4 DEF Rebuilding
  <2> QED
    BY <1>4, <2>1 DEF Holds
<1> QED
  BY <1>1, <1>2, <1>4, <1>13, MoveShown

\* The view is complete; if it is fresh it is what the rules would read now.
LEMMA PublishShown ==
  ASSUME ShownInv, CreditsInv, NEW t \in Threads, Publish(t), fresh' = fresh
  PROVE  ShownInv'
<1>0. t \in DOMAIN thread /\ DOMAIN thread = Threads
  BY DEF CreditsInv, ThreadsAt
<1>1. /\ UNCHANGED <<worldVars, learnVars, dismissed>> /\ rebuilder' = Nobody
      /\ candidates' = RebuildCore(thread[t].view) /\ kept' = kept \cup thread[t].dismissal
      /\ thread' = [thread EXCEPT ![t] = Idle]
  BY DEF Publish
<1>2. WorldTyped /\ WorldTyped' /\ World' = World /\ drifting' = drifting
  BY <1>1, WorldSame, WorldStays DEF ShownInv
<1>3. Rebuilding(t) /\ thread[t].next = 8 /\ t # Nobody
  BY ReadOrderFacts, InsightsAssumption DEF Publish, ShownInv, Holds
<1> DEFINE v == thread[t].view
<1>4. DOMAIN v = DOMAIN World
  <2>1. DOMAIN v = {ReadOrder[i] : i \in 1 .. 7}
    BY <1>3 DEF Rebuilding
  <2> QED
    BY <2>1, ReadOrderFacts
<1>5. ViewTyped(v)
  <2>1. PartsTyped(v)
    BY <1>3 DEF Rebuilding
  <2>2. {"now", "devices", "alerts", "offlineSince", "learned"} \subseteq DOMAIN v
    BY <1>4 DEF World
  <2> HIDE DEF v
  <2> QED
    BY <2>1, <2>2 DEF PartsTyped, ViewTyped
<1>6. Built(v, RebuildCore(v), Offers(v))
  BY <1>2, <1>5, RebuildBuilds DEF WorldTyped
<1>7. fresh => v = World
  <2>1. v = [y \in DOMAIN v |-> v[y]] /\ World = [y \in DOMAIN World |-> World[y]]
    BY <1>3 DEF Rebuilding, World
  <2>2. fresh => \A y \in DOMAIN v : v[y] = World[y]
    BY <1>3 DEF Rebuilding
  <2> HIDE DEF v
  <2> QED
    BY <1>4, <2>1, <2>2
<1>8. kept' \subseteq v.learned.dismissed
  <2>1. "learned" \in DOMAIN v
    BY <1>4 DEF World
  <2> QED
    BY <1>1, <1>3, <2>1 DEF Rebuilding
<1>9. CandidatesBuilt'
  <2>1. CandidatesType' /\ IsFiniteSet(candidates')
    BY <1>1, <1>6 DEF Built, CandidatesType
  <2>2. kept' \subseteq dismissed'
    BY <1>1, <1>3 DEF ShownInv, CandidatesBuilt, Rebuilding
  <2>3. DismissedStaysAway'
    <3>1. ASSUME NEW c \in candidates' PROVE <<c.id, c.version>> \notin kept'
      <4>1. SpeaksFor(c, WithId(StandingOf(v, Offers(v)), c.id))
        BY <1>1, <1>6 DEF Built
      <4>2. PICK o \in WithId(StandingOf(v, Offers(v)), c.id) : c.version = o.version
        BY <4>1 DEF SpeaksFor
      <4>3. o.id = c.id /\ <<o.id, o.version>> \notin v.learned.dismissed
        BY DEF WithId, StandingOf
      <4> QED
        BY <1>8, <4>2, <4>3
    <3> QED
      BY <3>1 DEF DismissedStaysAway
  <2>4. ASSUME fresh' PROVE Built(World, candidates, Offers(World))'
    <3>1. Built(World, RebuildCore(v), Offers(World))
      BY <1>6, <1>7, <2>4
    <3>2. Offers(World)' = Offers(World)
      BY <1>2, OffersStay
    <3> QED
      BY <1>1, <1>2, <3>1, <3>2
  <2> QED
    BY <2>1, <2>2, <2>3, <2>4 DEF CandidatesBuilt
<1>10. \A u \in Threads : Holds(u)'
  <2>1. Holds(t)'
    BY <1>0, <1>1 DEF Holds, Idle
  <2>2. ASSUME NEW u \in Threads \ {t} PROVE Holds(u)'
    <3>1. Holds(u) /\ thread'[u] = thread[u]
      BY <1>0, <1>1 DEF ShownInv
    <3>2. thread[u].at # "rebuild"
      BY <1>3, <3>1 DEF Holds, Rebuilding
    <3> QED
      BY <1>1, <3>1, <3>2, HoldsOn
  <2> QED
    BY <2>1, <2>2
<1> QED
  BY <1>2, <1>9, <1>10 DEF ShownInv

\* Every step keeps the invariant.
LEMMA ShownStep == ShownInv /\ CreditsInv /\ [Next]_vars => ShownInv'
<1> SUFFICES ASSUME ShownInv, CreditsInv, [Next]_vars PROVE ShownInv'
  OBVIOUS
<1>1. CreditsInv'
  BY CreditsStep
<1>2. CASE Telemetry /\ fresh' = FALSE
  BY <1>2, TelemetryShown
<1>3. ASSUME NEW t \in Threads, Input(t), fresh' = FALSE PROVE ShownInv'
  BY <1>1, <1>3, InputShown
<1>4. ASSUME NEW t \in Threads, BeginRebuild(t) PROVE ShownInv'
  BY <1>4, BeginShown
<1>5. ASSUME NEW t \in Threads, Other(t), fresh' = fresh PROVE ShownInv'
  BY <1>5, QuietShown, ReadShown, PublishShown DEF Other
<1>6. CASE UNCHANGED vars
  <2>1. UNCHANGED <<worldVars, learnVars, dismissed, kept, candidates, rebuilder, thread, fresh>>
    BY <1>6 DEF vars, engineVars, dismissVars, buildVars
  <2>2. WorldTyped' /\ World' = World /\ drifting' = drifting
    BY <2>1, WorldSame, WorldStays DEF ShownInv
  <2>3. \A t \in Threads : Holds(t)'
    BY <2>1, <2>2, HoldsOn DEF ShownInv
  <2>4. CandidatesBuilt'
    BY <2>1, <2>2, CandidatesStay DEF ShownInv
  <2> QED
    BY <2>2, <2>3, <2>4 DEF ShownInv
<1> QED
  BY <1>2, <1>3, <1>4, <1>5, <1>6 DEF Next

\* A dismissal whose call returned is not undone by a rebuild that had read the
\* dismissals before.  Code: InsightEngine's Dismiss, Rebuild and Add.
THEOREM DismissedStayAway == Spec => []DismissedStaysAway
<1>1. ShownInv => DismissedStaysAway
  BY DEF ShownInv, CandidatesBuilt
<1>2. CreditsInv /\ ShownInv /\ [Next]_vars => (CreditsInv /\ ShownInv)'
  BY CreditsStep, ShownStep
<1> QED
  BY <1>1, <1>2, CreditsStart, ShownStart, PTL DEF Spec

\* The page gets the best of what is suggested.
LEMMA PageGetsBest ==
  ASSUME ShownInv, NEW type
  PROVE  /\ Cardinality(Current(type)) = Min({MaxSuggestions, Cardinality(OfType(type))})
         /\ \A s \in Current(type), r \in OfType(type) \ Current(type) : AtLeast(s.rank, r.rank)
<1> DEFINE S == OfType(type)
           T == TopK(S, MaxSuggestions)
<1>1. S \in SUBSET Suggestions /\ IsFiniteSet(S)
  <2>1. candidates \in SUBSET Suggestions /\ IsFiniteSet(candidates)
    BY DEF ShownInv, CandidatesBuilt, CandidatesType
  <2>2. S \subseteq candidates
    BY DEF OfType
  <2> HIDE DEF S
  <2> QED
    BY <2>1, <2>2, FS_Subset
<1>2. MaxSuggestions \in Nat
  BY InsightsAssumption
<1> HIDE DEF S
<1>3. Best(MaxSuggestions, T, S)
  BY <1>1, <1>2, TopIsBest
<1>4. Cardinality(S) \in Nat
  BY <1>1, FS_CardinalityType
<1> HIDE DEF T
<1>5. Cardinality(T) = Min({MaxSuggestions, Cardinality(S)})
  BY <1>2, <1>3, <1>4, MinPair DEF Best
<1>6. \A s \in T, r \in S \ T : AtLeast(s.rank, r.rank)
  BY <1>3 DEF Best
<1> QED
  BY <1>5, <1>6 DEF Current, S, T

\* When a rebuild has ended and nothing changed since it began, there is one
\* suggestion for each id that the rules offer and nobody dismissed, with the best
\* of its offers and all their sources, and the page gets as many of the best as
\* fit.  Code: InsightEngine's Rebuild, RebuildCore, Add, Merge and Current.
THEOREM BestIsShown == Spec => []BestShown
<1>1. ShownInv => BestShown
  <2> SUFFICES ASSUME ShownInv PROVE BestShown
    OBVIOUS
  <2>1. CandidatesType
    BY DEF ShownInv, CandidatesBuilt
  <2>2. ASSUME fresh, rebuilder = Nobody
        PROVE  /\ {c.id : c \in candidates} = {o.id : o \in Standing}
               /\ \A c \in candidates : SpeaksFor(c, {o \in Standing : o.id = c.id})
    <3>1. Built(World, candidates, Offers(World))
      BY <2>2 DEF ShownInv, CandidatesBuilt
    <3>2. StandingOf(World, Offers(World)) = Standing
      <4>1. DOMAIN Rules(World) = 1 .. 6
        BY DEF Rules
      <4>2. OffersNow = Offers(World)
        BY <4>1 DEF OffersNow, Offers
      <4>3. World.learned.dismissed = dismissed
        BY DEF World
      <4> QED
        BY <4>2, <4>3 DEF StandingOf, Standing
    <3>3. \A c \in candidates : SpeaksFor(c, WithId(Standing, c.id))
      BY <3>1, <3>2 DEF Built
    <3>4. \A c \in candidates : \E o \in Standing : o.id = c.id
      BY <3>3 DEF SpeaksFor, WithId
    <3>5. \A o \in Standing : \E c \in candidates : c.id = o.id
      BY <3>1, <3>2 DEF Built
    <3>6. {c.id : c \in candidates} = {o.id : o \in Standing}
      BY <3>4, <3>5
    <3> QED
      BY <3>3, <3>6 DEF WithId
  <2> QED
    BY <2>1, <2>2, PageGetsBest DEF BestShown
<1>2. CreditsInv /\ ShownInv /\ [Next]_vars => (CreditsInv /\ ShownInv)'
  BY CreditsStep, ShownStep
<1> QED
  BY <1>1, <1>2, CreditsStart, ShownStart, PTL DEF Spec
=============================================================================
