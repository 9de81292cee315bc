-------------------------- MODULE RendezvousProofs --------------------------
(***************************************************************************)
(* Proofs about the dynamic rendezvous, for any number of nodes, rounds    *)
(* and failures: no copy of the record is malformed, what was agreed is    *)
(* never undone, and the members of a round agree on it.                   *)
(*                                                                         *)
(* The argument of the first part is about one record and the one that a   *)
(* node makes of it: _sanitize and every action of the executor keep a     *)
(* record sound and lead to a record that may follow it.                   *)
(***************************************************************************)
EXTENDS Rendezvous, FiniteSetTheorems, TLAPS

Ranking == UNION {[S -> Nat] : S \in SUBSET Nodes}

Record ==
  [round : Nat, complete : BOOLEAN, deadline : {"none", "set", "passed"},
   closed : BOOLEAN, participants : Ranking, waitList : SUBSET Nodes,
   heartbeats : SUBSET Nodes]

\* The record has no dangling entry, and the deadline fits its participants.
Sound(s) ==
  /\ s.heartbeats = Members(s) \cup s.waitList /\ Members(s) \cap s.waitList = {}
  /\ s.complete => Members(s) # {} /\ s.deadline = "none"
  /\ ~s.complete => /\ Cardinality(Members(s)) < MaxNodes
                    /\ (s.deadline # "none" <=> Cardinality(Members(s)) >= MinNodes)

Good(s) == s \in Record /\ Sound(s)

\* t may be written in place of s.
Follows(s, t) ==
  /\ s.closed => t.closed
  /\ t.round = s.round \/ (s.complete /\ t.round = s.round + 1)
  /\ s.complete /\ t.round = s.round =>
       /\ t.complete /\ Members(t) \subseteq Members(s)
       /\ \A n \in Members(t) : t.participants[n] = s.participants[n]

\* The record and the dirty copies of it.
RecordInv ==
  /\ Good(backend)
  /\ dirty \in [Nodes -> {None} \cup [state : Record, beat : BOOLEAN]]
  /\ \A n \in Nodes :
       dirty[n] # None => Good(dirty[n].state) /\ Follows(backend, dirty[n].state)

-----------------------------------------------------------------------------
\* A ranking has a set of nodes as its domain.
LEMMA RankingFacts ==
  /\ \A p \in Ranking : DOMAIN p \subseteq Nodes /\ p \in [DOMAIN p -> Nat]
  /\ \A S \in SUBSET Nodes : \A p \in [S -> Nat] : p \in Ranking
BY DEF Ranking

\* The members of a record are finitely many nodes.
LEMMA MembersFinite ==
  ASSUME NEW s \in Record
  PROVE  /\ Members(s) \subseteq Nodes /\ IsFiniteSet(Members(s))
         /\ Cardinality(Members(s)) \in Nat
         /\ Cardinality(Members(s)) = 0 <=> Members(s) = {}
<1>1. Members(s) \subseteq Nodes
  BY RankingFacts DEF Members, Record
<1>2. IsFiniteSet(Members(s))
  BY <1>1, FS_Subset, RendezvousAssumption
<1> QED
  BY <1>1, <1>2, FS_CardinalityType, FS_EmptySet

\* Removing nodes removes their entries.
LEMMA WithoutFacts ==
  ASSUME NEW s \in Record, NEW gone
  PROVE  /\ Without(s, gone) \in Record
         /\ Members(Without(s, gone)) = Members(s) \ gone
         /\ Without(s, gone).waitList = s.waitList \ gone
         /\ Without(s, gone).heartbeats = s.heartbeats \ gone
         /\ Without(s, gone).round = s.round /\ Without(s, gone).complete = s.complete
         /\ Without(s, gone).deadline = s.deadline /\ Without(s, gone).closed = s.closed
         /\ \A n \in Members(s) \ gone :
              Without(s, gone).participants[n] = s.participants[n]
<1> DEFINE p == Restrict(s.participants, Members(s) \ gone)
<1>1. p = [n \in Members(s) \ gone |-> s.participants[n]]
  BY DEF Restrict
<1>2. p \in Ranking /\ DOMAIN p = Members(s) \ gone
  <2>1. s.participants \in Ranking
    BY DEF Record
  <2>2. p \in [Members(s) \ gone -> Nat] /\ Members(s) \subseteq Nodes
    BY <1>1, <2>1, RankingFacts DEF Members
  <2> QED
    BY <1>1, <2>2, RankingFacts
<1>3. Without(s, gone) =
        [s EXCEPT !.participants = p, !.waitList = @ \ gone, !.heartbeats = @ \ gone]
  BY DEF Without
<1> HIDE DEF p
<1>4. /\ Without(s, gone) \in Record /\ Without(s, gone).participants = p
      /\ Without(s, gone).waitList = s.waitList \ gone
      /\ Without(s, gone).heartbeats = s.heartbeats \ gone
      /\ Without(s, gone).round = s.round /\ Without(s, gone).complete = s.complete
      /\ Without(s, gone).deadline = s.deadline /\ Without(s, gone).closed = s.closed
  BY <1>2, <1>3 DEF Record
<1> QED
  BY <1>1, <1>2, <1>4 DEF Members

\* Removing nodes and _remove_participant_epilogue keep a record sound.
LEMMA EpilogueFacts ==
  ASSUME NEW s, Good(s), NEW gone, NEW t, t = Epilogue(Without(s, gone))
  PROVE  /\ Good(t) /\ Follows(s, t)
         /\ t.complete => s.complete /\ t.round = s.round
<1> DEFINE w == Without(s, gone)
<1>1. s \in Record
  BY DEF Good
<1>2. /\ w \in Record /\ Members(w) = Members(s) \ gone
      /\ w.waitList = s.waitList \ gone /\ w.heartbeats = s.heartbeats \ gone
      /\ w.round = s.round /\ w.complete = s.complete /\ w.deadline = s.deadline
      /\ w.closed = s.closed
      /\ \A n \in Members(w) : w.participants[n] = s.participants[n]
  BY <1>1, WithoutFacts
<1>3. /\ Cardinality(Members(s)) \in Nat /\ Cardinality(Members(w)) \in Nat
      /\ Cardinality(Members(w)) = 0 <=> Members(w) = {}
      /\ Cardinality(Members(w)) \leq Cardinality(Members(s))
  BY <1>1, <1>2, MembersFinite, FS_Subset
<1>4. t = Epilogue(w)
  OBVIOUS
<1>5. MinNodes \in Nat \ {0} /\ MaxNodes \in Nat /\ MinNodes \leq MaxNodes
  BY RendezvousAssumption
<1> HIDE DEF w
<1>6. CASE s.complete /\ Members(w) = {}
  <2>1. t = [w EXCEPT !.complete = FALSE, !.round = @ + 1]
    BY <1>2, <1>4, <1>6 DEF Epilogue
  <2>2. /\ t.complete = FALSE /\ t.round = w.round + 1 /\ t.deadline = w.deadline
        /\ t.closed = w.closed /\ t.participants = w.participants
        /\ t.waitList = w.waitList /\ t.heartbeats = w.heartbeats
    BY <1>2, <2>1 DEF Record
  <2>3. t \in Record
    <3>1. w.round + 1 \in Nat
      BY <1>2 DEF Record
    <3> QED
      BY <1>2, <2>1, <3>1 DEF Record
  <2>4. Members(t) = {} /\ Cardinality(Members(t)) = 0
    BY <1>3, <1>6, <2>2 DEF Members
  <2>5. w.heartbeats = w.waitList /\ w.deadline = "none"
    BY <1>2, <1>6 DEF Good, Sound
  <2>6. Sound(t)
    BY <1>5, <2>2, <2>4, <2>5 DEF Sound
  <2> QED
    BY <1>1, <1>2, <1>6, <2>2, <2>3, <2>6 DEF Good, Follows, Record
<1>7. CASE s.complete /\ Members(w) # {}
  <2>1. t = w
    BY <1>2, <1>4, <1>7 DEF Epilogue
  <2> QED
    BY <1>2, <1>7, <2>1 DEF Good, Sound, Follows
<1>8. CASE ~s.complete /\ Cardinality(Members(w)) < MinNodes
  <2>1. t = [w EXCEPT !.deadline = "none"]
    BY <1>2, <1>4, <1>8 DEF Epilogue
  <2>2. /\ t \in Record /\ Members(t) = Members(w) /\ ~t.complete
        /\ t.round = s.round /\ t.deadline = "none" /\ t.closed = s.closed
        /\ t.waitList = w.waitList /\ t.heartbeats = w.heartbeats
    BY <1>2, <1>8, <2>1 DEF Record, Members
  <2> QED
    BY <1>2, <1>3, <1>5, <1>8, <2>2 DEF Good, Sound, Follows
<1>9. CASE ~s.complete /\ ~(Cardinality(Members(w)) < MinNodes)
  <2>1. t = w
    BY <1>2, <1>4, <1>9 DEF Epilogue
  <2> QED
    BY <1>2, <1>3, <1>5, <1>9, <2>1 DEF Good, Sound, Follows
<1> QED
  BY <1>6, <1>7, <1>8, <1>9

\* _sanitize keeps a record sound; at most it ends a completed round.
LEMMA SanitizeFacts ==
  ASSUME NEW s, Good(s), NEW dead
  PROVE  /\ Good(Sanitize(s, dead)) /\ Follows(s, Sanitize(s, dead))
         /\ Sanitize(s, dead).complete => s.complete /\ Sanitize(s, dead).round = s.round
<1>1. CASE Members(s) \cap dead # {}
  BY <1>1, EpilogueFacts DEF Sanitize
<1>2. CASE Members(s) \cap dead = {}
  <2> DEFINE w == Without(s, dead)
  <2>1. Sanitize(s, dead) = w
    BY <1>2 DEF Sanitize
  <2>2. /\ w \in Record /\ Members(w) = Members(s)
        /\ w.waitList = s.waitList \ dead /\ w.heartbeats = s.heartbeats \ dead
        /\ w.round = s.round /\ w.complete = s.complete /\ w.deadline = s.deadline
        /\ w.closed = s.closed
        /\ \A n \in Members(w) : w.participants[n] = s.participants[n]
    BY <1>2, WithoutFacts DEF Good
  <2> HIDE DEF w
  <2> QED
    BY <1>2, <2>1, <2>2 DEF Good, Sound, Follows
<1> QED
  BY <1>1, <1>2

\* _mark_rendezvous_complete gives every member a rank.
LEMMA MarkCompleteFacts ==
  ASSUME NEW s \in Record, ~s.complete, Members(s) # {},
         s.heartbeats = Members(s) \cup s.waitList, Members(s) \cap s.waitList = {}
  PROVE  Good(MarkComplete(s)) /\ Follows(s, MarkComplete(s))
<1> DEFINE p == [n \in Members(s) |-> Cardinality({m \in Members(s) : m < n})]
           t == MarkComplete(s)
<1>1. p \in Ranking /\ DOMAIN p = Members(s)
  <2>1. ASSUME NEW n \in Members(s)
        PROVE  Cardinality({m \in Members(s) : m < n}) \in Nat
    BY MembersFinite, FS_Subset, FS_CardinalityType
  <2>2. p \in [Members(s) -> Nat]
    BY <2>1
  <2> QED
    BY <2>2, MembersFinite, RankingFacts
<1>2. t = [s EXCEPT !.complete = TRUE, !.deadline = "none", !.participants = p]
  BY DEF MarkComplete
<1> HIDE DEF p, t
<1>3. /\ t \in Record /\ t.complete /\ t.deadline = "none" /\ t.participants = p
      /\ t.round = s.round /\ t.closed = s.closed
      /\ t.waitList = s.waitList /\ t.heartbeats = s.heartbeats
  BY <1>1, <1>2 DEF Record
<1>4. Members(t) = Members(s)
  BY <1>1, <1>3 DEF Members
<1>5. Good(t) /\ Follows(s, t)
  BY <1>3, <1>4 DEF Good, Sound, Follows
<1> QED
  BY <1>5 DEF t

\* _add_to_participants starts the last call with the participant that makes the
\* minimum, and completes the round with the one that makes the maximum.
LEMMA AddFacts ==
  ASSUME NEW s, Good(s), ~s.complete, NEW n \in Nodes, n \notin Members(s)
  PROVE  Good(AddToParticipants(s, n)) /\ Follows(s, AddToParticipants(s, n))
<1> DEFINE P == Members(s) \cup {n}
           q == [m \in P |-> IF m = n THEN 0 ELSE s.participants[m]]
           e == IF Cardinality(P) = MinNodes THEN "set" ELSE s.deadline
           t == [s EXCEPT !.waitList = @ \ {n}, !.heartbeats = @ \cup {n},
                          !.participants = q, !.deadline = e]
<1>1. /\ s \in Record /\ Members(s) \subseteq Nodes /\ IsFiniteSet(Members(s))
      /\ Cardinality(Members(s)) \in Nat
  BY MembersFinite DEF Good
<1>2. Cardinality(P) = Cardinality(Members(s)) + 1
  BY <1>1, FS_AddElement
<1>3. q \in Ranking /\ DOMAIN q = P
  <2>1. s.participants \in [Members(s) -> Nat]
    BY <1>1, RankingFacts DEF Record, Members
  <2>2. q \in [P -> Nat]
    BY <2>1
  <2>3. P \in SUBSET Nodes
    BY <1>1
  <2> QED
    BY <2>2, <2>3, RankingFacts
<1>4. MinNodes \in Nat \ {0} /\ MaxNodes \in Nat /\ MinNodes \leq MaxNodes
  BY RendezvousAssumption
<1>5. /\ Cardinality(Members(s)) < MaxNodes
      /\ s.deadline # "none" <=> Cardinality(Members(s)) >= MinNodes
      /\ s.heartbeats = Members(s) \cup s.waitList /\ Members(s) \cap s.waitList = {}
  BY DEF Good, Sound
<1>6. e \in {"none", "set", "passed"} /\ (e # "none" <=> Cardinality(P) >= MinNodes)
  BY <1>1, <1>2, <1>4, <1>5 DEF Record
<1>7. AddToParticipants(s, n) = IF Cardinality(P) = MaxNodes THEN MarkComplete(t) ELSE t
  BY DEF AddToParticipants
<1> HIDE DEF q, e
<1>8. /\ t \in Record /\ ~t.complete /\ t.deadline = e /\ t.participants = q
      /\ t.round = s.round /\ t.closed = s.closed
      /\ t.waitList = s.waitList \ {n} /\ t.heartbeats = s.heartbeats \cup {n}
  BY <1>1, <1>3, <1>6 DEF Record
<1> HIDE DEF t
<1>9. /\ Members(t) = P /\ t.heartbeats = Members(t) \cup t.waitList
      /\ Members(t) \cap t.waitList = {}
  BY <1>3, <1>5, <1>8 DEF Members
<1>10. CASE Cardinality(P) = MaxNodes
  <2>1. Good(MarkComplete(t)) /\ Follows(t, MarkComplete(t))
    BY <1>8, <1>9, MarkCompleteFacts
  <2> QED
    BY <1>7, <1>8, <1>10, <2>1 DEF Follows
<1>11. CASE Cardinality(P) # MaxNodes
  <2>1. Cardinality(Members(t)) < MaxNodes
    BY <1>1, <1>2, <1>4, <1>5, <1>9, <1>11
  <2>2. t.deadline # "none" <=> Cardinality(Members(t)) >= MinNodes
    BY <1>6, <1>8, <1>9
  <2> QED
    BY <1>7, <1>8, <1>9, <1>11, <2>1, <2>2 DEF Good, Sound, Follows
<1> QED
  BY <1>10, <1>11
-----------------------------------------------------------------------------
\* When the operations choose an action that changes the copy.
Allowed(a, s, n) ==
  \/ a \in {"KEEP_ALIVE", "REMOVE_FROM_PARTICIPANTS", "MARK_RENDEZVOUS_CLOSED"}
  \/ a = "ADD_TO_PARTICIPANTS" /\ ~s.complete /\ n \notin Members(s)
  \/ a = "ADD_TO_WAIT_LIST" /\ n \notin Members(s)
  \/ a = "REMOVE_FROM_WAIT_LIST" /\ n \in s.waitList
  \/ a = "MARK_RENDEZVOUS_COMPLETE" /\ ~s.complete /\ Cardinality(Members(s)) >= MinNodes

Quiet == Errors \cup {"FINISH", "SYNC"}

\* Every action that is allowed keeps the copy sound.
LEMMA ApplyFacts ==
  ASSUME NEW s, Good(s), NEW n \in Nodes, NEW a, Allowed(a, s, n)
  PROVE  Good(Apply(a, s, n)) /\ Follows(s, Apply(a, s, n))
<1>0. s \in Record /\ Sound(s)
  BY DEF Good
<1>1. CASE a = "KEEP_ALIVE"
  <2>1. Apply(a, s, n) = s
    BY <1>1 DEF Apply
  <2> QED
    BY <2>1 DEF Follows
<1>2. CASE a = "REMOVE_FROM_PARTICIPANTS"
  <2>1. Apply(a, s, n) = Epilogue(Without(s, {n}))
    BY <1>2 DEF Apply
  <2> QED
    BY <2>1, EpilogueFacts
<1>3. CASE a = "MARK_RENDEZVOUS_CLOSED"
  <2> DEFINE t == [s EXCEPT !.closed = TRUE]
  <2>1. Apply(a, s, n) = t
    BY <1>3 DEF Apply
  <2>2. /\ t \in Record /\ t.complete = s.complete /\ t.deadline = s.deadline
        /\ t.participants = s.participants /\ t.round = s.round /\ t.closed
        /\ t.waitList = s.waitList /\ t.heartbeats = s.heartbeats
    BY <1>0 DEF Record
  <2> HIDE DEF t
  <2>3. Members(t) = Members(s)
    BY <2>2 DEF Members
  <2> QED
    BY <1>0, <2>1, <2>2, <2>3 DEF Good, Sound, Follows
<1>4. CASE a = "ADD_TO_PARTICIPANTS" /\ ~s.complete /\ n \notin Members(s)
  <2>1. Apply(a, s, n) = AddToParticipants(s, n)
    BY <1>4 DEF Apply
  <2> QED
    BY <1>4, <2>1, AddFacts
<1>5. CASE a = "ADD_TO_WAIT_LIST" /\ n \notin Members(s)
  <2> DEFINE t == [s EXCEPT !.waitList = @ \cup {n}, !.heartbeats = @ \cup {n}]
  <2>1. Apply(a, s, n) = t
    BY <1>5 DEF Apply
  <2>2. /\ t \in Record /\ t.complete = s.complete /\ t.deadline = s.deadline
        /\ t.participants = s.participants /\ t.round = s.round /\ t.closed = s.closed
        /\ t.waitList = s.waitList \cup {n} /\ t.heartbeats = s.heartbeats \cup {n}
    BY <1>0 DEF Record
  <2> HIDE DEF t
  <2>3. Members(t) = Members(s)
    BY <2>2 DEF Members
  <2> QED
    BY <1>0, <1>5, <2>1, <2>2, <2>3 DEF Good, Sound, Follows
<1>6. CASE a = "REMOVE_FROM_WAIT_LIST" /\ n \in s.waitList
  <2>1. Apply(a, s, n) = Without(s, {n})
    BY <1>6 DEF Apply
  <2>2. Members(s) \cap {n} = {}
    BY <1>0, <1>6 DEF Sound
  <2>3. Without(s, {n}) = Sanitize(s, {n})
    BY <2>2 DEF Sanitize
  <2> QED
    BY <2>1, <2>3, SanitizeFacts
<1>7. CASE /\ a = "MARK_RENDEZVOUS_COMPLETE" /\ ~s.complete
           /\ Cardinality(Members(s)) >= MinNodes
  <2>1. Apply(a, s, n) = MarkComplete(s)
    BY <1>7 DEF Apply
  <2>2. Members(s) # {}
    BY <1>0, <1>7, MembersFinite, RendezvousAssumption
  <2> QED
    BY <1>0, <1>7, <2>1, <2>2, MarkCompleteFacts DEF Sound
<1> QED
  BY <1>1, <1>2, <1>3, <1>4, <1>5, <1>6, <1>7 DEF Allowed

\* The operations choose allowed actions only.
LEMMA OpsAllowed ==
  ASSUME NEW s, Good(s), NEW n \in Nodes, NEW b \in BOOLEAN,
         late \in [Nodes -> {"no", "late", "over"}]
  PROVE  /\ ExitOp(s, n) \in Quiet \/ Allowed(ExitOp(s, n), s, n)
         /\ JoinOp(s, n, b) \in Quiet \/ Allowed(JoinOp(s, n, b), s, n)
         /\ CloseOp(s, b) \in Quiet \/ Allowed(CloseOp(s, b), s, n)
         /\ JoinOp(s, n, b) = "FINISH" => s.complete /\ n \in Members(s)
<1>0. late[n] \in {"no", "late", "over"} /\ s.complete \in BOOLEAN /\ s.closed \in BOOLEAN
  BY DEF Good, Record
<1>1. ExitOp(s, n) \in {"FINISH", "ERROR_TIMEOUT", "REMOVE_FROM_PARTICIPANTS"}
  BY <1>0 DEF ExitOp
<1>2. CloseOp(s, b) \in {"FINISH", "ERROR_TIMEOUT", "MARK_RENDEZVOUS_CLOSED"}
  BY <1>0 DEF CloseOp
<1>3. LateJoin(s, n) \in Quiet \ {"FINISH"} \/ Allowed(LateJoin(s, n), s, n)
  BY <1>0 DEF LateJoin, Quiet, Errors, Allowed
<1>4. LateJoin(s, n) # "FINISH"
  BY <1>0 DEF LateJoin
<1>5. CASE s.closed
  BY <1>1, <1>2, <1>5 DEF JoinOp, Quiet, Errors, Allowed
<1>6. CASE ~s.closed /\ s.complete /\ n \in Members(s)
  BY <1>1, <1>2, <1>6 DEF JoinOp, Quiet, Errors, Allowed
<1>7. CASE ~s.closed /\ ~(s.complete /\ n \in Members(s))
  <2>1. JoinOp(s, n, b) =
          IF late[n] # "no" THEN LateJoin(s, n)
          ELSE IF s.complete /\ Cardinality(Members(s)) < MaxNodes /\ n \notin s.waitList
          THEN "ADD_TO_WAIT_LIST"
          ELSE IF ~s.complete /\ n \notin Members(s) THEN "ADD_TO_PARTICIPANTS"
          ELSE IF /\ ~s.complete /\ Cardinality(Members(s)) >= MinNodes
                  /\ s.deadline = "passed"
          THEN "MARK_RENDEZVOUS_COMPLETE"
          ELSE IF b THEN "KEEP_ALIVE" ELSE "SYNC"
    BY <1>7 DEF JoinOp
  <2> QED
    BY <1>0, <1>1, <1>2, <1>3, <1>4, <1>7, <2>1 DEF Quiet, Errors, Allowed
<1> QED
  BY <1>5, <1>6, <1>7

-----------------------------------------------------------------------------
\* What _sanitize and the action after it lead to may follow what was read.
LEMMA FollowsTwice ==
  ASSUME NEW s \in Record, NEW t \in Record, NEW u \in Record,
         Follows(s, t), Follows(t, u), t.complete => s.complete /\ t.round = s.round
  PROVE  Follows(s, u)
BY DEF Follows, Record

\* The copy that an operation decides on is sound.
LEMMA ViewFacts ==
  ASSUME RecordInv, NEW n \in Nodes
  PROVE  /\ Good(Stored(n)) /\ Follows(backend, Stored(n))
         /\ Good(View(n)) /\ Follows(Stored(n), View(n))
         /\ View(n).complete => Stored(n).complete /\ View(n).round = Stored(n).round
<1>1. Good(Stored(n)) /\ Follows(backend, Stored(n))
  <2>1. Follows(backend, backend)
    BY DEF Follows
  <2> QED
    BY <2>1 DEF Stored, RecordInv
<1> QED
  BY <1>1, SanitizeFacts DEF View

\* sync() writes a copy that may follow the record, because the token of a dirty
\* copy is that of the record it was made from.
LEMMA SyncKeeps ==
  ASSUME RecordInv, NEW n \in Nodes, NEW new, Sync(n, new),
         \/ new = None
         \/ /\ new \in [state : Record, beat : BOOLEAN]
            /\ Good(new.state) /\ Follows(Stored(n), new.state)
  PROVE  RecordInv' /\ Follows(backend, backend') /\ expired' \subseteq backend'.heartbeats
<1>1. Good(Stored(n)) /\ Follows(backend, Stored(n))
  BY ViewFacts
<1>2. /\ backend' = Stored(n) /\ expired' = Dead(n)
      /\ dirty' = [m \in Nodes |-> IF m = n THEN new
                                   ELSE IF dirty[n] = None THEN dirty[m] ELSE None]
  BY DEF Sync
<1>3. dirty' \in [Nodes -> {None} \cup [state : Record, beat : BOOLEAN]]
  BY <1>2 DEF RecordInv
<1>4. ASSUME NEW m \in Nodes, dirty'[m] # None
      PROVE  Good(dirty'[m].state) /\ Follows(backend', dirty'[m].state)
  <2>1. CASE m = n
    BY <1>2, <1>4, <2>1
  <2>2. CASE m # n
    <3>1. dirty[n] = None /\ dirty'[m] = dirty[m]
      BY <1>2, <1>4, <2>2
    <3>2. backend' = backend
      BY <1>2, <3>1 DEF Stored
    <3> QED
      BY <1>4, <3>1, <3>2 DEF RecordInv
  <2> QED
    BY <2>1, <2>2
<1>5. RecordInv'
  BY <1>1, <1>2, <1>3, <1>4 DEF RecordInv
<1>6. expired' \subseteq backend'.heartbeats
  BY <1>2 DEF Dead
<1> QED
  BY <1>1, <1>2, <1>5, <1>6

\* One iteration of run() with an action that the operation may choose.
LEMMA ProceedKeeps ==
  ASSUME RecordInv, NEW n \in Nodes, NEW a, Proceed(n, View(n), a),
         a \in Quiet \/ Allowed(a, View(n), n)
  PROVE  RecordInv' /\ Follows(backend, backend') /\ expired' \subseteq backend'.heartbeats
<1>1. CASE a = "SYNC" /\ Sync(n, None)
  BY <1>1, SyncKeeps
<1>2. CASE /\ a \notin Errors \cup {"FINISH", "SYNC"}
           /\ Sync(n, [state |-> Apply(a, View(n), n), beat |-> a \in Beats])
  <2> DEFINE new == [state |-> Apply(a, View(n), n), beat |-> a \in Beats]
  <2>1. Allowed(a, View(n), n)
    BY <1>2 DEF Quiet
  <2>2. Good(Apply(a, View(n), n)) /\ Follows(View(n), Apply(a, View(n), n))
    BY <2>1, ViewFacts, ApplyFacts
  <2>3. Follows(Stored(n), Apply(a, View(n), n))
    BY <2>2, ViewFacts, FollowsTwice DEF Good
  <2>4. /\ new \in [state : Record, beat : BOOLEAN]
        /\ Good(new.state) /\ Follows(Stored(n), new.state)
    BY <2>2, <2>3 DEF Good
  <2>5. Sync(n, new)
    BY <1>2
  <2> HIDE DEF new
  <2> QED
    BY <2>4, <2>5, SyncKeeps
<1> QED
  BY <1>1, <1>2 DEF Proceed

-----------------------------------------------------------------------------
\* The inductive invariant: the records, and the types of the rest.
IInv ==
  /\ RecordInv
  /\ pc \in [Nodes -> Gone \cup {"exit", "join", "gather", "run"}]
  /\ beating \in [Nodes -> BOOLEAN]
  /\ late \in [Nodes -> {"no", "late", "over"}]
  /\ roleInfo \subseteq Nat \X Nat
  /\ expired \subseteq backend.heartbeats /\ stalled \subseteq Nodes

\* The empty record of the first round.
LEMMA InitIInv == Init => IInv
<1> SUFFICES ASSUME Init PROVE IInv
  OBVIOUS
<1>1. <<>> \in Ranking /\ DOMAIN <<>> = {}
  <2>1. <<>> = [n \in {} |-> 0] 
    OBVIOUS
  <2>2. <<>> \in [{} -> Nat] /\ DOMAIN <<>> = {}
    BY <2>1
  <2> QED
    BY <2>2, RankingFacts
<1>2. backend \in Record
  BY <1>1 DEF Init, Record
<1>3. Members(backend) = {} /\ Cardinality(Members(backend)) = 0
  BY <1>1, FS_EmptySet DEF Init, Members
<1>4. Sound(backend)
  BY <1>3, RendezvousAssumption DEF Init, Sound
<1> QED
  BY <1>2, <1>4 DEF Init, IInv, RecordInv, Good, Gone

\* A sync of n that leaves only n's control state and the role_info keys to look at.
LEMMA SyncStep ==
  ASSUME IInv, NEW n \in Nodes,
         RecordInv' /\ Follows(backend, backend') /\ expired' \subseteq backend'.heartbeats,
         pc' = pc \/ \E l \in Gone \cup {"exit", "join", "gather", "run"} :
                       pc' = [pc EXCEPT ![n] = l],
         beating' = beating \/ \E b \in BOOLEAN : beating' = [beating EXCEPT ![n] = b],
         late' = late \/ late' = [late EXCEPT ![n] = "no"],
         roleInfo' \subseteq Nat \X Nat, stalled' = stalled
  PROVE  IInv' /\ Follows(backend, backend')
<1>1. pc' \in [Nodes -> Gone \cup {"exit", "join", "gather", "run"}]
  BY DEF IInv
<1>2. beating' \in [Nodes -> BOOLEAN]
  BY DEF IInv
<1>3. late' \in [Nodes -> {"no", "late", "over"}]
  BY DEF IInv
<1> QED
  BY <1>1, <1>2, <1>3 DEF IInv

\* A step that leaves the record and the copies of it alone.
LEMMA LocalStep ==
  ASSUME IInv, backend' = backend, dirty' = dirty
  PROVE  RecordInv' /\ Follows(backend, backend')
BY DEF IInv, RecordInv, Follows

\* The last call ends in the record and in every copy of it.
LEMMA LastCallKeeps ==
  ASSUME IInv, LastCall
  PROVE  IInv' /\ Follows(backend, backend')
<1> DEFINE Passed(s) == IF s.deadline = "set" THEN [s EXCEPT !.deadline = "passed"] ELSE s
<1>1. /\ backend' = Passed(backend)
      /\ dirty' = [n \in Nodes |-> IF dirty[n] = None THEN None
                                   ELSE [dirty[n] EXCEPT !.state = Passed(@)]]
      /\ UNCHANGED <<pc, beating, late, roleInfo, expired, stalled>>
  BY DEF LastCall, nodeVars
<1>2. ASSUME NEW s, Good(s)
      PROVE  /\ Good(Passed(s)) /\ Passed(s).heartbeats = s.heartbeats
             /\ Passed(s).round = s.round /\ Passed(s).complete = s.complete
             /\ Passed(s).closed = s.closed /\ Passed(s).participants = s.participants
  <2>1. CASE s.deadline = "set"
    <3> DEFINE t == [s EXCEPT !.deadline = "passed"]
    <3>1. /\ t \in Record /\ t.complete = s.complete /\ t.deadline = "passed"
          /\ t.participants = s.participants /\ t.round = s.round /\ t.closed = s.closed
          /\ t.waitList = s.waitList /\ t.heartbeats = s.heartbeats
      BY <1>2 DEF Good, Record
    <3>2. Passed(s) = t
      BY <2>1
    <3> HIDE DEF t
    <3>3. Sound(t)
      BY <1>2, <2>1, <3>1 DEF Good, Sound, Members
    <3> QED
      BY <3>1, <3>2, <3>3 DEF Good
  <2>2. CASE s.deadline # "set"
    BY <1>2, <2>2
  <2> QED
    BY <2>1, <2>2
<1> HIDE DEF Passed
<1>3. ASSUME NEW s, Good(s), NEW t, Good(t), Follows(s, t)
      PROVE  Follows(Passed(s), Passed(t))
  BY <1>2, <1>3 DEF Follows, Members
<1>4. Good(backend') /\ Follows(backend, backend') /\ backend'.heartbeats = backend.heartbeats
  BY <1>1, <1>2 DEF IInv, RecordInv, Follows, Members
<1>5. ASSUME NEW n \in Nodes
      PROVE  /\ dirty'[n] \in {None} \cup [state : Record, beat : BOOLEAN]
             /\ dirty'[n] # None =>
                  Good(dirty'[n].state) /\ Follows(backend', dirty'[n].state)
  <2>1. CASE dirty[n] = None
    BY <1>1, <2>1
  <2>2. CASE dirty[n] # None
    <3>1. /\ dirty[n] \in [state : Record, beat : BOOLEAN]
          /\ Good(dirty[n].state) /\ Follows(backend, dirty[n].state)
      BY <2>2 DEF IInv, RecordInv
    <3>2. dirty'[n] = [dirty[n] EXCEPT !.state = Passed(dirty[n].state)]
      BY <1>1, <2>2
    <3>3. Good(Passed(dirty[n].state)) /\ Passed(dirty[n].state) \in Record
      BY <1>2, <3>1 DEF Good
    <3>4. /\ dirty'[n].state = Passed(dirty[n].state)
          /\ dirty'[n] \in [state : Record, beat : BOOLEAN]
      BY <3>1, <3>2, <3>3
    <3>5. Follows(Passed(backend), Passed(dirty[n].state))
      BY <1>3, <3>1 DEF IInv, RecordInv
    <3> QED
      BY <1>1, <3>3, <3>4, <3>5
  <2> QED
    BY <2>1, <2>2
<1>6. RecordInv'
  <2>1. dirty' \in [Nodes -> {None} \cup [state : Record, beat : BOOLEAN]]
    <3>1. dirty' = [n \in Nodes |-> dirty'[n]]
      BY <1>1
    <3> QED
      BY <1>5, <3>1
  <2> QED
    BY <1>4, <1>5, <2>1 DEF RecordInv
<1> QED
  BY <1>1, <1>4, <1>6 DEF IInv

-----------------------------------------------------------------------------
\* One step of the rendezvous.
LEMMA StepKeeps ==
  ASSUME IInv, [Next]_vars
  PROVE  IInv' /\ Follows(backend, backend')
<1> USE DEF Gone
<1>0. /\ RecordInv /\ late \in [Nodes -> {"no", "late", "over"}]
      /\ roleInfo \subseteq Nat \X Nat /\ stalled \subseteq Nodes
      /\ expired \subseteq backend.heartbeats /\ backend.heartbeats \subseteq Nodes
  BY DEF IInv, RecordInv, Good, Record
<1>1. ASSUME NEW n \in Nodes, Exit(n)
      PROVE  IInv' /\ Follows(backend, backend')
  <2>1. ExitOp(View(n), n) \in Quiet \/ Allowed(ExitOp(View(n), n), View(n), n)
    BY <1>0, ViewFacts, OpsAllowed
  <2>2. /\ Proceed(n, View(n), ExitOp(View(n), n)) \/ Sync(n, None)
        /\ \/ UNCHANGED <<pc, late, beating>>
           \/ Goto(n, "close")
           \/ pc' = [pc EXCEPT ![n] = "join"] /\ UNCHANGED <<late, beating>>
        /\ UNCHANGED <<roleInfo, stalled>>
    BY <1>1 DEF Exit
  <2>3. RecordInv' /\ Follows(backend, backend') /\ expired' \subseteq backend'.heartbeats
    BY <1>0, <2>1, <2>2, ProceedKeeps, SyncKeeps
  <2> QED
    BY <1>0, <2>2, <2>3, SyncStep DEF Goto
<1>2. ASSUME NEW n \in Nodes, Join(n)
      PROVE  IInv' /\ Follows(backend, backend')
  <2>1. PICK due \in BOOLEAN :
          LET s == View(n) a == JoinOp(s, n, due) IN
          \/ Proceed(n, s, a) /\ UNCHANGED <<nodeVars, roleInfo>>
          \/ a \in Errors /\ Sync(n, None) /\ Goto(n, "close") /\ UNCHANGED <<world, roleInfo>>
          \/ /\ a = "FINISH" /\ Sync(n, None) /\ Goto(n, "gather")
             /\ roleInfo' = roleInfo \cup {<<s.round, s.participants[n]>>}
    BY <1>2 DEF Join
  <2>2. /\ JoinOp(View(n), n, due) \in Quiet \/ Allowed(JoinOp(View(n), n, due), View(n), n)
        /\ JoinOp(View(n), n, due) = "FINISH" => n \in Members(View(n))
        /\ View(n) \in Record
    BY <1>0, ViewFacts, OpsAllowed DEF Good
  <2>3. RecordInv' /\ Follows(backend, backend') /\ expired' \subseteq backend'.heartbeats
    BY <1>0, <2>1, <2>2, ProceedKeeps, SyncKeeps
  <2>4. \/ UNCHANGED <<pc, late, beating>>
        \/ Goto(n, "close")
        \/ Goto(n, "gather")
    BY <2>1 DEF nodeVars
  <2>5. roleInfo' \subseteq Nat \X Nat
    <3>1. n \in Members(View(n)) => <<View(n).round, View(n).participants[n]>> \in Nat \X Nat
      BY <2>2, RankingFacts DEF Record, Members
    <3> QED
      BY <1>0, <2>1, <2>2, <3>1
  <2>6. stalled' = stalled
    BY <1>2 DEF Join
  <2> QED
    BY <2>3, <2>4, <2>5, <2>6, SyncStep DEF Goto
<1>3. ASSUME NEW n \in Nodes, Close(n)
      PROVE  IInv' /\ Follows(backend, backend')
  <2>1. PICK over \in BOOLEAN :
          LET s == View(n) a == CloseOp(s, over) IN
          \/ Proceed(n, s, a) /\ UNCHANGED <<pc, late, beating>>
          \/ Sync(n, None) /\ Goto(n, "left")
    BY <1>3 DEF Close
  <2>2. CloseOp(View(n), over) \in Quiet \/ Allowed(CloseOp(View(n), over), View(n), n)
    BY <1>0, ViewFacts, OpsAllowed
  <2>3. RecordInv' /\ Follows(backend, backend') /\ expired' \subseteq backend'.heartbeats
    BY <1>0, <2>1, <2>2, ProceedKeeps, SyncKeeps
  <2>4. UNCHANGED <<roleInfo, stalled>>
    BY <1>3 DEF Close
  <2>5. UNCHANGED <<pc, late, beating>> \/ Goto(n, "left")
    BY <2>1
  <2> QED
    BY <1>0, <2>3, <2>4, <2>5, SyncStep DEF Goto
<1>4. ASSUME NEW n \in Nodes, KeepAlive(n)
      PROVE  IInv' /\ Follows(backend, backend')
  <2> DEFINE new == [state |-> View(n), beat |-> TRUE]
  <2>1. /\ Sync(n, new) \/ Sync(n, None)
        /\ \E b \in BOOLEAN : beating' = [beating EXCEPT ![n] = b]
        /\ UNCHANGED <<pc, late, roleInfo, stalled>>
    BY <1>4 DEF KeepAlive
  <2>2. /\ new \in [state : Record, beat : BOOLEAN]
        /\ Good(new.state) /\ Follows(Stored(n), new.state)
    BY <1>0, ViewFacts DEF Good
  <2> HIDE DEF new
  <2>3. RecordInv' /\ Follows(backend, backend') /\ expired' \subseteq backend'.heartbeats
    BY <1>0, <2>1, <2>2, SyncKeeps
  <2> QED
    BY <1>0, <2>1, <2>3, SyncStep
<1>5. ASSUME NEW n \in Nodes, MonitorWorkers(n)
      PROVE  IInv' /\ Follows(backend, backend')
  <2>1. /\ Sync(n, None) /\ UNCHANGED <<roleInfo, stalled>>
        /\ Goto(n, "exit") \/ UNCHANGED <<pc, late, beating>>
    BY <1>5 DEF MonitorWorkers, Leave, nodeVars
  <2>2. RecordInv' /\ Follows(backend, backend') /\ expired' \subseteq backend'.heartbeats
    BY <1>0, <2>1, SyncKeeps
  <2> QED
    BY <1>0, <2>1, <2>2, SyncStep DEF Goto
<1>6. ASSUME NEW n \in Nodes,
             \/ KeepAliveFails(n) \/ StartWorkers(n) \/ GatherFails(n)
             \/ RestartWorkers(n) \/ FinishRun(n)
      PROVE  IInv' /\ Follows(backend, backend')
  <2>1. /\ UNCHANGED <<backend, dirty, roleInfo, expired, stalled>>
        /\ \/ beating' = [beating EXCEPT ![n] = FALSE] /\ UNCHANGED <<pc, late>>
           \/ pc' = [pc EXCEPT ![n] = "run"] /\ UNCHANGED <<beating, late>>
           \/ Goto(n, "close")
           \/ Goto(n, "exit")
    BY <1>6 DEF KeepAliveFails, StartWorkers, GatherFails, RestartWorkers, FinishRun, Leave
  <2>2. RecordInv' /\ Follows(backend, backend') /\ expired' \subseteq backend'.heartbeats
    BY <1>0, <2>1, LocalStep
  <2> QED
    BY <1>0, <2>1, <2>2, SyncStep DEF Goto
<1>7. ASSUME NEW n \in Nodes, DeadlinePasses(n)
      PROVE  IInv' /\ Follows(backend, backend')
  <2>1. /\ UNCHANGED <<backend, dirty, pc, beating, roleInfo, expired, stalled>>
        /\ late' = [late EXCEPT ![n] = IF @ = "no" THEN "late" ELSE "over"]
    BY <1>7 DEF DeadlinePasses
  <2>2. late' \in [Nodes -> {"no", "late", "over"}]
    BY <1>0, <2>1
  <2> QED
    BY <2>1, <2>2, LocalStep DEF IInv
<1>8. ASSUME NEW n \in Nodes, Expire(n) \/ Stall(n)
      PROVE  IInv' /\ Follows(backend, backend')
  <2>1. /\ UNCHANGED <<backend, dirty, pc, beating, late, roleInfo>>
        /\ n \in backend.heartbeats /\ expired' = expired \cup {n}
        /\ stalled' \subseteq stalled \cup {n}
    BY <1>8 DEF Expire, Stall, nodeVars
  <2> QED
    BY <1>0, <2>1, LocalStep DEF IInv
<1>9. ASSUME NEW n \in Nodes, Crash(n)
      PROVE  IInv' /\ Follows(backend, backend')
  <2>1. /\ UNCHANGED <<backend, roleInfo, expired, stalled>>
        /\ dirty' = [dirty EXCEPT ![n] = None]
        /\ pc' = [pc EXCEPT ![n] = "crashed"] /\ late' = [late EXCEPT ![n] = "no"]
        /\ beating' = [beating EXCEPT ![n] = FALSE]
    BY <1>9 DEF Crash
  <2>2. RecordInv' /\ Follows(backend, backend')
    BY <1>0, <2>1 DEF RecordInv, Follows
  <2> QED
    BY <1>0, <2>1, <2>2, SyncStep
<1>10. CASE UNCHANGED vars
  <2>1. UNCHANGED <<backend, dirty, pc, beating, late, roleInfo, expired, stalled>>
    BY <1>10 DEF vars, nodeVars
  <2> QED
    BY <2>1, LocalStep DEF IInv
<1> QED
  BY <1>1, <1>2, <1>3, <1>4, <1>5, <1>6, <1>7, <1>8, <1>9, <1>10, LastCallKeeps
  DEF Next, Operation

\* The records stay sound and every one may follow the one before it, whatever
\* the nodes, the timeouts and the failures do.
THEOREM Records == Spec => []IInv
<1>1. IInv /\ [Next]_vars => IInv'
  BY StepKeeps
<1> QED
  BY <1>1, InitIInv, PTL DEF Spec

\* No copy of the record makes an operation of dynamic_rendezvous.py raise
\* KeyError or TypeError, and no round stays open when it is full or complete
\* when it is empty.
THEOREM RecordsSound == Spec => []StateSound
<1>1. IInv => StateSound
  <2> SUFFICES ASSUME IInv PROVE StateSound
    OBVIOUS
  <2>1. ASSUME NEW s \in States
        PROVE  Good(s)
    BY DEF States, IInv, RecordInv
  <2>2. ASSUME NEW s \in States
        PROVE  /\ s.round \in Nat /\ s.deadline \in {"none", "set", "passed"}
               /\ {s.complete, s.closed} \subseteq BOOLEAN
               /\ s.waitList \cup s.heartbeats \cup Members(s) \subseteq Nodes
    BY <2>1, MembersFinite DEF Good, Record
  <2>3. TypeOK
    BY <2>2 DEF TypeOK, IInv
  <2> QED
    BY <2>1, <2>3 DEF StateSound, Good, Sound
<1> QED
  BY <1>1, Records, PTL

\* What the compare-and-set of the backend protects: a node that writes an old
\* copy cannot reopen a closed rendezvous, skip or repeat a round, or change the
\* members and ranks of a completed one.
THEOREM AgreementKept == Spec => NothingUndone
<1>1. IInv /\ [Next]_vars => Follows(backend, backend')
  BY StepKeeps
<1>2. Follows(backend, backend') =>
        [/\ backend.closed => backend'.closed
         /\ \/ backend'.round = backend.round
            \/ backend.complete /\ backend'.round = backend.round + 1
         /\ backend.complete /\ backend'.round = backend.round =>
              /\ backend'.complete /\ Members(backend') \subseteq Members(backend)
              /\ \A n \in Members(backend') :
                   backend'.participants[n] = backend.participants[n]]_vars
  BY DEF Follows
<1> QED
  BY <1>1, <1>2, Records, PTL DEF Spec, NothingUndone

-----------------------------------------------------------------------------
(***************************************************************************)
(* The record and the nodes: the world a node got from next_rendezvous()   *)
(* is that of the round, and no two rounds run at once, unless a member    *)
(* has failed, stopped or was too slow.                                    *)
(*                                                                         *)
(* A member of the record was removed only by itself or with an expired    *)
(* heartbeat, and a node that restarts removes itself only after every     *)
(* member of the round set its role_info key, that is, after every member  *)
(* left next_rendezvous().                                                 *)
(***************************************************************************)

\* The ranks of a round: 0 to size - 1, one for each of MinNodes..MaxNodes members.
Ranked(P) ==
  /\ P \in Ranking /\ Cardinality(DOMAIN P) \in MinNodes..MaxNodes
  /\ {P[m] : m \in DOMAIN P} = 0..(Cardinality(DOMAIN P) - 1)
  /\ \A m, k \in DOMAIN P : P[m] = P[k] => m = k

\* m has failed, stopped, or was taken for dead.
Failed(m) == pc[m] \in Gone \/ m \in stalled

\* A member of round r may have left it: some member has failed, or every
\* member has set its key.
Excused(r) ==
  \/ \E m \in DOMAIN formed[r] : Failed(m)
  \/ \A k \in 0..(Cardinality(DOMAIN formed[r]) - 1) : <<r, k>> \in roleInfo

\* Member m of the completed round of s has set its key.
Keyed(s, m) ==
  s.complete /\ m \in Members(s) /\ <<s.round, s.participants[m]>> \in roleInfo

\* The members of a completed record are those of its round, without some that
\* may have left; a round that is not stored yet has its ranks.
Agrees(s) ==
  s.complete =>
    IF s.round \in DOMAIN formed
    THEN LET P == formed[s.round] IN
         /\ Members(s) \subseteq DOMAIN P /\ \A m \in Members(s) : s.participants[m] = P[m]
         /\ Members(s) # DOMAIN P => Excused(s.round)
    ELSE Ranked(s.participants)

\* What a record says of node m, depending on what m does.
NodeOf(s, m) ==
  /\ Active(m) /\ m \in Members(s) => s.complete /\ s.round = world[m].round
  /\ Active(m) /\ m \notin stalled => m \in Members(s)
  /\ pc[m] = "exit" /\ m \in Members(s) =>
       s.complete /\ s.round \in DOMAIN formed /\ Excused(s.round)
  /\ pc[m] = "join" /\ Keyed(s, m) => m \in expired

RecordOf(s) == Agrees(s) /\ \A m \in Nodes : NodeOf(s, m)

\* The copy of node n: it removed others only with an expired heartbeat, a new
\* round in it has no other member, and in a round that n joined before it has
\* removed itself.
CopyOf(n) ==
  LET s == dirty[n].state IN
  dirty[n] # None =>
    /\ s.round # backend.round => Members(s) \subseteq {n}
    /\ \A m \in Members(backend) \ Members(s) : m = n \/ Failed(m)
    /\ pc[n] = "join" => ~Keyed(s, n)

\* The rounds that have completed.
FormedInv ==
  /\ \A r \in DOMAIN formed :
       /\ r \in Nat /\ Ranked(formed[r])
       /\ r < backend.round \/ (r = backend.round /\ backend.complete)
  /\ backend.complete => backend.round \in DOMAIN formed
  /\ \A x \in roleInfo : x[1] \in DOMAIN formed

\* The world that node n got.
WorldOf(n) ==
  Active(n) =>
    LET P == formed[world[n].round] size == Cardinality(DOMAIN P) IN
    /\ world[n].round \in DOMAIN formed /\ n \in DOMAIN P /\ world[n].rank = P[n]
    /\ \/ world[n].size = size
       \/ world[n].size \in Nat /\ world[n].size < size /\ \E m \in DOMAIN P : Failed(m)
    /\ pc[n] = "run" => Excused(world[n].round)

WInv ==
  /\ FormedInv
  /\ RecordOf(backend)
  /\ \A n \in Nodes : dirty[n] # None => RecordOf(dirty[n].state)
  /\ \A n \in Nodes : CopyOf(n) /\ WorldOf(n)
  /\ \A m \in expired : Failed(m)

-----------------------------------------------------------------------------
\* The ranks of _mark_rendezvous_complete, which follow the order of the
\* descriptors, are 0 to size - 1 and differ.
LEMMA RanksOfOrder ==
  ASSUME NEW S \in SUBSET Nodes, NEW p, p = [n \in S |-> Cardinality({m \in S : m < n})],
         Cardinality(S) \in MinNodes..MaxNodes
  PROVE  Ranked(p)
<1>0. /\ IsFiniteSet(S) /\ S \subseteq Nat /\ DOMAIN p = S
      /\ Cardinality(S) \in Nat /\ Cardinality(S) # 0
  <2>1. IsFiniteSet(S) /\ S \subseteq Nat
    BY FS_Subset, RendezvousAssumption
  <2>2. Cardinality(S) \in Nat
    BY <2>1, FS_CardinalityType
  <2>3. Cardinality(S) # 0
    BY <2>2, RendezvousAssumption
  <2> QED
    BY <2>1, <2>2, <2>3
<1> DEFINE Below(n) == {m \in S : m < n}
<1>1. ASSUME NEW n \in S
      PROVE  /\ IsFiniteSet(Below(n)) /\ Cardinality(Below(n)) \in Nat
             /\ Cardinality(Below(n)) < Cardinality(S)
  <2>1. Below(n) \in SUBSET S
    OBVIOUS
  <2>2. n \notin Below(n)
    BY <1>0
  <2>3. IsFiniteSet(Below(n)) /\ Cardinality(Below(n)) \leq Cardinality(S)
        /\ (Cardinality(S) = Cardinality(Below(n)) => S = Below(n))
    BY <1>0, <2>1, FS_Subset
  <2>4. Cardinality(Below(n)) \in Nat
    BY <2>3, FS_CardinalityType
  <2> QED
    BY <1>0, <2>2, <2>3, <2>4
<1>2. ASSUME NEW n \in S, NEW k \in S, n < k
      PROVE  Cardinality(Below(n)) < Cardinality(Below(k))
  <2>1. Below(n) \in SUBSET Below(k)
    <3>1. \A m \in S : m < n => m < k
      BY <1>0, <1>2
    <3> QED
      BY <3>1
  <2>2. n \in Below(k) /\ n \notin Below(n)
    BY <1>0, <1>2
  <2>3. /\ Cardinality(Below(n)) \leq Cardinality(Below(k))
        /\ Cardinality(Below(k)) = Cardinality(Below(n)) => Below(k) = Below(n)
    BY <1>1, <2>1, FS_Subset
  <2>4. Cardinality(Below(n)) # Cardinality(Below(k))
    BY <2>2, <2>3
  <2>5. Cardinality(Below(n)) \in Nat /\ Cardinality(Below(k)) \in Nat
    BY <1>1
  <2> QED
    BY <2>3, <2>4, <2>5
<1>3. \A n \in S : p[n] = Cardinality(Below(n))
  OBVIOUS
<1> HIDE DEF Below
<1>4. p \in [S -> 0..(Cardinality(S) - 1)]
  <2>1. \A n \in S : p[n] \in 0..(Cardinality(S) - 1)
    BY <1>0, <1>1, <1>3
  <2>2. p = [n \in S |-> p[n]]
    OBVIOUS
  <2> QED
    BY <2>1, <2>2
<1>5. \A n, k \in S : p[n] = p[k] => n = k
  <2> SUFFICES ASSUME NEW n \in S, NEW k \in S, n # k PROVE p[n] # p[k]
    OBVIOUS
  <2>1. n < k \/ k < n
    BY <1>0
  <2> QED
    BY <1>1, <1>2, <1>3, <2>1
<1>6. p \in Injection(S, 0..(Cardinality(S) - 1))
  BY <1>0, <1>4, <1>5 DEF Injection, IsInjective
<1>7. /\ IsFiniteSet(0..(Cardinality(S) - 1))
      /\ Cardinality(0..(Cardinality(S) - 1)) = Cardinality(S)
  BY <1>0, FS_Interval
<1>8. p \in Surjection(S, 0..(Cardinality(S) - 1))
  BY <1>6, <1>7, FS_Injection
<1>9. {p[m] : m \in DOMAIN p} = 0..(Cardinality(DOMAIN p) - 1)
  <2>1. \A j \in 0..(Cardinality(S) - 1) : \E m \in S : p[m] = j
    BY <1>8 DEF Surjection
  <2>2. \A m \in S : p[m] \in 0..(Cardinality(S) - 1)
    BY <1>4
  <2>3. {p[m] : m \in S} = 0..(Cardinality(S) - 1)
    BY <2>1, <2>2
  <2> QED
    BY <1>0, <2>3
<1>10. p \in Ranking
  <2>1. p \in [S -> Nat]
    BY <1>0, <1>4
  <2> QED
    BY <2>1, RankingFacts
<1> QED
  BY <1>0, <1>5, <1>9, <1>10 DEF Ranked

\* Removing nodes from a record, with the epilogue if a member is removed.
LEMMA RemovedMembers ==
  ASSUME NEW s, Good(s), NEW gone, NEW t,
         t = Sanitize(s, gone) \/ t = Epilogue(Without(s, gone))
  PROVE  /\ Members(t) = Members(s) \ gone
         /\ \A m \in Members(t) : t.participants[m] = s.participants[m]
         /\ t.complete => s.complete /\ t.round = s.round
         /\ s.complete /\ Members(t) # {} => t.complete
         /\ t.round # s.round => s.complete /\ t.round = s.round + 1 /\ Members(t) = {}
         /\ t.heartbeats = s.heartbeats \ gone
<1> DEFINE w == Without(s, gone)
<1>1. /\ w \in Record /\ Members(w) = Members(s) \ gone
      /\ w.waitList = s.waitList \ gone /\ w.heartbeats = s.heartbeats \ gone
      /\ w.round = s.round /\ w.complete = s.complete
      /\ \A n \in Members(w) : w.participants[n] = s.participants[n]
  BY WithoutFacts DEF Good
<1>2. t = w \/ t = Epilogue(w)
  BY DEF Sanitize
<1>3. t = w /\ ~(t = Epilogue(w)) => Members(s) \cap gone = {}
  BY DEF Sanitize
<1>4. s.complete => Members(s) # {}
  BY DEF Good, Sound
<1> HIDE DEF w
<1>5. CASE t = w
  BY <1>1, <1>5
<1>6. CASE t = Epilogue(w)
  <2>1. \/ t = w
        \/ w.complete /\ Members(w) = {} /\ t = [w EXCEPT !.complete = FALSE, !.round = @ + 1]
        \/ ~w.complete /\ t = [w EXCEPT !.deadline = "none"]
    BY <1>6 DEF Epilogue
  <2>2. CASE w.complete /\ Members(w) = {} /\ t = [w EXCEPT !.complete = FALSE, !.round = @ + 1]
    <3>1. /\ t.complete = FALSE /\ t.round = w.round + 1 /\ t.participants = w.participants
          /\ t.heartbeats = w.heartbeats
      BY <1>1, <2>2 DEF Record
    <3>2. Members(t) = Members(w)
      BY <3>1 DEF Members
    <3> QED
      BY <1>1, <2>2, <3>1, <3>2
  <2>3. CASE ~w.complete /\ t = [w EXCEPT !.deadline = "none"]
    <3>1. /\ t.complete = w.complete /\ t.round = w.round /\ t.participants = w.participants
          /\ t.heartbeats = w.heartbeats
      BY <1>1, <2>3 DEF Record
    <3>2. Members(t) = Members(w)
      BY <3>1 DEF Members
    <3> QED
      BY <1>1, <2>3, <3>1, <3>2
  <2> QED
    BY <1>5, <2>1, <2>2, <2>3
<1> QED
  BY <1>2, <1>5, <1>6

\* Completing a record gives its members their ranks.
LEMMA MarkedMembers ==
  ASSUME NEW s \in Record, ~s.complete, Cardinality(Members(s)) \in MinNodes..MaxNodes
  PROVE  LET t == MarkComplete(s) IN
         /\ t.complete /\ t.round = s.round /\ Members(t) = Members(s)
         /\ Ranked(t.participants)
<1> DEFINE p == [n \in Members(s) |-> Cardinality({m \in Members(s) : m < n})]
           t == MarkComplete(s)
<1>1. t = [s EXCEPT !.complete = TRUE, !.deadline = "none", !.participants = p]
  BY DEF MarkComplete
<1>2. DOMAIN p = Members(s)
  OBVIOUS
<1>3. Ranked(p)
  BY MembersFinite, RanksOfOrder
<1> HIDE DEF p, t
<1>4. t.complete /\ t.round = s.round /\ t.participants = p
  BY <1>1 DEF Record
<1>5. Members(t) = Members(s)
  BY <1>2, <1>4 DEF Members
<1>6. t.complete /\ t.round = s.round /\ Members(t) = Members(s) /\ Ranked(t.participants)
  BY <1>3, <1>4, <1>5
<1> QED
  BY <1>6 DEF t

\* Who is in the record that node n makes of s.
LEMMA AppliedMembers ==
  ASSUME NEW s, Good(s), NEW n \in Nodes, NEW a, Allowed(a, s, n), NEW t, t = Apply(a, s, n)
  PROVE  \/ /\ a \in {"KEEP_ALIVE", "ADD_TO_WAIT_LIST", "REMOVE_FROM_WAIT_LIST",
                      "MARK_RENDEZVOUS_CLOSED"}
            /\ t.complete = s.complete /\ t.round = s.round /\ Members(t) = Members(s)
            /\ \A m \in Members(t) : t.participants[m] = s.participants[m]
         \/ /\ a = "REMOVE_FROM_PARTICIPANTS"
            /\ Members(t) = Members(s) \ {n}
            /\ \A m \in Members(t) : t.participants[m] = s.participants[m]
            /\ t.complete => s.complete /\ t.round = s.round
            /\ s.complete /\ Members(t) # {} => t.complete
            /\ t.round # s.round => s.complete /\ t.round = s.round + 1 /\ Members(t) = {}
         \/ /\ a \in {"ADD_TO_PARTICIPANTS", "MARK_RENDEZVOUS_COMPLETE"}
            /\ ~s.complete /\ t.round = s.round
            /\ Members(t) \in {Members(s), Members(s) \cup {n}}
            /\ a = "MARK_RENDEZVOUS_COMPLETE" => Members(t) = Members(s)
            /\ t.complete => Ranked(t.participants)
<1>0. s \in Record /\ Sound(s)
  BY DEF Good
<1>1. CASE a = "KEEP_ALIVE"
  BY <1>1 DEF Apply
<1>2. CASE a = "REMOVE_FROM_PARTICIPANTS"
  <2>0. PICK gone : gone = {n}
    OBVIOUS
  <2>1. t = Epilogue(Without(s, gone))
    BY <1>2, <2>0 DEF Apply
  <2>2. /\ Members(t) = Members(s) \ gone
        /\ \A m \in Members(t) : t.participants[m] = s.participants[m]
        /\ t.complete => s.complete /\ t.round = s.round
        /\ s.complete /\ Members(t) # {} => t.complete
        /\ t.round # s.round => s.complete /\ t.round = s.round + 1 /\ Members(t) = {}
    BY <2>1, RemovedMembers
  <2> QED
    BY <1>2, <2>0, <2>2
<1>3. CASE a = "MARK_RENDEZVOUS_CLOSED"
  <2>1. t = [s EXCEPT !.closed = TRUE]
    BY <1>3 DEF Apply
  <2>2. t.complete = s.complete /\ t.participants = s.participants /\ t.round = s.round
    BY <1>0, <2>1 DEF Record
  <2> QED
    BY <1>3, <2>2 DEF Members
<1>4. CASE a = "ADD_TO_WAIT_LIST" /\ n \notin Members(s)
  <2>1. t = [s EXCEPT !.waitList = @ \cup {n}, !.heartbeats = @ \cup {n}]
    BY <1>4 DEF Apply
  <2>2. t.complete = s.complete /\ t.participants = s.participants /\ t.round = s.round
    BY <1>0, <2>1 DEF Record
  <2> QED
    BY <1>4, <2>2 DEF Members
<1>5. CASE a = "REMOVE_FROM_WAIT_LIST" /\ n \in s.waitList
  <2>1. t = Without(s, {n})
    BY <1>5 DEF Apply
  <2>2. n \notin Members(s)
    BY <1>0, <1>5 DEF Sound
  <2>3. /\ Members(t) = Members(s) \ {n} /\ t.complete = s.complete /\ t.round = s.round
        /\ \A m \in Members(s) \ {n} : t.participants[m] = s.participants[m]
    BY <1>0, <2>1, WithoutFacts
  <2>4. Members(t) = Members(s)
    BY <2>2, <2>3
  <2> QED
    BY <1>5, <2>3, <2>4
<1>6. CASE /\ a = "MARK_RENDEZVOUS_COMPLETE" /\ ~s.complete
           /\ Cardinality(Members(s)) >= MinNodes
  <2>1. t = MarkComplete(s)
    BY <1>6 DEF Apply
  <2>2. Cardinality(Members(s)) \in MinNodes..MaxNodes
    BY <1>0, <1>6, MembersFinite, RendezvousAssumption DEF Sound
  <2> QED
    BY <1>0, <1>6, <2>1, <2>2, MarkedMembers
<1>7. CASE a = "ADD_TO_PARTICIPANTS" /\ ~s.complete /\ n \notin Members(s)
  <2> DEFINE P == Members(s) \cup {n}
             q == [m \in P |-> IF m = n THEN 0 ELSE s.participants[m]]
             e == IF Cardinality(P) = MinNodes THEN "set" ELSE s.deadline
             u == [s EXCEPT !.waitList = @ \ {n}, !.heartbeats = @ \cup {n},
                            !.participants = q, !.deadline = e]
  <2>1. t = IF Cardinality(P) = MaxNodes THEN MarkComplete(u) ELSE u
    BY <1>7 DEF Apply, AddToParticipants
  <2>2. q \in Ranking /\ DOMAIN q = P
    <3>1. Members(s) \subseteq Nodes /\ s.participants \in [Members(s) -> Nat]
      BY <1>0, MembersFinite, RankingFacts DEF Record, Members
    <3>2. q \in [P -> Nat] /\ P \in SUBSET Nodes
      BY <3>1
    <3> QED
      BY <3>2, RankingFacts
  <2>3. e \in {"none", "set", "passed"}
    BY <1>0 DEF Record
  <2> HIDE DEF q, e
  <2>4. /\ u \in Record /\ u.complete = s.complete /\ u.round = s.round
        /\ u.participants = q
    BY <1>0, <2>2, <2>3 DEF Record
  <2> HIDE DEF u
  <2>5. Members(u) = P
    BY <2>2, <2>4 DEF Members
  <2>6. CASE Cardinality(P) = MaxNodes
    <3>1. Cardinality(Members(u)) \in MinNodes..MaxNodes
      BY <2>5, <2>6, RendezvousAssumption
    <3>2. /\ t.complete /\ t.round = u.round /\ Members(t) = Members(u)
          /\ Ranked(t.participants)
      BY <1>7, <2>1, <2>4, <2>6, <3>1, MarkedMembers
    <3> QED
      BY <1>7, <2>4, <2>5, <3>2
  <2>7. CASE Cardinality(P) # MaxNodes
    BY <1>7, <2>1, <2>4, <2>5, <2>7
  <2> QED
    BY <2>6, <2>7
<1> QED
  BY <1>1, <1>2, <1>3, <1>4, <1>5, <1>6, <1>7 DEF Allowed

-----------------------------------------------------------------------------
\* What n's sync() finds: the record it writes or reads, and the nodes in it
\* whose heartbeat is too old.
LEMMA StoredFacts ==
  ASSUME IInv, WInv, NEW n \in Nodes, NEW s, s = Stored(n), NEW D, D = Dead(n)
  PROVE  /\ Good(s) /\ Follows(backend, s) /\ RecordOf(s) /\ s \in Record /\ s.round \in Nat
         /\ D \subseteq expired \cap s.heartbeats /\ \A m \in D : Failed(m)
         /\ \A m \in expired \cap s.heartbeats : m \in D \/ (m = n /\ dirty[n] # None)
         /\ Members(s) \subseteq s.heartbeats /\ Members(s) \subseteq Nodes
         /\ ~s.complete => s.round \notin DOMAIN formed
         /\ s.round + 1 \notin DOMAIN formed
         /\ dirty[n] = None => s = backend
         /\ dirty[n] # None => s = dirty[n].state
         /\ pc[n] = "join" /\ Keyed(s, n) => n \in D
<1>1. Good(s) /\ Follows(backend, s)
  BY ViewFacts DEF IInv
<1>2. /\ dirty[n] = None => s = backend
      /\ dirty[n] # None => s = dirty[n].state
  BY DEF Stored
<1>3. RecordOf(s)
  BY <1>2 DEF WInv
<1>4. s \in Record /\ s.round \in Nat /\ Members(s) \subseteq s.heartbeats
  BY <1>1 DEF Good, Sound, Record
<1>5. /\ D \subseteq expired \cap s.heartbeats /\ \A m \in D : Failed(m)
      /\ \A m \in expired \cap s.heartbeats : m \in D \/ (m = n /\ dirty[n] # None)
  BY DEF Dead, WInv
<1>6. /\ ~s.complete => s.round \notin DOMAIN formed
      /\ s.round + 1 \notin DOMAIN formed
  <2>1. backend.round \in Nat /\ backend.complete \in BOOLEAN /\ s.complete \in BOOLEAN
    BY <1>4 DEF IInv, RecordInv, Good, Record
  <2>2. \A r \in DOMAIN formed :
          r \in Nat /\ (r < backend.round \/ (r = backend.round /\ backend.complete))
    BY DEF WInv, FormedInv
  <2>3. /\ s.round = backend.round \/ s.round = backend.round + 1
        /\ backend.complete /\ s.round = backend.round => s.complete
    BY <1>1 DEF Follows
  <2> QED
    BY <1>4, <2>1, <2>2, <2>3
<1>7. pc[n] = "join" /\ Keyed(s, n) => n \in D
  <2> SUFFICES ASSUME pc[n] = "join", Keyed(s, n) PROVE n \in D
    OBVIOUS
  <2>1. dirty[n] = None
    BY <1>2 DEF WInv, CopyOf
  <2>2. n \in expired
    BY <1>3 DEF RecordOf, NodeOf
  <2>3. n \in s.heartbeats
    BY <1>4 DEF Keyed
  <2> QED
    BY <1>5, <2>1, <2>2, <2>3
<1>8. Members(s) \subseteq Nodes
  BY <1>4, MembersFinite
<1> QED
  BY <1>1, <1>2, <1>3, <1>4, <1>5, <1>6, <1>7, <1>8

\* The rounds after the sync.
LEMMA FormedFacts ==
  ASSUME IInv, WInv, NEW n \in Nodes, NEW s, s = Stored(n), formed' = FormedWith(s)
  PROVE  /\ \A r \in DOMAIN formed : r \in DOMAIN formed' /\ formed'[r] = formed[r]
         /\ DOMAIN formed' \subseteq DOMAIN formed \cup {s.round}
         /\ s.complete => s.round \in DOMAIN formed'
         /\ s.round \notin DOMAIN formed /\ s.complete => formed'[s.round] = s.participants
         /\ ~s.complete => formed' = formed
         /\ dirty[n] = None => formed' = formed
<1>1. CASE ~s.complete \/ s.round \in DOMAIN formed
  BY <1>1 DEF FormedWith
<1>2. CASE s.complete /\ s.round \notin DOMAIN formed
  <2>1. formed' = [r \in DOMAIN formed \cup {s.round} |->
                     IF r = s.round THEN s.participants ELSE formed[r]]
    BY <1>2 DEF FormedWith
  <2>2. dirty[n] # None
    BY <1>2 DEF Stored, WInv, FormedInv
  <2> QED
    BY <1>2, <2>1, <2>2
<1> QED
  BY <1>1, <1>2

\* What n sees of the record.
LEMMA SeenFacts ==
  ASSUME IInv, WInv, NEW n \in Nodes, NEW s, s = Stored(n), NEW v, v = View(n),
         NEW D, D = Dead(n)
  PROVE  /\ Good(v) /\ Members(v) = Members(s) \ D
         /\ \A m \in Members(v) : v.participants[m] = s.participants[m]
         /\ v.complete => s.complete /\ v.round = s.round
         /\ s.complete /\ Members(v) # {} => v.complete
         /\ v.round # s.round => s.complete /\ v.round = s.round + 1 /\ Members(v) = {}
         /\ pc[n] = "join" => ~Keyed(v, n)
<1>1. Good(s) /\ Good(v)
  BY ViewFacts DEF IInv
<1>2. v = Sanitize(s, D)
  BY DEF View
<1>3. /\ Members(v) = Members(s) \ D
      /\ \A m \in Members(v) : v.participants[m] = s.participants[m]
      /\ v.complete => s.complete /\ v.round = s.round
      /\ s.complete /\ Members(v) # {} => v.complete
      /\ v.round # s.round => s.complete /\ v.round = s.round + 1 /\ Members(v) = {}
  BY <1>1, <1>2, RemovedMembers
<1>4. pc[n] = "join" => ~Keyed(v, n)
  <2> SUFFICES ASSUME pc[n] = "join", Keyed(v, n) PROVE FALSE
    OBVIOUS
  <2>1. Keyed(s, n) /\ n \notin D
    BY <1>3 DEF Keyed
  <2> QED
    BY <2>1, StoredFacts
<1> QED
  BY <1>1, <1>3, <1>4

\* The ranks of a completed round differ.
LEMMA RankedFacts ==
  ASSUME NEW P, Ranked(P)
  PROVE  /\ \A m, k \in DOMAIN P : P[m] = P[k] => m = k
         /\ \A m \in DOMAIN P : P[m] \in 0..(Cardinality(DOMAIN P) - 1)
         /\ DOMAIN P \subseteq Nodes /\ IsFiniteSet(DOMAIN P) /\ Cardinality(DOMAIN P) \in Nat
<1>1. P \in Ranking /\ Cardinality(DOMAIN P) \in MinNodes..MaxNodes
      /\ \A m, k \in DOMAIN P : P[m] = P[k] => m = k
  BY DEF Ranked
<1>2. {P[m] : m \in DOMAIN P} = 0..(Cardinality(DOMAIN P) - 1)
  BY DEF Ranked
<1>3. DOMAIN P \subseteq Nodes /\ IsFiniteSet(DOMAIN P) /\ Cardinality(DOMAIN P) \in Nat
  <2>1. DOMAIN P \subseteq Nodes
    BY <1>1, RankingFacts
  <2>2. IsFiniteSet(DOMAIN P)
    BY <2>1, FS_Subset, RendezvousAssumption
  <2> QED
    BY <2>1, <2>2, FS_CardinalityType
<1> QED
  BY <1>1, <1>2, <1>3

\* A member stays excused.
LEMMA ExcusedStays ==
  ASSUME NEW r, r \in DOMAIN formed, Excused(r), formed'[r] = formed[r],
         roleInfo \subseteq roleInfo',
         \A m \in DOMAIN formed[r] : Failed(m) => Failed(m)'
  PROVE  Excused(r)'
<1>1. CASE \E m \in DOMAIN formed[r] : Failed(m)
  <2>1. PICK m \in DOMAIN formed[r] : Failed(m)
    BY <1>1
  <2>2. Failed(m)' /\ m \in DOMAIN formed'[r]
    BY <2>1
  <2> QED
    BY <2>2 DEF Excused
<1>2. CASE \A k \in 0..(Cardinality(DOMAIN formed[r]) - 1) : <<r, k>> \in roleInfo
  BY <1>2 DEF Excused
<1> QED
  BY <1>1, <1>2 DEF Excused

\* sync() keeps the invariant if it holds of n in its new place and of what n
\* leaves dirty.
LEMMA SyncWorlds ==
  ASSUME IInv, WInv, NEW n \in Nodes, NEW s, s = Stored(n), NEW v, v = View(n),
         NEW D, D = Dead(n), NEW new, Sync(n, new), stalled' = stalled,
         \A m \in Nodes \ {n} : pc'[m] = pc[m] /\ world'[m] = world[m],
         pc[n] \in Gone => pc'[n] \in Gone,
         \/ roleInfo' = roleInfo
         \/ /\ v.complete /\ n \in Members(v)
            /\ roleInfo' = roleInfo \cup {<<v.round, v.participants[n]>>},
         NodeOf(s, n)',
         \A m \in Nodes \ {n} : \A t : dirty[n] = None /\ dirty[m] # None /\ t = dirty[m].state
                                         => NodeOf(t, n)',
         WorldOf(n)',
         new # None => RecordOf(new.state)' /\ CopyOf(n)'
  PROVE  WInv'
<1>e. /\ backend' = s /\ expired' = D /\ formed' = FormedWith(s)
      /\ dirty' = [m \in Nodes |-> IF m = n THEN new
                                   ELSE IF dirty[n] = None THEN dirty[m] ELSE None]
  BY DEF Sync
<1>s. /\ Good(s) /\ Follows(backend, s) /\ RecordOf(s) /\ s \in Record /\ s.round \in Nat
      /\ D \subseteq expired \cap s.heartbeats /\ \A m \in D : Failed(m)
      /\ \A m \in expired \cap s.heartbeats : m \in D \/ (m = n /\ dirty[n] # None)
      /\ Members(s) \subseteq s.heartbeats /\ Members(s) \subseteq Nodes
      /\ ~s.complete => s.round \notin DOMAIN formed
      /\ s.round + 1 \notin DOMAIN formed
      /\ dirty[n] = None => s = backend
      /\ dirty[n] # None => s = dirty[n].state
  BY StoredFacts
<1>f. /\ \A r \in DOMAIN formed : r \in DOMAIN formed' /\ formed'[r] = formed[r]
      /\ DOMAIN formed' \subseteq DOMAIN formed \cup {s.round}
      /\ s.complete => s.round \in DOMAIN formed'
      /\ s.round \notin DOMAIN formed /\ s.complete => formed'[s.round] = s.participants
      /\ ~s.complete => formed' = formed
      /\ dirty[n] = None => formed' = formed
  BY <1>e, FormedFacts
<1>v. /\ Members(v) = Members(s) \ D
      /\ \A m \in Members(v) : v.participants[m] = s.participants[m]
      /\ v.complete => s.complete /\ v.round = s.round
  BY SeenFacts
<1>m. \A m \in Nodes : Failed(m) => Failed(m)'
  BY DEF Failed
<1>1. FormedInv'
  <2>1. ASSUME NEW r \in DOMAIN formed'
        PROVE  /\ r \in Nat /\ Ranked(formed'[r])
               /\ r < s.round \/ (r = s.round /\ s.complete)
    <3>1. CASE r \in DOMAIN formed
      <4>1. /\ r \in Nat /\ Ranked(formed[r])
            /\ r < backend.round \/ (r = backend.round /\ backend.complete)
        BY <3>1 DEF WInv, FormedInv
      <4>2. /\ s.round = backend.round \/ s.round = backend.round + 1
            /\ backend.complete /\ s.round = backend.round => s.complete
        BY <1>s DEF Follows
      <4>3. backend.round \in Nat
        BY DEF IInv, RecordInv, Good, Record
      <4>4. formed'[r] = formed[r]
        BY <1>f, <3>1
      <4> QED
        BY <4>1, <4>2, <4>3, <4>4, <1>s
    <3>2. CASE r \notin DOMAIN formed
      <4>1. r = s.round /\ s.complete /\ formed'[r] = s.participants
        BY <1>f, <3>2
      <4>2. Ranked(s.participants)
        BY <1>s, <3>2, <4>1 DEF RecordOf, Agrees
      <4> QED
        BY <1>s, <4>1, <4>2
    <3> QED
      BY <3>1, <3>2
  <2>2. \A x \in roleInfo' : x[1] \in DOMAIN formed'
    <3>1. \A x \in roleInfo : x[1] \in DOMAIN formed'
      BY <1>f DEF WInv, FormedInv
    <3>2. v.complete => v.round \in DOMAIN formed'
      BY <1>f, <1>v
    <3> QED
      BY <3>1, <3>2
  <2> QED
    BY <1>e, <1>f, <2>1, <2>2 DEF FormedInv
<1>x. \A r \in DOMAIN formed : Excused(r) => Excused(r)'
  <2> SUFFICES ASSUME NEW r \in DOMAIN formed, Excused(r) PROVE Excused(r)'
    OBVIOUS
  <2>1. DOMAIN formed[r] \subseteq Nodes
    BY RankedFacts DEF WInv, FormedInv
  <2>2. formed'[r] = formed[r] /\ roleInfo \subseteq roleInfo'
    BY <1>f
  <2>3. \A m \in DOMAIN formed[r] : Failed(m) => Failed(m)'
    BY <1>m, <2>1
  <2> QED
    BY <2>2, <2>3, ExcusedStays
<1>2. ASSUME NEW t, RecordOf(t), t = s \/ dirty[n] = None
      PROVE  Agrees(t)'
  <2> SUFFICES ASSUME t.complete PROVE Agrees(t)'
    BY DEF Agrees
  <2>1. Agrees(t)
    BY <1>2 DEF RecordOf
  <2>2. CASE t.round \in DOMAIN formed
    BY <1>f, <1>x, <2>1, <2>2 DEF Agrees
  <2>3. CASE t.round \notin DOMAIN formed /\ t = s
    <3>1. t.round \in DOMAIN formed' /\ formed'[t.round] = t.participants
      BY <1>f, <2>3
    <3> QED
      BY <3>1 DEF Agrees, Members
  <2>4. CASE t.round \notin DOMAIN formed /\ dirty[n] = None
    BY <1>f, <2>1, <2>4 DEF Agrees
  <2> QED
    BY <1>2, <2>2, <2>3, <2>4
<1>a. Agrees(s)'
  BY <1>2, <1>s
<1>k. ASSUME NEW t, Agrees(t)', NEW m \in Nodes \ {n}, Keyed(t, m)'
      PROVE  Keyed(t, m)
  <2>1. t.complete /\ m \in Members(t) /\ <<t.round, t.participants[m]>> \in roleInfo'
    BY <1>k DEF Keyed
  <2>2. CASE <<t.round, t.participants[m]>> \in roleInfo
    BY <2>1, <2>2 DEF Keyed
  <2>3. CASE /\ v.complete /\ n \in Members(v)
             /\ <<t.round, t.participants[m]>> = <<v.round, v.participants[n]>>
    <3> DEFINE P == formed'[s.round]
    <3>1. t.round = s.round /\ s.complete /\ t.participants[m] = s.participants[n]
          /\ n \in Members(s) /\ s.round \in DOMAIN formed'
      BY <1>v, <1>f, <2>3
    <3>2. m \in DOMAIN P /\ t.participants[m] = P[m]
      BY <1>k, <2>1, <3>1 DEF Agrees
    <3>3. n \in DOMAIN P /\ s.participants[n] = P[n]
      BY <1>a, <3>1 DEF Agrees
    <3>4. Ranked(P)
      BY <1>1, <3>1 DEF FormedInv
    <3> HIDE DEF P
    <3>5. \A k, l \in DOMAIN P : P[k] = P[l] => k = l
      BY <3>4, RankedFacts
    <3>6. P[m] = P[n]
      BY <3>1, <3>2, <3>3
    <3>7. m = n
      BY <3>2, <3>3, <3>5, <3>6
    <3> QED
      BY <3>7
  <2> QED
    BY <2>1, <2>2, <2>3
<1>3. ASSUME NEW t, RecordOf(t), t = s \/ dirty[n] = None, NEW m \in Nodes \ {n},
             pc[m] = "join" /\ Keyed(t, m) /\ m \in expired => m \in D
      PROVE  NodeOf(t, m)'
  <2>1. NodeOf(t, m)
    BY <1>3 DEF RecordOf
  <2>2. /\ pc'[m] = pc[m] /\ world'[m] = world[m] /\ stalled' = stalled
        /\ Active(m)' <=> Active(m)
    BY DEF Active
  <2>3. t.complete /\ t.round \in DOMAIN formed /\ Excused(t.round) =>
          t.round \in DOMAIN formed' /\ Excused(t.round)'
    BY <1>f, <1>x
  <2>4. pc[m] = "join" /\ Keyed(t, m)' => m \in D
    BY <1>2, <1>3, <1>k, <2>1 DEF NodeOf
  <2> QED
    BY <1>e, <2>1, <2>2, <2>3, <2>4 DEF NodeOf
<1>4. RecordOf(s)'
  <2>1. ASSUME NEW m \in Nodes \ {n} PROVE NodeOf(s, m)'
    <3>1. m \in expired /\ Keyed(s, m) => m \in D
      BY <1>s DEF Keyed
    <3> QED
      BY <1>3, <1>s, <3>1
  <2> QED
    BY <1>a, <2>1 DEF RecordOf
<1>5. ASSUME NEW m \in Nodes, dirty'[m] # None
      PROVE  RecordOf(dirty[m].state)'
  <2>1. CASE m = n
    BY <1>e, <1>5, <2>1
  <2>2. CASE m # n
    <3>0. PICK t : t = dirty[m].state
      OBVIOUS
    <3>1. dirty[n] = None /\ dirty'[m] = dirty[m] /\ dirty[m] # None
      BY <1>e, <1>5, <2>2
    <3>2. RecordOf(t) /\ s = backend
      BY <1>s, <3>0, <3>1 DEF WInv
    <3>3. D = expired
      BY <1>s, <3>1, <3>2 DEF IInv
    <3>4. \A k \in Nodes \ {n} : NodeOf(t, k)'
      BY <1>3, <3>1, <3>2, <3>3
    <3>5. NodeOf(t, n)'
      BY <2>2, <3>0, <3>1
    <3>6. Agrees(t)'
      BY <1>2, <3>1, <3>2
    <3>7. RecordOf(t)'
      BY <3>4, <3>5, <3>6 DEF RecordOf
    <3> QED
      BY <3>0, <3>1, <3>7
  <2> QED
    BY <2>1, <2>2
<1>6. ASSUME NEW m \in Nodes PROVE CopyOf(m)'
  <2>1. CASE m = n
    <3>1. dirty'[n] = new
      BY <1>e
    <3> QED
      BY <2>1, <3>1 DEF CopyOf
  <2>2. CASE m # n /\ dirty'[m] # None
    <3>0. PICK t : t = dirty[m].state
      OBVIOUS
    <3>1. dirty[n] = None /\ dirty'[m] = dirty[m] /\ dirty[m] # None /\ s = backend
      BY <1>e, <1>s, <2>2
    <3>2. /\ t.round # backend.round => Members(t) \subseteq {m}
          /\ \A k \in Members(backend) \ Members(t) : k = m \/ Failed(k)
          /\ pc[m] = "join" => ~Keyed(t, m)
      BY <3>0, <3>1 DEF WInv, CopyOf
    <3>3. Agrees(t)'
      BY <1>2, <3>0, <3>1 DEF WInv
    <3>4. pc'[m] = "join" => ~Keyed(t, m)'
      BY <1>k, <2>2, <3>2, <3>3
    <3>5. \A k \in Members(backend) \ Members(t) : k = m \/ Failed(k)'
      BY <1>m, <1>s, <3>1, <3>2
    <3>6. backend' = backend /\ dirty'[m].state = t
      BY <1>e, <3>0, <3>1
    <3> QED
      BY <3>2, <3>4, <3>5, <3>6 DEF CopyOf
  <2>3. CASE dirty'[m] = None
    BY <2>3 DEF CopyOf
  <2> QED
    BY <2>1, <2>2, <2>3
<1>7. ASSUME NEW m \in Nodes PROVE WorldOf(m)'
  <2>1. CASE m = n
    BY <2>1
  <2>2. CASE m # n /\ Active(m)
    <3>1. pc'[m] = pc[m] /\ world'[m] = world[m] /\ WorldOf(m)
      BY <2>2 DEF WInv
    <3>2. PICK r, P : r = world[m].round /\ P = formed[r]
      OBVIOUS
    <3>3. /\ r \in DOMAIN formed /\ m \in DOMAIN P /\ world[m].rank = P[m]
          /\ \/ world[m].size = Cardinality(DOMAIN P)
             \/ /\ world[m].size \in Nat /\ world[m].size < Cardinality(DOMAIN P)
                /\ \E k \in DOMAIN P : Failed(k)
          /\ pc[m] = "run" => Excused(r)
      BY <2>2, <3>1, <3>2 DEF WorldOf
    <3>4. r \in DOMAIN formed' /\ formed'[r] = P /\ world'[m].round = r
      BY <1>f, <3>1, <3>2, <3>3
    <3>5. DOMAIN P \subseteq Nodes
      BY <3>2, <3>3, RankedFacts DEF WInv, FormedInv
    <3>6. (\E k \in DOMAIN P : Failed(k)) => (\E k \in DOMAIN P : Failed(k)')
      BY <1>m, <3>5
    <3>7. Excused(r) => Excused(r)'
      BY <1>x, <3>3
    <3> QED
      BY <3>1, <3>3, <3>4, <3>6, <3>7 DEF WorldOf
  <2>3. CASE m # n /\ ~Active(m)
    BY <2>3 DEF WorldOf, Active
  <2> QED
    BY <2>1, <2>2, <2>3
<1>8. \A m \in expired' : Failed(m)'
  <2>1. D \subseteq Nodes
    BY <1>s DEF Record
  <2> QED
    BY <1>e, <1>s, <1>m, <2>1
<1> QED
  BY <1>1, <1>4, <1>5, <1>6, <1>7, <1>8, <1>e DEF WInv

-----------------------------------------------------------------------------
\* The record t that n makes of what it sees: compared to s it lacks dead nodes
\* and perhaps n, and it is the same round or one that has not completed before.
LEMMA MadeMembers ==
  ASSUME IInv, WInv, NEW n \in Nodes, NEW s, s = Stored(n), NEW v, v = View(n),
         NEW D, D = Dead(n), NEW a, Allowed(a, v, n), NEW t, t = Apply(a, v, n)
  PROVE  /\ Members(t) \subseteq (Members(s) \ D) \cup {n}
         /\ \A m \in (Members(s) \ D) \ Members(t) : m = n /\ a = "REMOVE_FROM_PARTICIPANTS"
         /\ \A m \in Members(t) \ (Members(s) \ D) : m = n /\ a = "ADD_TO_PARTICIPANTS"
         /\ a = "REMOVE_FROM_PARTICIPANTS" => n \notin Members(t)
         /\ t.round # s.round => Members(t) \subseteq {n}
         /\ s.complete /\ Members(t) \cap (Members(s) \ D) # {} =>
              v.complete /\ t.complete /\ t.round = s.round
         /\ t.complete =>
              \/ /\ s.complete /\ v.complete /\ t.round = s.round
                 /\ Members(t) \subseteq Members(s) \ D
                 /\ \A m \in Members(t) : t.participants[m] = s.participants[m]
              \/ /\ Ranked(t.participants) /\ t.round \notin DOMAIN formed
                 /\ s.complete => t.round # s.round
<1>v. /\ Good(v) /\ Members(v) = Members(s) \ D
      /\ \A m \in Members(v) : v.participants[m] = s.participants[m]
      /\ v.complete => s.complete /\ v.round = s.round
      /\ s.complete /\ Members(v) # {} => v.complete
      /\ v.round # s.round => s.complete /\ v.round = s.round + 1 /\ Members(v) = {}
  BY SeenFacts
<1>s. /\ s.round \in Nat
      /\ ~s.complete => s.round \notin DOMAIN formed
      /\ s.round + 1 \notin DOMAIN formed
  BY StoredFacts
<1>w. s.complete /\ v.round = s.round => v.complete
  BY ViewFacts DEF IInv, Follows
<1>n. ~v.complete => /\ v.round \notin DOMAIN formed
                     /\ s.complete => v.round # s.round
  BY <1>v, <1>s, <1>w
<1>r. s.round + 1 # s.round
  BY <1>s
<1>a. \/ /\ a \in {"KEEP_ALIVE", "ADD_TO_WAIT_LIST", "REMOVE_FROM_WAIT_LIST",
                   "MARK_RENDEZVOUS_CLOSED"}
         /\ t.complete = v.complete /\ t.round = v.round /\ Members(t) = Members(v)
         /\ \A m \in Members(t) : t.participants[m] = v.participants[m]
      \/ /\ a = "REMOVE_FROM_PARTICIPANTS"
         /\ Members(t) = Members(v) \ {n}
         /\ \A m \in Members(t) : t.participants[m] = v.participants[m]
         /\ t.complete => v.complete /\ t.round = v.round
         /\ v.complete /\ Members(t) # {} => t.complete
         /\ t.round # v.round => v.complete /\ t.round = v.round + 1 /\ Members(t) = {}
      \/ /\ a \in {"ADD_TO_PARTICIPANTS", "MARK_RENDEZVOUS_COMPLETE"}
         /\ ~v.complete /\ t.round = v.round
         /\ Members(t) \in {Members(v), Members(v) \cup {n}}
         /\ a = "MARK_RENDEZVOUS_COMPLETE" => Members(t) = Members(v)
         /\ t.complete => Ranked(t.participants)
  BY <1>v, AppliedMembers
<1>1. CASE /\ a \in {"KEEP_ALIVE", "ADD_TO_WAIT_LIST", "REMOVE_FROM_WAIT_LIST",
                     "MARK_RENDEZVOUS_CLOSED"}
           /\ t.complete = v.complete /\ t.round = v.round /\ Members(t) = Members(v)
           /\ \A m \in Members(t) : t.participants[m] = v.participants[m]
  BY <1>1, <1>v
<1>2. CASE /\ a = "REMOVE_FROM_PARTICIPANTS"
           /\ Members(t) = Members(v) \ {n}
           /\ \A m \in Members(t) : t.participants[m] = v.participants[m]
           /\ t.complete => v.complete /\ t.round = v.round
           /\ v.complete /\ Members(t) # {} => t.complete
           /\ t.round # v.round => v.complete /\ t.round = v.round + 1 /\ Members(t) = {}
  BY <1>2, <1>v
<1>3. CASE /\ a \in {"ADD_TO_PARTICIPANTS", "MARK_RENDEZVOUS_COMPLETE"}
           /\ ~v.complete /\ t.round = v.round
           /\ Members(t) \in {Members(v), Members(v) \cup {n}}
           /\ a = "MARK_RENDEZVOUS_COMPLETE" => Members(t) = Members(v)
           /\ t.complete => Ranked(t.participants)
  BY <1>3, <1>v, <1>n
<1> QED
  BY <1>a, <1>1, <1>2, <1>3

\* What n leaves dirty fits the nodes, if n changes it only as its place allows.
LEMMA MadeFacts ==
  ASSUME IInv, WInv, NEW n \in Nodes, NEW s, s = Stored(n), NEW v, v = View(n),
         NEW D, D = Dead(n), NEW a, Allowed(a, v, n), NEW t, t = Apply(a, v, n),
         NEW new, new.state = t, Sync(n, new),
         UNCHANGED <<pc, world, roleInfo, stalled>>,
         a = "REMOVE_FROM_PARTICIPANTS" =>
           pc[n] = "exit" \/ (pc[n] = "join" /\ ~(v.complete /\ n \in Members(v))),
         a \in {"ADD_TO_PARTICIPANTS", "MARK_RENDEZVOUS_COMPLETE"} => pc[n] = "join",
         pc[n] = "exit" => a = "REMOVE_FROM_PARTICIPANTS"
  PROVE  RecordOf(t)' /\ CopyOf(n)'
<1>e. backend' = s /\ expired' = D /\ formed' = FormedWith(s) /\ dirty'[n] = new
  BY DEF Sync
<1>s. /\ RecordOf(s) /\ s.round \in Nat
      /\ D \subseteq expired \cap s.heartbeats /\ \A m \in D : Failed(m)
      /\ \A m \in expired \cap s.heartbeats : m \in D \/ (m = n /\ dirty[n] # None)
      /\ Members(s) \subseteq s.heartbeats /\ Members(s) \subseteq Nodes
  BY StoredFacts
<1>f. /\ \A r \in DOMAIN formed : r \in DOMAIN formed' /\ formed'[r] = formed[r]
      /\ DOMAIN formed' \subseteq DOMAIN formed \cup {s.round}
      /\ s.complete => s.round \in DOMAIN formed'
      /\ s.round \notin DOMAIN formed /\ s.complete => formed'[s.round] = s.participants
      /\ ~s.complete => formed' = formed
  BY <1>e, FormedFacts
<1>v. /\ Members(v) = Members(s) \ D
      /\ \A m \in Members(v) : v.participants[m] = s.participants[m]
      /\ v.complete => s.complete /\ v.round = s.round
      /\ pc[n] = "join" => ~Keyed(v, n)
  BY SeenFacts
<1>t. /\ Members(t) \subseteq (Members(s) \ D) \cup {n}
      /\ \A m \in (Members(s) \ D) \ Members(t) : m = n /\ a = "REMOVE_FROM_PARTICIPANTS"
      /\ \A m \in Members(t) \ (Members(s) \ D) : m = n /\ a = "ADD_TO_PARTICIPANTS"
      /\ a = "REMOVE_FROM_PARTICIPANTS" => n \notin Members(t)
      /\ t.round # s.round => Members(t) \subseteq {n}
      /\ s.complete /\ Members(t) \cap (Members(s) \ D) # {} =>
           v.complete /\ t.complete /\ t.round = s.round
      /\ t.complete =>
           \/ /\ s.complete /\ v.complete /\ t.round = s.round
              /\ Members(t) \subseteq Members(s) \ D
              /\ \A m \in Members(t) : t.participants[m] = s.participants[m]
           \/ /\ Ranked(t.participants) /\ t.round \notin DOMAIN formed
              /\ s.complete => t.round # s.round
  BY MadeMembers
<1>u. /\ \A m : Failed(m) <=> Failed(m)'
      /\ \A m : Active(m) <=> Active(m)'
      /\ \A m : Keyed(t, m) <=> Keyed(t, m)'
  BY DEF Failed, Active, Keyed
<1>x. \A r \in DOMAIN formed : Excused(r) => Excused(r)'
  <2> SUFFICES ASSUME NEW r \in DOMAIN formed, Excused(r) PROVE Excused(r)'
    OBVIOUS
  <2>1. formed'[r] = formed[r] /\ roleInfo \subseteq roleInfo'
    BY <1>f
  <2> QED
    BY <1>u, <2>1, ExcusedStays
<1>1. Agrees(t)'
  <2> SUFFICES ASSUME t.complete PROVE Agrees(t)'
    BY DEF Agrees
  <2>1. CASE /\ Ranked(t.participants) /\ t.round \notin DOMAIN formed
             /\ s.complete => t.round # s.round
    <3>1. t.round \notin DOMAIN formed'
      BY <1>f, <2>1
    <3> QED
      BY <2>1, <3>1 DEF Agrees
  <2>2. CASE /\ s.complete /\ v.complete /\ t.round = s.round
             /\ Members(t) \subseteq Members(s) \ D
             /\ \A m \in Members(t) : t.participants[m] = s.participants[m]
    <3>0. PICK r, P : r = s.round /\ P = formed'[r]
      OBVIOUS
    <3>1. r \in DOMAIN formed'
      BY <1>f, <2>2, <3>0
    <3>2. /\ Members(s) \subseteq DOMAIN P /\ \A m \in Members(s) : s.participants[m] = P[m]
          /\ Members(s) # DOMAIN P => Excused(r)'
      <4>1. CASE r \in DOMAIN formed
        BY <1>f, <1>s, <1>x, <2>2, <3>0, <4>1 DEF RecordOf, Agrees
      <4>2. CASE r \notin DOMAIN formed
        BY <1>f, <2>2, <3>0, <4>2 DEF Members
      <4> QED
        BY <4>1, <4>2
    <3>3. Members(t) # DOMAIN P => Excused(r)'
      <4> SUFFICES ASSUME Members(t) # DOMAIN P, Members(s) = DOMAIN P PROVE Excused(r)'
        BY <3>2
      <4>1. PICK m \in Members(s) : m \notin Members(t)
        BY <2>2
      <4>2. CASE m \in D
        <5>1. Failed(m)' /\ m \in DOMAIN formed'[r]
          BY <1>s, <1>u, <3>0, <4>1, <4>2
        <5> QED
          BY <5>1 DEF Excused
      <4>3. CASE m \notin D
        <5>1. m = n /\ a = "REMOVE_FROM_PARTICIPANTS" /\ n \in Members(v)
          BY <1>t, <1>v, <4>1, <4>3
        <5>2. pc[n] = "exit"
          BY <2>2, <5>1
        <5>3. s.round \in DOMAIN formed /\ Excused(s.round)
          BY <1>s, <4>1, <5>1, <5>2 DEF RecordOf, NodeOf
        <5> QED
          BY <1>x, <3>0, <5>3
      <4> QED
        BY <4>2, <4>3
    <3>4. Members(t) \subseteq DOMAIN P /\ \A m \in Members(t) : t.participants[m] = P[m]
      BY <2>2, <3>2
    <3> QED
      BY <2>2, <3>0, <3>1, <3>3, <3>4 DEF Agrees
  <2> QED
    BY <1>t, <2>1, <2>2
<1>2. ASSUME NEW m \in Nodes, pc[m] = "join" PROVE ~Keyed(t, m)
  <2> SUFFICES ASSUME Keyed(t, m) PROVE FALSE
    OBVIOUS
  <2>1. t.complete /\ m \in Members(t) /\ <<t.round, t.participants[m]>> \in roleInfo
    BY DEF Keyed
  <2>2. t.round \in DOMAIN formed
    <3>1. <<t.round, t.participants[m]>>[1] \in DOMAIN formed
      BY <2>1 DEF WInv, FormedInv
    <3> QED
      BY <3>1
  <2>3. /\ s.complete /\ v.complete /\ t.round = s.round
        /\ m \in Members(s) /\ m \notin D
        /\ t.participants[m] = s.participants[m]
    BY <1>t, <2>1, <2>2
  <2>4. Keyed(s, m) /\ Keyed(v, m)
    BY <1>v, <2>1, <2>3 DEF Keyed
  <2>5. m # n
    BY <1>2, <1>v, <2>4
  <2>6. m \in expired
    BY <1>2, <1>s, <2>4 DEF RecordOf, NodeOf
  <2> QED
    BY <1>s, <2>3, <2>5, <2>6
<1>3. ASSUME NEW m \in Nodes PROVE NodeOf(t, m)'
  <2>s. NodeOf(s, m)
    BY <1>s DEF RecordOf
  <2>1. Active(m) /\ m \in Members(t) => t.complete /\ t.round = world[m].round
    <3> SUFFICES ASSUME Active(m), m \in Members(t)
                 PROVE  t.complete /\ t.round = world[m].round
      OBVIOUS
    <3>1. m \in Members(s) \ D
      BY <1>t DEF Active
    <3>2. s.complete /\ s.round = world[m].round
      BY <2>s, <3>1 DEF NodeOf
    <3> QED
      BY <1>t, <3>1, <3>2
  <2>2. Active(m) /\ m \notin stalled => m \in Members(t)
    <3> SUFFICES ASSUME Active(m), m \notin stalled PROVE m \in Members(t)
      OBVIOUS
    <3>1. m \in Members(s)
      BY <2>s DEF NodeOf
    <3>2. m \notin D
      BY <1>s DEF Failed, Active, Gone
    <3> QED
      BY <1>t, <3>1, <3>2 DEF Active
  <2>3. pc[m] = "exit" /\ m \in Members(t) =>
          t.complete /\ t.round \in DOMAIN formed' /\ Excused(t.round)'
    <3> SUFFICES ASSUME pc[m] = "exit", m \in Members(t)
                 PROVE  t.complete /\ t.round \in DOMAIN formed' /\ Excused(t.round)'
      OBVIOUS
    <3>1. m \in Members(s) \ D
      BY <1>t
    <3>2. s.complete /\ s.round \in DOMAIN formed /\ Excused(s.round)
      BY <2>s, <3>1 DEF NodeOf
    <3>3. t.complete /\ t.round = s.round
      BY <1>t, <3>1, <3>2
    <3> QED
      BY <1>f, <1>x, <3>2, <3>3
  <2>4. pc[m] = "join" => ~Keyed(t, m)'
    BY <1>2, <1>u
  <2> QED
    BY <1>u, <2>1, <2>2, <2>3, <2>4 DEF NodeOf
<1>4. CopyOf(n)'
  <2>1. \A m \in Members(s) \ Members(t) : m = n \/ Failed(m)'
    BY <1>s, <1>t, <1>u
  <2>2. pc'[n] = "join" => ~Keyed(t, n)'
    BY <1>2, <1>u
  <2>3. dirty'[n].state = t
    BY <1>e
  <2> QED
    BY <1>e, <1>t, <2>1, <2>2, <2>3 DEF CopyOf
<1> QED
  BY <1>1, <1>3, <1>4 DEF RecordOf

-----------------------------------------------------------------------------
\* A sync() after which n stays in its place.
LEMMA QuietSync ==
  ASSUME IInv, WInv, NEW n \in Nodes, NEW new, Sync(n, new),
         UNCHANGED <<pc, world, roleInfo, stalled>>,
         new # None => RecordOf(new.state)' /\ CopyOf(n)'
  PROVE  WInv'
<1>0. PICK s, v, D : s = Stored(n) /\ v = View(n) /\ D = Dead(n)
  OBVIOUS
<1>e. expired' = D /\ formed' = FormedWith(s)
  BY <1>0 DEF Sync
<1>s. /\ RecordOf(s)
      /\ D \subseteq expired \cap s.heartbeats
      /\ \A m \in expired \cap s.heartbeats : m \in D \/ (m = n /\ dirty[n] # None)
      /\ dirty[n] = None => s = backend
      /\ pc[n] = "join" /\ Keyed(s, n) => n \in D
  BY <1>0, StoredFacts
<1>f. \A r \in DOMAIN formed : r \in DOMAIN formed' /\ formed'[r] = formed[r]
  BY <1>0, <1>e, FormedFacts
<1>u. /\ \A m : Failed(m) <=> Failed(m)'
      /\ \A m : Active(m) <=> Active(m)'
      /\ \A t, m : Keyed(t, m) <=> Keyed(t, m)'
  BY DEF Failed, Active, Keyed
<1>x. \A r \in DOMAIN formed : Excused(r) => Excused(r)'
  <2> SUFFICES ASSUME NEW r \in DOMAIN formed, Excused(r) PROVE Excused(r)'
    OBVIOUS
  <2>1. formed'[r] = formed[r] /\ roleInfo \subseteq roleInfo'
    BY <1>f
  <2> QED
    BY <1>u, <2>1, ExcusedStays
<1>1. ASSUME NEW t, NodeOf(t, n), pc[n] = "join" /\ Keyed(t, n) => n \in D
      PROVE  NodeOf(t, n)'
  <2>1. t.round \in DOMAIN formed /\ Excused(t.round) =>
          t.round \in DOMAIN formed' /\ Excused(t.round)'
    BY <1>f, <1>x
  <2> QED
    BY <1>1, <1>e, <1>u, <2>1 DEF NodeOf
<1>2. NodeOf(s, n)'
  BY <1>1, <1>s DEF RecordOf
<1>3. ASSUME NEW m \in Nodes \ {n}, NEW t, dirty[n] = None, dirty[m] # None, t = dirty[m].state
      PROVE  NodeOf(t, n)'
  <2>1. NodeOf(t, n)
    BY <1>3 DEF WInv, RecordOf
  <2>2. expired \subseteq D
    BY <1>3, <1>s DEF IInv
  <2> QED
    BY <1>1, <2>1, <2>2 DEF NodeOf
<1>4. WorldOf(n)'
  <2> SUFFICES ASSUME Active(n) PROVE WorldOf(n)'
    BY <1>u DEF WorldOf
  <2>0. PICK r, P : r = world[n].round /\ P = formed[r]
    OBVIOUS
  <2>1. /\ r \in DOMAIN formed /\ n \in DOMAIN P /\ world[n].rank = P[n]
        /\ \/ world[n].size = Cardinality(DOMAIN P)
           \/ /\ world[n].size \in Nat /\ world[n].size < Cardinality(DOMAIN P)
              /\ \E k \in DOMAIN P : Failed(k)
        /\ pc[n] = "run" => Excused(r)
    BY <2>0 DEF WInv, WorldOf
  <2>2. r \in DOMAIN formed' /\ formed'[r] = P /\ world'[n] = world[n]
    BY <1>f, <2>0, <2>1
  <2>3. Excused(r) => Excused(r)'
    BY <1>x, <2>1
  <2> QED
    BY <1>u, <2>0, <2>1, <2>2, <2>3 DEF WorldOf
<1>5. pc[n] \in Gone => pc'[n] \in Gone
  OBVIOUS
<1> QED
  BY <1>0, <1>2, <1>3, <1>4, <1>5, SyncWorlds

\* One iteration of run() with an action that fits n's place.
LEMMA ProceedWorlds ==
  ASSUME IInv, WInv, NEW n \in Nodes, NEW v, v = View(n), NEW a, Proceed(n, v, a),
         a \in Quiet \/ Allowed(a, v, n),
         UNCHANGED <<pc, world, roleInfo, stalled>>,
         a = "REMOVE_FROM_PARTICIPANTS" =>
           pc[n] = "exit" \/ (pc[n] = "join" /\ ~(v.complete /\ n \in Members(v))),
         a \in {"ADD_TO_PARTICIPANTS", "MARK_RENDEZVOUS_COMPLETE"} => pc[n] = "join",
         pc[n] = "exit" => a \in Quiet \cup {"REMOVE_FROM_PARTICIPANTS"}
  PROVE  WInv'
<1>1. CASE Sync(n, None)
  BY <1>1, QuietSync
<1>2. CASE a \notin Quiet /\ Sync(n, [state |-> Apply(a, v, n), beat |-> a \in Beats])
  <2>0. PICK s, D, t, new : /\ s = Stored(n) /\ D = Dead(n) /\ t = Apply(a, v, n)
                            /\ new = [state |-> t, beat |-> a \in Beats]
    OBVIOUS
  <2>1. new.state = t /\ Sync(n, new)
    BY <1>2, <2>0
  <2>2. Allowed(a, v, n) /\ (pc[n] = "exit" => a = "REMOVE_FROM_PARTICIPANTS")
    BY <1>2
  <2>3. RecordOf(t)' /\ CopyOf(n)'
    BY <2>0, <2>1, <2>2, MadeFacts
  <2>4. RecordOf(new.state)' /\ CopyOf(n)'
    BY <2>1, <2>3
  <2> QED
    BY <2>1, <2>4, QuietSync
<1> QED
  BY <1>1, <1>2 DEF Proceed, Quiet

-----------------------------------------------------------------------------
\* Another node's copy, when n just reads: n is in it as in the record.
LEMMA CopyFacts ==
  ASSUME IInv, WInv, NEW n \in Nodes, NEW m \in Nodes \ {n},
         dirty[m] # None, NEW t, t = dirty[m].state
  PROVE  /\ RecordOf(t)
         /\ n \in Members(t) /\ backend.complete =>
              t.complete /\ t.round = backend.round /\ n \in Members(backend)
         /\ n \in Members(t) /\ t.round \in DOMAIN formed => n \in Members(backend)
         /\ n \in Members(backend) => n \in Members(t) \/ Failed(n)
<1>1. RecordOf(t) /\ Follows(backend, t)
  BY DEF WInv, IInv, RecordInv
<1>2. /\ t.round # backend.round => Members(t) \subseteq {m}
      /\ \A k \in Members(backend) \ Members(t) : k = m \/ Failed(k)
  BY DEF WInv, CopyOf
<1>3. backend.complete /\ t.round = backend.round =>
        t.complete /\ Members(t) \subseteq Members(backend)
  BY <1>1 DEF Follows
<1>4. t.round = backend.round /\ t.round \in DOMAIN formed => backend.complete
  <2>1. backend.round \in Nat
    BY DEF IInv, RecordInv, Good, Record
  <2>2. backend.round \in DOMAIN formed => backend.round < backend.round \/ backend.complete
    BY DEF WInv, FormedInv
  <2> QED
    BY <2>1, <2>2
<1> QED
  BY <1>1, <1>2, <1>3, <1>4

\* An operation fails and the node shuts down, or has shut down.
LEMMA StopWorlds ==
  ASSUME IInv, WInv, NEW n \in Nodes, Sync(n, None), NEW l \in Gone,
         pc' = [pc EXCEPT ![n] = l], UNCHANGED <<world, roleInfo, stalled>>
  PROVE  WInv'
<1>0. PICK s, v, D : s = Stored(n) /\ v = View(n) /\ D = Dead(n)
  OBVIOUS
<1>1. pc'[n] \in Gone /\ \A m \in Nodes \ {n} : pc'[m] = pc[m] /\ world'[m] = world[m]
  BY DEF IInv
<1>2. WorldOf(n)' /\ \A t : NodeOf(t, n)'
  BY <1>1 DEF WorldOf, NodeOf, Active, Gone
<1> QED
  BY <1>0, <1>1, <1>2, SyncWorlds

\* _RendezvousExitOp finishes: n is in no round that it has left.
LEMMA ExitedWorlds ==
  ASSUME IInv, WInv, NEW n \in Nodes, Sync(n, None), n \notin Members(View(n)),
         pc[n] = "exit", pc' = [pc EXCEPT ![n] = "join"], UNCHANGED <<world, roleInfo, stalled>>
  PROVE  WInv'
<1>0. PICK s, v, D : s = Stored(n) /\ v = View(n) /\ D = Dead(n)
  OBVIOUS
<1>1. /\ pc'[n] = "join" /\ pc[n] \notin Gone
      /\ \A m \in Nodes \ {n} : pc'[m] = pc[m] /\ world'[m] = world[m]
  BY DEF IInv, Gone
<1>2. /\ Members(v) = Members(s) \ D /\ expired' = D
      /\ D \subseteq expired /\ (dirty[n] = None => s = backend)
  BY <1>0, SeenFacts, StoredFacts DEF Sync
<1>3. WorldOf(n)'
  BY <1>1 DEF WorldOf, Active
<1>4. ASSUME NEW t, n \in Members(t) /\ t.round \in DOMAIN formed => n \in D
      PROVE  NodeOf(t, n)'
  <2>1. Keyed(t, n)' => n \in D
    <3> SUFFICES ASSUME Keyed(t, n)' PROVE n \in D
      OBVIOUS
    <3>1. n \in Members(t) /\ <<t.round, t.participants[n]>> \in roleInfo
      BY DEF Keyed
    <3>2. <<t.round, t.participants[n]>>[1] \in DOMAIN formed
      BY <3>1 DEF WInv, FormedInv
    <3> QED
      BY <1>4, <3>1, <3>2
  <2> QED
    BY <1>1, <1>2, <2>1 DEF NodeOf, Active
<1>5. NodeOf(s, n)'
  BY <1>0, <1>2, <1>4
<1>6. ASSUME NEW m \in Nodes \ {n}, NEW t, dirty[n] = None, dirty[m] # None, t = dirty[m].state
      PROVE  NodeOf(t, n)'
  <2>1. n \in Members(t) /\ t.round \in DOMAIN formed => n \in Members(backend)
    BY <1>6, CopyFacts
  <2> QED
    BY <1>0, <1>2, <1>4, <1>6, <2>1
<1> QED
  BY <1>0, <1>1, <1>3, <1>5, <1>6, SyncWorlds

\* _RendezvousJoinOp finishes: n has the world of the round and sets its key.  If
\* a member is missing, it has failed: had it restarted, then n's key would have
\* been set, and n would not have been in the round any more.
LEMMA JoinedWorlds ==
  ASSUME IInv, WInv, NEW n \in Nodes, NEW v, v = View(n), Sync(n, None),
         v.complete, n \in Members(v), pc[n] = "join", pc' = [pc EXCEPT ![n] = "gather"],
         world' = [world EXCEPT ![n] = [round |-> v.round, rank |-> v.participants[n],
                                        size |-> Cardinality(Members(v))]],
         roleInfo' = roleInfo \cup {<<v.round, v.participants[n]>>}, stalled' = stalled,
         n \in DOMAIN world
  PROVE  WInv'
<1>0. PICK s, D : s = Stored(n) /\ D = Dead(n)
  OBVIOUS
<1>1. /\ pc'[n] = "gather" /\ pc[n] \notin Gone /\ Active(n)'
      /\ \A m \in Nodes \ {n} : pc'[m] = pc[m] /\ world'[m] = world[m]
  BY DEF IInv, Gone, Active
<1>2. /\ world'[n].round = v.round /\ world'[n].rank = v.participants[n]
      /\ world'[n].size = Cardinality(Members(v))
  OBVIOUS
<1>v. /\ Members(v) = Members(s) \ D
      /\ \A m \in Members(v) : v.participants[m] = s.participants[m]
      /\ s.complete /\ v.round = s.round /\ ~Keyed(v, n)
  BY <1>0, SeenFacts
<1>s. /\ RecordOf(s) /\ \A m \in D : Failed(m)
      /\ dirty[n] = None => s = backend
      /\ Members(s) \subseteq Nodes
  BY <1>0, StoredFacts
<1>f. /\ \A r \in DOMAIN formed : r \in DOMAIN formed' /\ formed'[r] = formed[r]
      /\ s.round \in DOMAIN formed'
      /\ s.round \notin DOMAIN formed => formed'[s.round] = s.participants
  <2>1. formed' = FormedWith(s)
    BY <1>0 DEF Sync
  <2> QED
    BY <1>0, <1>v, <2>1, FormedFacts
<1>u. \A m \in Nodes : Failed(m) => Failed(m)'
  BY <1>1 DEF Failed
<1>3. NodeOf(s, n)'
  BY <1>1, <1>2, <1>v DEF NodeOf, Active
<1>4. ASSUME NEW m \in Nodes \ {n}, NEW t, dirty[n] = None, dirty[m] # None, t = dirty[m].state
      PROVE  NodeOf(t, n)'
  <2>1. /\ n \in Members(t) => t.complete /\ t.round = backend.round
        /\ n \in Members(t) \/ Failed(n)
    BY <1>4, <1>s, <1>v, CopyFacts
  <2>2. Failed(n) => n \in stalled'
    BY <1>1 DEF Failed
  <2> QED
    BY <1>1, <1>2, <1>4, <1>s, <1>v, <2>1, <2>2 DEF NodeOf, Active
<1>5. WorldOf(n)'
  <2>0. PICK r, P : r = s.round /\ P = formed'[r]
    OBVIOUS
  <2>1. /\ Members(s) \subseteq DOMAIN P /\ \A m \in Members(s) : s.participants[m] = P[m]
        /\ Members(s) # DOMAIN P => r \in DOMAIN formed /\ Excused(r)
        /\ r \in DOMAIN formed => P = formed[r]
    <3>1. CASE r \in DOMAIN formed
      BY <1>f, <1>s, <1>v, <2>0, <3>1 DEF RecordOf, Agrees
    <3>2. CASE r \notin DOMAIN formed
      BY <1>f, <2>0, <3>2 DEF Members
    <3> QED
      BY <3>1, <3>2
  <2>2. Ranked(P)
    <3>1. CASE r \in DOMAIN formed
      BY <2>1, <3>1 DEF WInv, FormedInv
    <3>2. CASE r \notin DOMAIN formed
      BY <1>f, <1>s, <1>v, <2>0, <3>2 DEF RecordOf, Agrees
    <3> QED
      BY <3>1, <3>2
  <2>3. /\ \A m \in DOMAIN P : P[m] \in 0..(Cardinality(DOMAIN P) - 1)
        /\ DOMAIN P \subseteq Nodes /\ IsFiniteSet(DOMAIN P) /\ Cardinality(DOMAIN P) \in Nat
    BY <2>2, RankedFacts
  <2>4. n \in DOMAIN P /\ v.participants[n] = P[n]
    BY <1>v, <2>1
  <2>5. Members(v) # DOMAIN P => \E m \in DOMAIN P : Failed(m)
    <3> SUFFICES ASSUME Members(v) # DOMAIN P, \A m \in DOMAIN P : ~Failed(m) PROVE FALSE
      OBVIOUS
    <3>1. Members(s) # DOMAIN P
      BY <1>s, <1>v, <2>1
    <3>2. Excused(r) /\ P = formed[r]
      BY <2>1, <3>1
    <3>3. \A k \in 0..(Cardinality(DOMAIN P) - 1) : <<r, k>> \in roleInfo
      BY <3>2 DEF Excused
    <3>4. <<v.round, v.participants[n]>> \in roleInfo
      BY <1>v, <2>0, <2>3, <2>4, <3>3
    <3> QED
      BY <1>v, <3>4 DEF Keyed
  <2>6. \/ Members(v) = DOMAIN P
        \/ /\ Cardinality(Members(v)) \in Nat
           /\ Cardinality(Members(v)) < Cardinality(DOMAIN P)
    <3>1. Members(v) \in SUBSET DOMAIN P
      BY <1>v, <2>1
    <3>2. IsFiniteSet(Members(v)) /\ Cardinality(Members(v)) \leq Cardinality(DOMAIN P)
          /\ (Cardinality(DOMAIN P) = Cardinality(Members(v)) => DOMAIN P = Members(v))
      BY <2>3, <3>1, FS_Subset
    <3>3. Cardinality(Members(v)) \in Nat
      BY <3>2, FS_CardinalityType
    <3> QED
      BY <2>3, <3>2, <3>3
  <2>7. (\E m \in DOMAIN P : Failed(m)) => (\E m \in DOMAIN P : Failed(m)')
    BY <1>u, <2>3
  <2>8. /\ \/ world'[n].size = Cardinality(DOMAIN P)
           \/ /\ world'[n].size \in Nat /\ world'[n].size < Cardinality(DOMAIN P)
              /\ \E m \in DOMAIN P : Failed(m)'
        /\ world'[n].round = r /\ r \in DOMAIN formed' /\ world'[n].rank = P[n]
    BY <1>2, <1>f, <1>v, <2>0, <2>4, <2>5, <2>6, <2>7
  <2>9. pc'[n] # "run"
    BY <1>1
  <2> QED
    BY <2>0, <2>4, <2>8, <2>9 DEF WorldOf
<1> QED
  BY <1>0, <1>1, <1>3, <1>4, <1>5, SyncWorlds

\* A node that restarts its workers has seen the key of every member of its
\* round, unless one of them has failed.
LEMMA RestartNode ==
  ASSUME WInv, NEW n \in Nodes, pc[n] = "run", pc'[n] = "exit", NEW t, NodeOf(t, n),
         \A r \in DOMAIN formed : r \in DOMAIN formed' /\ (Excused(r) => Excused(r)')
  PROVE  NodeOf(t, n)'
<1>1. WorldOf(n) /\ Active(n)
  BY DEF WInv, Active
<1>2. world[n].round \in DOMAIN formed /\ Excused(world[n].round)
  BY <1>1 DEF WorldOf
<1>3. n \in Members(t) => t.complete /\ t.round = world[n].round
  BY <1>1 DEF NodeOf
<1>4. n \in Members(t) => t.complete /\ t.round \in DOMAIN formed' /\ Excused(t.round)'
  BY <1>2, <1>3
<1> QED
  BY <1>4 DEF NodeOf, Active

\* num_nodes_waiting() makes n restart its workers.
LEMMA RestartWorlds ==
  ASSUME IInv, WInv, NEW n \in Nodes, Sync(n, None), pc[n] = "run",
         pc' = [pc EXCEPT ![n] = "exit"], world' = [world EXCEPT ![n] = None],
         UNCHANGED <<roleInfo, stalled>>
  PROVE  WInv'
<1>0. PICK s, v, D : s = Stored(n) /\ v = View(n) /\ D = Dead(n)
  OBVIOUS
<1>1. /\ pc'[n] = "exit" /\ pc[n] \notin Gone
      /\ \A m \in Nodes \ {n} : pc'[m] = pc[m] /\ world'[m] = world[m]
  BY DEF IInv, Gone
<1>s. RecordOf(s)
  BY <1>0, StoredFacts
<1>f. \A r \in DOMAIN formed : r \in DOMAIN formed' /\ formed'[r] = formed[r]
  <2>1. formed' = FormedWith(s)
    BY <1>0 DEF Sync
  <2> QED
    BY <1>0, <2>1, FormedFacts
<1>x. \A r \in DOMAIN formed : r \in DOMAIN formed' /\ (Excused(r) => Excused(r)')
  <2> SUFFICES ASSUME NEW r \in DOMAIN formed, Excused(r) PROVE Excused(r)'
    BY <1>f
  <2>1. DOMAIN formed[r] \subseteq Nodes
    BY RankedFacts DEF WInv, FormedInv
  <2>2. formed'[r] = formed[r] /\ roleInfo \subseteq roleInfo'
    BY <1>f
  <2>3. \A m \in DOMAIN formed[r] : Failed(m) => Failed(m)'
    BY <1>1, <2>1 DEF Failed
  <2> QED
    BY <2>2, <2>3, ExcusedStays
<1>2. NodeOf(s, n)'
  BY <1>1, <1>s, <1>x, RestartNode DEF RecordOf
<1>3. ASSUME NEW m \in Nodes \ {n}, NEW t, dirty[n] = None, dirty[m] # None, t = dirty[m].state
      PROVE  NodeOf(t, n)'
  <2>1. NodeOf(t, n)
    BY <1>3 DEF WInv, RecordOf
  <2> QED
    BY <1>1, <1>x, <2>1, RestartNode
<1>4. WorldOf(n)'
  BY <1>1 DEF WorldOf, Active
<1> QED
  BY <1>0, <1>1, <1>2, <1>3, <1>4, SyncWorlds

-----------------------------------------------------------------------------
\* A step of n that leaves the record alone.
LEMMA LocalWorlds ==
  ASSUME IInv, WInv, NEW n \in Nodes, UNCHANGED <<backend, roleInfo, formed>>,
         \A m \in Nodes \ {n} : /\ pc'[m] = pc[m] /\ world'[m] = world[m]
                                /\ dirty'[m] = dirty[m],
         dirty'[n] = dirty[n] \/ dirty'[n] = None,
         pc[n] \in Gone => pc'[n] \in Gone, pc'[n] = "join" => pc[n] = "join",
         stalled \subseteq stalled', expired \subseteq expired',
         \A m \in expired' : Failed(m)',
         \A t : RecordOf(t) => NodeOf(t, n)',
         WorldOf(n)'
  PROVE  WInv'
<1>u. /\ \A m \in Nodes : Failed(m) => Failed(m)'
      /\ \A m \in Nodes \ {n} : Active(m) <=> Active(m)'
      /\ \A t, m : Keyed(t, m) <=> Keyed(t, m)'
  BY DEF Failed, Active, Keyed
<1>p. \A r \in DOMAIN formed : DOMAIN formed[r] \subseteq Nodes
  BY RankedFacts DEF WInv, FormedInv
<1>x. \A r \in DOMAIN formed : Excused(r) => Excused(r)'
  <2> SUFFICES ASSUME NEW r \in DOMAIN formed, Excused(r) PROVE Excused(r)'
    OBVIOUS
  <2>1. \A m \in DOMAIN formed[r] : Failed(m) => Failed(m)'
    BY <1>p, <1>u
  <2>2. formed'[r] = formed[r] /\ roleInfo \subseteq roleInfo'
    OBVIOUS
  <2> QED
    BY <2>1, <2>2, ExcusedStays
<1>1. ASSUME NEW t, RecordOf(t) PROVE RecordOf(t)'
  <2>1. Agrees(t)'
    BY <1>1, <1>x DEF RecordOf, Agrees
  <2>2. ASSUME NEW m \in Nodes \ {n} PROVE NodeOf(t, m)'
    <3>1. NodeOf(t, m) /\ pc'[m] = pc[m] /\ world'[m] = world[m]
      BY <1>1 DEF RecordOf
    <3>2. t.round \in DOMAIN formed /\ Excused(t.round) =>
            t.round \in DOMAIN formed' /\ Excused(t.round)'
      BY <1>x
    <3> QED
      BY <1>u, <3>1, <3>2 DEF NodeOf
  <2> QED
    BY <1>1, <2>1, <2>2 DEF RecordOf
<1>2. FormedInv'
  <2>1. FormedInv
    BY DEF WInv
  <2>2. UNCHANGED <<backend, roleInfo, formed>>
    OBVIOUS
  <2> QED
    BY <2>1, <2>2 DEF FormedInv, Ranked
<1>3. RecordOf(backend)'
  <2>0. PICK t : t = backend
    OBVIOUS
  <2>1. RecordOf(t)'
    BY <1>1, <2>0 DEF WInv
  <2>2. backend' = t
    BY <2>0
  <2> QED
    BY <2>1, <2>2
<1>4. ASSUME NEW m \in Nodes, dirty'[m] # None
      PROVE  dirty'[m] = dirty[m] /\ dirty[m] # None /\ RecordOf(dirty[m].state)'
  <2>0. PICK t : t = dirty[m].state
    OBVIOUS
  <2>1. dirty'[m] = dirty[m] /\ dirty[m] # None
    BY <1>4
  <2>2. RecordOf(t)'
    BY <1>1, <2>0, <2>1 DEF WInv
  <2>3. dirty'[m].state = t
    BY <2>0, <2>1
  <2> QED
    BY <2>1, <2>2, <2>3
<1>5. ASSUME NEW m \in Nodes PROVE CopyOf(m)'
  <2>1. CASE dirty'[m] = None
    BY <2>1 DEF CopyOf
  <2>2. CASE dirty'[m] # None
    <3>0. PICK t : t = dirty[m].state
      OBVIOUS
    <3>1. dirty'[m] = dirty[m] /\ dirty[m] # None /\ dirty'[m].state = t
      BY <1>4, <2>2, <3>0
    <3>2. /\ t.round # backend.round => Members(t) \subseteq {m}
          /\ \A k \in Members(backend) \ Members(t) : k = m \/ Failed(k)
          /\ pc[m] = "join" => ~Keyed(t, m)
      BY <3>0, <3>1 DEF WInv, CopyOf
    <3>3. Members(backend) \subseteq Nodes
      BY MembersFinite DEF IInv, RecordInv, Good
    <3>4. \A k \in Members(backend) \ Members(t) : k = m \/ Failed(k)'
      BY <1>u, <3>2, <3>3
    <3>5. pc'[m] = "join" => ~Keyed(t, m)'
      BY <1>u, <3>2
    <3> QED
      BY <3>1, <3>2, <3>4, <3>5 DEF CopyOf
  <2> QED
    BY <2>1, <2>2
<1>6. ASSUME NEW m \in Nodes PROVE WorldOf(m)'
  <2>1. CASE m = n
    BY <2>1
  <2>2. CASE m # n /\ ~Active(m)
    BY <1>u, <2>2 DEF WorldOf
  <2>3. CASE m # n /\ Active(m)
    <3>0. PICK r, P : r = world[m].round /\ P = formed[r]
      OBVIOUS
    <3>1. /\ r \in DOMAIN formed /\ m \in DOMAIN P /\ world[m].rank = P[m]
          /\ \/ world[m].size = Cardinality(DOMAIN P)
             \/ /\ world[m].size \in Nat /\ world[m].size < Cardinality(DOMAIN P)
                /\ \E k \in DOMAIN P : Failed(k)
          /\ pc[m] = "run" => Excused(r)
      BY <2>3, <3>0 DEF WInv, WorldOf
    <3>2. /\ r \in DOMAIN formed' /\ formed'[r] = P /\ world'[m] = world[m]
          /\ pc'[m] = pc[m]
      BY <2>3, <3>0, <3>1
    <3>3. (\E k \in DOMAIN P : Failed(k)) => (\E k \in DOMAIN P : Failed(k)')
      BY <1>p, <1>u, <3>0, <3>1
    <3>4. Excused(r) => Excused(r)'
      BY <1>x, <3>1
    <3> QED
      BY <3>0, <3>1, <3>2, <3>3, <3>4 DEF WorldOf
  <2> QED
    BY <2>1, <2>2, <2>3
<1> QED
  BY <1>2, <1>3, <1>4, <1>5, <1>6 DEF WInv

\* The workers start: every key of the round is there, or a member has failed.
LEMMA StartKeeps ==
  ASSUME IInv, WInv, NEW n \in Nodes, StartWorkers(n)
  PROVE  WInv'
<1>1. /\ pc[n] = "gather" /\ Missing(n) = {} /\ pc' = [pc EXCEPT ![n] = "run"]
      /\ UNCHANGED <<backend, dirty, world, roleInfo, expired, stalled, formed>>
  BY DEF StartWorkers
<1>2. /\ pc'[n] = "run" /\ \A m \in Nodes \ {n} : pc'[m] = pc[m]
      /\ Active(n) /\ Active(n)'
  BY <1>1 DEF IInv, Active
<1>u. \A m \in Nodes : Failed(m) <=> Failed(m)'
  <2> SUFFICES ASSUME NEW m \in Nodes PROVE Failed(m) <=> Failed(m)'
    OBVIOUS
  <2>1. CASE m = n
    BY <1>1, <1>2, <2>1 DEF Failed, Gone
  <2>2. CASE m # n
    BY <1>1, <1>2, <2>2 DEF Failed
  <2> QED
    BY <2>1, <2>2
<1>3. ASSUME NEW t, RecordOf(t) PROVE NodeOf(t, n)'
  BY <1>1, <1>2, <1>3 DEF RecordOf, NodeOf
<1>4. WorldOf(n)'
  <2>0. PICK r, P : r = world[n].round /\ P = formed[r]
    OBVIOUS
  <2>1. /\ r \in DOMAIN formed /\ n \in DOMAIN P /\ world[n].rank = P[n]
        /\ \/ world[n].size = Cardinality(DOMAIN P)
           \/ /\ world[n].size \in Nat /\ world[n].size < Cardinality(DOMAIN P)
              /\ \E k \in DOMAIN P : Failed(k)
    BY <1>2, <2>0 DEF WInv, WorldOf
  <2>2. (\E k \in DOMAIN P : Failed(k)) => (\E k \in DOMAIN P : Failed(k)')
    BY <1>u, <2>0, <2>1, RankedFacts DEF WInv, FormedInv
  <2>3. \A k \in 0..(world[n].size - 1) : <<r, k>> \in roleInfo
    BY <1>1, <2>0 DEF Missing
  <2>4. Excused(r)'
    BY <1>1, <2>0, <2>1, <2>2, <2>3 DEF Excused
  <2> QED
    BY <1>1, <2>0, <2>1, <2>2, <2>4 DEF WorldOf
<1>5. \A m \in expired : Failed(m)'
  <2>1. expired \subseteq Nodes
    BY DEF IInv, RecordInv, Good, Record
  <2> QED
    BY <1>u, <2>1 DEF WInv
<1> QED
  BY <1>1, <1>2, <1>3, <1>4, <1>5, LocalWorlds DEF Gone

\* The node restarts, shuts down or dies, with or without its copy.
LEMMA DepartKeeps ==
  ASSUME IInv, WInv, NEW n \in Nodes, NEW l,
         l \in Gone \/ (l = "exit" /\ pc[n] = "run"),
         pc' = [pc EXCEPT ![n] = l], world' = [world EXCEPT ![n] = None],
         dirty' = dirty \/ dirty' = [dirty EXCEPT ![n] = None],
         UNCHANGED <<backend, roleInfo, expired, stalled, formed>>
  PROVE  WInv'
<1>1. /\ pc'[n] = l
      /\ \A m \in Nodes \ {n} : /\ pc'[m] = pc[m] /\ world'[m] = world[m]
                                /\ dirty'[m] = dirty[m]
      /\ dirty'[n] = dirty[n] \/ dirty'[n] = None
      /\ l # "join" /\ l \notin {"gather", "run"}
      /\ pc[n] \in Gone => pc'[n] \in Gone
  BY DEF IInv, RecordInv, Gone
<1>u. \A m \in Nodes : Failed(m) => Failed(m)'
  BY <1>1 DEF Failed
<1>x. \A r \in DOMAIN formed : r \in DOMAIN formed' /\ (Excused(r) => Excused(r)')
  <2> SUFFICES ASSUME NEW r \in DOMAIN formed, Excused(r) PROVE Excused(r)'
    OBVIOUS
  <2>1. DOMAIN formed[r] \subseteq Nodes
    BY RankedFacts DEF WInv, FormedInv
  <2>2. \A m \in DOMAIN formed[r] : Failed(m) => Failed(m)'
    BY <1>u, <2>1
  <2>3. formed'[r] = formed[r] /\ roleInfo \subseteq roleInfo'
    OBVIOUS
  <2> QED
    BY <2>2, <2>3, ExcusedStays
<1>2. ASSUME NEW t, RecordOf(t) PROVE NodeOf(t, n)'
  <2>1. CASE l \in Gone
    BY <1>1, <2>1 DEF NodeOf, Active, Gone
  <2>2. CASE l = "exit" /\ pc[n] = "run"
    <3>1. NodeOf(t, n) /\ pc'[n] = "exit"
      BY <1>1, <1>2, <2>2 DEF RecordOf
    <3> QED
      BY <1>x, <2>2, <3>1, RestartNode
  <2> QED
    BY <2>1, <2>2
<1>3. WorldOf(n)'
  BY <1>1 DEF WorldOf, Active
<1>4. \A m \in expired : Failed(m)'
  <2>1. expired \subseteq Nodes
    BY DEF IInv, RecordInv, Good, Record
  <2> QED
    BY <1>u, <2>1 DEF WInv
<1> QED
  BY <1>1, <1>2, <1>3, <1>4, LocalWorlds

\* A heartbeat expires.
LEMMA ExpireKeeps ==
  ASSUME IInv, WInv, NEW n \in Nodes, Expire(n) \/ Stall(n)
  PROVE  WInv'
<1>1. /\ UNCHANGED <<backend, dirty, pc, world, roleInfo, formed>>
      /\ expired' = expired \cup {n} /\ stalled \subseteq stalled' /\ Failed(n)'
  BY DEF Expire, Stall, nodeVars, Failed
<1>u. /\ \A m : Failed(m) => Failed(m)'
      /\ \A m : Active(m) <=> Active(m)'
      /\ \A t, m : Keyed(t, m) <=> Keyed(t, m)'
  BY <1>1 DEF Failed, Active, Keyed
<1>x. \A r : Excused(r) => Excused(r)'
  BY <1>1, <1>u DEF Excused
<1>2. ASSUME NEW t, RecordOf(t) PROVE NodeOf(t, n)'
  <2>1. NodeOf(t, n) /\ (Excused(t.round) => Excused(t.round)')
    BY <1>2, <1>x DEF RecordOf
  <2> QED
    BY <1>1, <1>u, <2>1 DEF NodeOf
<1>3. WorldOf(n)'
  <2>1. WorldOf(n)
    BY DEF WInv
  <2> QED
    BY <1>1, <1>u, <1>x, <2>1 DEF WorldOf
<1>4. \A m \in expired' : Failed(m)'
  BY <1>1, <1>u DEF WInv
<1> QED
  BY <1>1, <1>2, <1>3, <1>4, LocalWorlds

\* The end of the last call changes nothing but deadlines.
LEMMA LastCallWorlds ==
  ASSUME IInv, WInv, LastCall
  PROVE  WInv'
<1> DEFINE Passed(s) == IF s.deadline = "set" THEN [s EXCEPT !.deadline = "passed"] ELSE s
<1>1. /\ backend' = Passed(backend)
      /\ dirty' = [n \in Nodes |-> IF dirty[n] = None THEN None
                                   ELSE [dirty[n] EXCEPT !.state = Passed(@)]]
      /\ UNCHANGED <<pc, world, roleInfo, expired, stalled, formed>>
  BY DEF LastCall, nodeVars
<1>2. ASSUME NEW s \in Record
      PROVE  /\ Passed(s).round = s.round /\ Passed(s).complete = s.complete
             /\ Passed(s).participants = s.participants
  BY DEF Record
<1> HIDE DEF Passed
<1>3. ASSUME NEW s, NEW t, s \in Record, RecordOf(s), t = Passed(s) PROVE RecordOf(t)'
  <2>1. /\ t.round = s.round /\ t.complete = s.complete /\ t.participants = s.participants
        /\ Members(t) = Members(s)
    BY <1>2, <1>3 DEF Members
  <2>2. /\ \A m : Failed(m) <=> Failed(m)'
        /\ \A m : Active(m) <=> Active(m)'
        /\ \A r : Excused(r) <=> Excused(r)'
    BY <1>1 DEF Failed, Active, Excused
  <2>3. \A m : Keyed(s, m) <=> Keyed(t, m)'
    BY <1>1, <2>1 DEF Keyed
  <2>4. Agrees(t)'
    BY <1>1, <1>3, <2>1, <2>2 DEF RecordOf, Agrees, Ranked
  <2>5. ASSUME NEW m \in Nodes PROVE NodeOf(t, m)'
    <3>1. NodeOf(s, m)
      BY <1>3 DEF RecordOf
    <3> QED
      BY <1>1, <2>1, <2>2, <2>3, <3>1 DEF NodeOf
  <2> QED
    BY <2>4, <2>5 DEF RecordOf
<1>4. backend \in Record /\ RecordOf(backend)
  BY DEF IInv, RecordInv, Good, WInv
<1>5. RecordOf(backend)'
  <2>0. PICK t : t = Passed(backend)
    OBVIOUS
  <2>1. RecordOf(t)' /\ backend' = t
    BY <1>1, <1>3, <1>4, <2>0
  <2> QED
    BY <2>1
<1>6. FormedInv'
  <2>1. FormedInv /\ backend'.round = backend.round /\ backend'.complete = backend.complete
    BY <1>1, <1>2, <1>4 DEF WInv
  <2> QED
    BY <1>1, <2>1 DEF FormedInv, Ranked
<1>7. ASSUME NEW n \in Nodes PROVE CopyOf(n)' /\ (dirty'[n] # None => RecordOf(dirty[n].state)')
  <2>1. CASE dirty[n] = None
    BY <1>1, <2>1 DEF CopyOf
  <2>2. CASE dirty[n] # None
    <3>0. PICK s, t : s = dirty[n].state /\ t = Passed(s)
      OBVIOUS
    <3>1. dirty[n] \in [state : Record, beat : BOOLEAN] /\ s \in Record /\ RecordOf(s)
      BY <2>2, <3>0 DEF IInv, RecordInv, Good, WInv
    <3>2. dirty'[n].state = t
      BY <1>1, <2>2, <3>0, <3>1
    <3>3. RecordOf(t)'
      BY <1>3, <3>0, <3>1
    <3>4. /\ t.round = s.round /\ Members(t) = Members(s)
          /\ backend'.round = backend.round /\ Members(backend') = Members(backend)
          /\ Keyed(s, n) <=> Keyed(t, n)'
      BY <1>1, <1>2, <1>4, <3>0, <3>1 DEF Members, Keyed
    <3>5. /\ s.round # backend.round => Members(s) \subseteq {n}
          /\ \A m \in Members(backend) \ Members(s) : m = n \/ Failed(m)
          /\ pc[n] = "join" => ~Keyed(s, n)
      BY <2>2, <3>0 DEF WInv, CopyOf
    <3>6. \A m : Failed(m) <=> Failed(m)'
      BY <1>1 DEF Failed
    <3>7. CopyOf(n)'
      BY <1>1, <3>2, <3>4, <3>5, <3>6 DEF CopyOf
    <3> QED
      BY <3>2, <3>3, <3>7
  <2> QED
    BY <2>1, <2>2
<1>8. ASSUME NEW n \in Nodes PROVE WorldOf(n)'
  <2>1. WorldOf(n)
    BY DEF WInv
  <2> QED
    BY <1>1, <2>1 DEF WorldOf, Active, Failed, Excused
<1>9. \A m \in expired' : Failed(m)'
  BY <1>1 DEF WInv, Failed
<1> QED
  BY <1>5, <1>6, <1>7, <1>8, <1>9 DEF WInv

-----------------------------------------------------------------------------
\* No round has completed yet.
LEMMA InitWorlds == Init => WInv /\ DOMAIN world = Nodes
<1> SUFFICES ASSUME Init PROVE WInv /\ DOMAIN world = Nodes
  OBVIOUS
<1>0. DOMAIN <<>> = {}
  OBVIOUS
<1>1. /\ ~backend.complete /\ DOMAIN formed = {} /\ roleInfo = {} /\ expired = {}
      /\ Members(backend) = {}
  BY <1>0 DEF Init, Members
<1>2. \A n \in Nodes : pc[n] = "exit" /\ dirty[n] = None /\ ~Active(n)
  BY DEF Init, Active
<1>3. RecordOf(backend)
  BY <1>1, <1>2 DEF RecordOf, Agrees, NodeOf
<1>4. FormedInv
  BY <1>1 DEF FormedInv
<1>5. \A n \in Nodes : CopyOf(n) /\ WorldOf(n)
  BY <1>2 DEF CopyOf, WorldOf
<1>6. DOMAIN world = Nodes
  BY DEF Init
<1> QED
  BY <1>1, <1>2, <1>3, <1>4, <1>5, <1>6 DEF WInv

\* The operations choose only actions that fit the place of the node.
LEMMA OpsFit ==
  ASSUME NEW v, Good(v), NEW n \in Nodes, NEW b \in BOOLEAN,
         late \in [Nodes -> {"no", "late", "over"}]
  PROVE  /\ ExitOp(v, n) \in {"FINISH", "ERROR_TIMEOUT", "REMOVE_FROM_PARTICIPANTS"}
         /\ ExitOp(v, n) = "FINISH" => n \notin Members(v)
         /\ CloseOp(v, b) \in {"FINISH", "ERROR_TIMEOUT", "MARK_RENDEZVOUS_CLOSED"}
         /\ JoinOp(v, n, b) = "REMOVE_FROM_PARTICIPANTS" => ~(v.complete /\ n \in Members(v))
<1>0. late[n] \in {"no", "late", "over"} /\ v.complete \in BOOLEAN /\ v.closed \in BOOLEAN
  BY DEF Good, Record
<1>1. /\ ExitOp(v, n) \in {"FINISH", "ERROR_TIMEOUT", "REMOVE_FROM_PARTICIPANTS"}
      /\ ExitOp(v, n) = "FINISH" => n \notin Members(v)
  BY <1>0 DEF ExitOp
<1>2. CloseOp(v, b) \in {"FINISH", "ERROR_TIMEOUT", "MARK_RENDEZVOUS_CLOSED"}
  BY <1>0 DEF CloseOp
<1>3. v.complete /\ n \in Members(v) => JoinOp(v, n, b) \in {"ERROR_CLOSED", "FINISH"}
  BY <1>0 DEF JoinOp
<1> QED
  BY <1>1, <1>2, <1>3

\* next_rendezvous(), shutdown() and the keep-alive timer.
LEMMA OperationKeeps ==
  ASSUME IInv, WInv, DOMAIN world = Nodes, NEW n \in Nodes, Operation(n) \/ KeepAlive(n)
  PROVE  WInv' /\ DOMAIN world' = Nodes
<1>0. PICK v : v = View(n)
  OBVIOUS
<1>g. Good(v) /\ late \in [Nodes -> {"no", "late", "over"}]
  BY <1>0, ViewFacts DEF IInv
<1>1. CASE Exit(n)
  <2>0. PICK a : a = ExitOp(v, n)
    OBVIOUS
  <2>1. /\ a \in {"FINISH", "ERROR_TIMEOUT", "REMOVE_FROM_PARTICIPANTS"}
        /\ a = "FINISH" => n \notin Members(v)
        /\ a \in Quiet \/ Allowed(a, v, n)
    BY <1>g, <2>0, OpsFit, OpsAllowed
  <2>2. /\ pc[n] = "exit" /\ UNCHANGED <<world, roleInfo, stalled>>
        /\ \/ Proceed(n, v, a) /\ pc' = pc
           \/ Sync(n, None) /\ pc' = [pc EXCEPT ![n] = "close"]
           \/ a = "FINISH" /\ Sync(n, None) /\ pc' = [pc EXCEPT ![n] = "join"]
    BY <1>0, <1>1, <2>0 DEF Exit, Goto
  <2>3. CASE Proceed(n, v, a) /\ pc' = pc
    BY <1>0, <2>1, <2>2, <2>3, ProceedWorlds DEF Quiet, Errors
  <2>4. CASE Sync(n, None) /\ pc' = [pc EXCEPT ![n] = "close"]
    <3>1. "close" \in Gone
      BY DEF Gone
    <3> QED
      BY <2>2, <2>4, <3>1, StopWorlds
  <2>5. CASE a = "FINISH" /\ Sync(n, None) /\ pc' = [pc EXCEPT ![n] = "join"]
    BY <1>0, <2>1, <2>2, <2>5, ExitedWorlds
  <2> QED
    BY <2>2, <2>3, <2>4, <2>5
<1>2. CASE Join(n)
  <2>0. PICK due \in BOOLEAN :
          \/ Proceed(n, v, JoinOp(v, n, due)) /\ UNCHANGED <<nodeVars, roleInfo>>
          \/ Sync(n, None) /\ Goto(n, "close") /\ UNCHANGED <<world, roleInfo>>
          \/ /\ JoinOp(v, n, due) = "FINISH" /\ Sync(n, None) /\ Goto(n, "gather")
             /\ world' = [world EXCEPT ![n] = [round |-> v.round, rank |-> v.participants[n],
                                               size |-> Cardinality(Members(v))]]
             /\ roleInfo' = roleInfo \cup {<<v.round, v.participants[n]>>}
    BY <1>0, <1>2 DEF Join
  <2>1. PICK a : a = JoinOp(v, n, due)
    OBVIOUS
  <2>2. /\ a = "FINISH" => v.complete /\ n \in Members(v)
        /\ a = "REMOVE_FROM_PARTICIPANTS" => ~(v.complete /\ n \in Members(v))
        /\ a \in Quiet \/ Allowed(a, v, n)
    BY <1>g, <2>1, OpsFit, OpsAllowed
  <2>3. pc[n] = "join" /\ stalled' = stalled
    BY <1>2 DEF Join
  <2>4. CASE Proceed(n, v, a) /\ UNCHANGED <<pc, world, roleInfo>>
    BY <1>0, <2>2, <2>3, <2>4, ProceedWorlds
  <2>5. CASE Sync(n, None) /\ pc' = [pc EXCEPT ![n] = "close"] /\ UNCHANGED <<world, roleInfo>>
    <3>1. "close" \in Gone
      BY DEF Gone
    <3> QED
      BY <2>3, <2>5, <3>1, StopWorlds
  <2>6. CASE /\ a = "FINISH" /\ Sync(n, None) /\ pc' = [pc EXCEPT ![n] = "gather"]
             /\ world' = [world EXCEPT ![n] = [round |-> v.round, rank |-> v.participants[n],
                                               size |-> Cardinality(Members(v))]]
             /\ roleInfo' = roleInfo \cup {<<v.round, v.participants[n]>>}
    <3>1. v.complete /\ n \in Members(v) /\ n \in DOMAIN world
      BY <2>2, <2>6
    <3>2. WInv'
      BY <1>0, <2>3, <2>6, <3>1, JoinedWorlds
    <3> QED
      BY <2>6, <3>2
  <2> QED
    BY <2>0, <2>1, <2>4, <2>5, <2>6 DEF Goto, nodeVars
<1>3. CASE Close(n)
  <2>0. PICK over \in BOOLEAN :
          \/ Proceed(n, v, CloseOp(v, over)) /\ UNCHANGED <<pc, late, beating>>
          \/ Sync(n, None) /\ Goto(n, "left")
    BY <1>0, <1>3 DEF Close
  <2>1. PICK a : a = CloseOp(v, over)
    OBVIOUS
  <2>2. /\ a \in {"FINISH", "ERROR_TIMEOUT", "MARK_RENDEZVOUS_CLOSED"}
        /\ a \in Quiet \/ Allowed(a, v, n)
    BY <1>g, <2>1, OpsFit, OpsAllowed
  <2>3. pc[n] = "close" /\ UNCHANGED <<world, roleInfo, stalled>>
    BY <1>3 DEF Close
  <2>4. CASE Proceed(n, v, a) /\ pc' = pc
    BY <1>0, <2>2, <2>3, <2>4, ProceedWorlds
  <2>5. CASE Sync(n, None) /\ pc' = [pc EXCEPT ![n] = "left"]
    <3>1. "left" \in Gone
      BY DEF Gone
    <3> QED
      BY <2>3, <2>5, <3>1, StopWorlds
  <2> QED
    BY <2>0, <2>1, <2>4, <2>5 DEF Goto
<1>4. CASE KeepAlive(n)
  <2>0. PICK a : a = "KEEP_ALIVE"
    OBVIOUS
  <2>1. /\ Active(n) /\ UNCHANGED <<pc, world, roleInfo, stalled>>
        /\ Sync(n, [state |-> v, beat |-> TRUE]) \/ Sync(n, None)
    BY <1>0, <1>4 DEF KeepAlive
  <2>2. CASE Sync(n, None)
    BY <2>1, <2>2, QuietSync
  <2>3. CASE Sync(n, [state |-> v, beat |-> TRUE])
    <3>1. Apply(a, v, n) = v /\ a \in Beats /\ Allowed(a, v, n)
      BY <2>0 DEF Apply, Beats, Allowed
    <3>2. Proceed(n, v, a)
      BY <2>0, <2>3, <3>1 DEF Proceed, Errors
    <3>3. pc[n] # "exit"
      BY <2>1 DEF Active
    <3> QED
      BY <1>0, <2>0, <2>1, <3>1, <3>2, <3>3, ProceedWorlds
  <2> QED
    BY <2>1, <2>2, <2>3
<1> QED
  BY <1>1, <1>2, <1>3, <1>4 DEF Operation

\* One step of the rendezvous and of the agents that use it.
LEMMA StepWorlds ==
  ASSUME IInv, WInv, DOMAIN world = Nodes, [Next]_vars
  PROVE  WInv' /\ DOMAIN world' = Nodes
<1>1. ASSUME NEW n \in Nodes, Operation(n) \/ KeepAlive(n)
      PROVE  WInv' /\ DOMAIN world' = Nodes
  BY <1>1, OperationKeeps
<1>2. ASSUME UNCHANGED <<backend, dirty, pc, world, roleInfo, expired, stalled, formed>>
      PROVE  WInv' /\ DOMAIN world' = Nodes
  BY <1>2 DEF WInv, FormedInv, Ranked, RecordOf, Agrees, NodeOf, CopyOf, WorldOf, Keyed,
              Excused, Failed, Active
<1>3. ASSUME NEW n \in Nodes, KeepAliveFails(n) \/ DeadlinePasses(n)
      PROVE  WInv' /\ DOMAIN world' = Nodes
  BY <1>2, <1>3 DEF KeepAliveFails, DeadlinePasses
<1>4. ASSUME NEW n \in Nodes, StartWorkers(n)
      PROVE  WInv' /\ DOMAIN world' = Nodes
  BY <1>4, StartKeeps DEF StartWorkers
<1>5. ASSUME NEW n \in Nodes, GatherFails(n) \/ FinishRun(n) \/ RestartWorkers(n) \/ Crash(n)
      PROVE  WInv' /\ DOMAIN world' = Nodes
  <2>1. PICK l : /\ l \in Gone \/ (l = "exit" /\ pc[n] = "run")
                 /\ pc' = [pc EXCEPT ![n] = l] /\ world' = [world EXCEPT ![n] = None]
                 /\ dirty' = dirty \/ dirty' = [dirty EXCEPT ![n] = None]
                 /\ UNCHANGED <<backend, roleInfo, expired, stalled, formed>>
    BY <1>5 DEF GatherFails, FinishRun, RestartWorkers, Crash, Leave, Goto, Gone
  <2> QED
    BY <2>1, DepartKeeps
<1>6. ASSUME NEW n \in Nodes, MonitorWorkers(n)
      PROVE  WInv' /\ DOMAIN world' = Nodes
  <2>1. /\ pc[n] = "run" /\ Sync(n, None) /\ UNCHANGED <<roleInfo, stalled>>
        /\ \/ pc' = [pc EXCEPT ![n] = "exit"] /\ world' = [world EXCEPT ![n] = None]
           \/ UNCHANGED <<pc, world>>
    BY <1>6 DEF MonitorWorkers, Leave, Goto, nodeVars
  <2>2. CASE pc' = [pc EXCEPT ![n] = "exit"] /\ world' = [world EXCEPT ![n] = None]
    BY <2>1, <2>2, RestartWorlds
  <2>3. CASE UNCHANGED <<pc, world>>
    BY <2>1, <2>3, QuietSync
  <2> QED
    BY <2>1, <2>2, <2>3
<1>7. ASSUME NEW n \in Nodes, Expire(n) \/ Stall(n)
      PROVE  WInv' /\ DOMAIN world' = Nodes
  BY <1>7, ExpireKeeps DEF Expire, Stall, nodeVars
<1>8. CASE LastCall
  BY <1>8, LastCallWorlds DEF LastCall, nodeVars
<1>9. CASE UNCHANGED vars
  BY <1>2, <1>9 DEF vars, nodeVars
<1> QED
  BY <1>1, <1>3, <1>4, <1>5, <1>6, <1>7, <1>8, <1>9 DEF Next

\* The members of a round leave it only when they fail or when all of them have
\* left next_rendezvous(), whatever the nodes, the timeouts and the failures do.
THEOREM WorldInvariant == Spec => []WInv
<1>1. IInv /\ WInv /\ DOMAIN world = Nodes /\ [Next]_vars => WInv' /\ (DOMAIN world = Nodes)'
  BY StepWorlds
<1> QED
  BY <1>1, InitWorlds, Records, PTL DEF Spec

\* Consistency of next_rendezvous(): every member of a round has the rank it was
\* given when the round completed and, unless a member has failed, stopped or was
\* too slow, the same world size.
THEOREM RendezvousWorldAgrees == Spec => []WorldAgrees
<1>1. WInv => WorldAgrees
  <2> SUFFICES ASSUME WInv, NEW n \in Nodes, Active(n)
               PROVE  LET P == formed[world[n].round] size == Cardinality(DOMAIN P) IN
                      /\ n \in DOMAIN P /\ world[n].rank = P[n]
                      /\ {P[m] : m \in DOMAIN P} = 0..(size - 1) /\ size \in MinNodes..MaxNodes
                      /\ \/ world[n].size = size
                         \/ /\ world[n].size < size
                            /\ \E m \in DOMAIN P : pc[m] \in Gone \/ m \in stalled
    BY DEF WorldAgrees
  <2>0. PICK r, P : r = world[n].round /\ P = formed[r]
    OBVIOUS
  <2>1. /\ r \in DOMAIN formed /\ n \in DOMAIN P /\ world[n].rank = P[n]
        /\ \/ world[n].size = Cardinality(DOMAIN P)
           \/ /\ world[n].size < Cardinality(DOMAIN P)
              /\ \E m \in DOMAIN P : pc[m] \in Gone \/ m \in stalled
    BY <2>0 DEF WInv, WorldOf, Failed
  <2>2. Ranked(P)
    BY <2>0, <2>1 DEF WInv, FormedInv
  <2>3. /\ {P[m] : m \in DOMAIN P} = 0..(Cardinality(DOMAIN P) - 1)
        /\ Cardinality(DOMAIN P) \in MinNodes..MaxNodes
    BY <2>2 DEF Ranked
  <2> QED
    BY <2>0, <2>1, <2>3
<1> QED
  BY <1>1, WorldInvariant, PTL

\* Exclusivity of the rounds: while the workers of a node run that was never taken
\* for dead, no later round completes.
THEOREM RendezvousExclusive == Spec => []Exclusive
<1>1. IInv /\ WInv => Exclusive
  <2> SUFFICES ASSUME IInv, WInv, NEW n \in Nodes, Active(n), n \notin stalled,
                      NEW r \in DOMAIN formed
               PROVE  r \leq world[n].round
    BY DEF Exclusive
  <2>1. NodeOf(backend, n)
    BY DEF WInv, RecordOf
  <2>2. backend.round = world[n].round /\ backend.round \in Nat
    BY <2>1 DEF NodeOf, IInv, RecordInv, Good, Record
  <2>3. r \in Nat /\ (r < backend.round \/ r = backend.round)
    BY DEF WInv, FormedInv
  <2> QED
    BY <2>2, <2>3
<1> QED
  BY <1>1, WorldInvariant, Records, PTL
=============================================================================
