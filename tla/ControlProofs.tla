---------------------------- MODULE ControlProofs -----------------------------
(***************************************************************************)
(* Theorems about the services of Control, for every set of callers,       *)
(* requests, headers and targets and every bound.                          *)
(*                                                                         *)
(* Each service has an invariant of its own, stronger than what it         *)
(* promises: a call or a delivery that has stopped half way knows what it  *)
(* has read, and nothing it has read can change but in one direction.      *)
(* TransitionsSound     the log of an object climbs its graph, and a call  *)
(*                      holds a version the log has reached                *)
(* ConfigurationSound   revisions build on each other, and a candidate is  *)
(*                      of the revisions it names until it is stale        *)
(* LedgerSound          who is answered or refused left an entry behind    *)
(* ReconciliationSound  a delivery has requested all it has not left to do *)
(* RegistrySound        what a promotion saw of a version at a revision is *)
(*                      so while the version is at that revision           *)
(* GenerationSound      a worker has the operation or has lost it, and     *)
(*                      posts no more than its lease was granted           *)
(* VerificationSound    a result rests on versions no later than those of  *)
(*                      the moment and no earlier than an attestation      *)
(* MaterializerSound    what is pending is what extends the next entry     *)
(***************************************************************************)
EXTENDS Control, FiniteSetTheorems, TLAPS

-----------------------------------------------------------------------------
(* States and transitions, of any graph that only leads upwards in rank.   *)
Ascending(graph, rank) ==
  \A s \in DOMAIN graph :
    /\ rank[s] \in Nat
    /\ \A t \in graph[s] : t \in DOMAIN graph /\ rank[t] \in Nat /\ rank[s] < rank[t]

RowType(graph, keys) ==
  [first : DOMAIN graph, state : DOMAIN graph, version : Nat,
   key : keys \union {None}, terminal : BOOLEAN, log : Seq(keys \X DOMAIN graph)]

(* A row: its states go up in rank, the last is the present one.           *)
RowSound(graph, rank, keys, row) ==
  LET last == Len(row.log) IN
  /\ row \in RowType(graph, keys)
  /\ row.version = last
  /\ row.state = IF last = 0 THEN row.first ELSE row.log[last][2]
  /\ row.key = IF last = 0 THEN None ELSE row.log[last][1]
  /\ \A i \in 1..last : rank[row.first] < rank[row.log[i][2]]
  /\ \A i, j \in 1..last : i < j => rank[row.log[i][2]] < rank[row.log[j][2]]

CallType(objects, states, keys) ==
  [step : {"idle", "update", "missed", "answered"}, object : objects \union {None},
   from : states \union {"none"}, to : states \union {"none"}, key : keys \union {None},
   answer : {"none", "ok", "conflict"}]

Recorded(row, call) == \E i \in 1..Len(row.log) : row.log[i] = <<call.key, call.to>>

(* A call about a row: what it may still do, and what its answer rests on. *)
CallSound(graph, keys, row, call) ==
  /\ call.answer = "none" <=> call.step # "answered"
  /\ call.step # "idle" =>
       /\ call.key \in keys
       /\ call.from \in T!Seen(row) /\ call.from \in DOMAIN graph
       /\ call.to \in graph[call.from]
  /\ call.step = "missed" \/ call.answer = "conflict" => call.from # row.state
  /\ call.answer = "ok" => Recorded(row, call)

(* A row has been in no state that is above its present one.               *)
LEMMA SeenBelow ==
  ASSUME NEW graph, NEW rank, Ascending(graph, rank), NEW keys, NEW row,
         RowSound(graph, rank, keys, row), NEW s \in T!Seen(row)
  PROVE  /\ s \in DOMAIN graph /\ rank[s] \in Nat
         /\ s = row.state \/ rank[s] < rank[row.state]
<1>1. s \in DOMAIN graph
  BY DEF RowSound, RowType, T!Seen
<1>2. s = row.state \/ rank[s] < rank[row.state]
  BY DEF RowSound, RowType, T!Seen
<1> QED
  BY <1>1, <1>2 DEF Ascending

LEMMA NoStateTwice ==
  ASSUME NEW graph, NEW rank, Ascending(graph, rank), NEW keys, NEW row,
         RowSound(graph, rank, keys, row),
         NEW i \in 1..Len(row.log), NEW j \in 1..Len(row.log), row.log[i][2] = row.log[j][2]
  PROVE  i = j
<1>1. /\ row.log \in Seq(keys \X DOMAIN graph) /\ Len(row.log) \in Nat
      /\ i \in 1..Len(row.log) /\ row.log[i] \in keys \X DOMAIN graph
  BY DEF RowSound, RowType
<1>2. rank[row.log[i][2]] \in Nat
  BY <1>1 DEF Ascending
<1>3. ~(i < j) /\ ~(j < i)
  BY <1>1, <1>2 DEF RowSound
<1> QED
  BY <1>1, <1>3

(* What a change leaves as it was.                                         *)
LEMMA ChangedSound ==
  ASSUME NEW graph, NEW rank, Ascending(graph, rank), NEW keys, NEW row,
         RowSound(graph, rank, keys, row),
         NEW to \in graph[row.state], NEW key \in keys
  PROVE  /\ RowSound(graph, rank, keys, T!Changed(row, to, key))
         /\ T!Changed(row, to, key).state = to
         /\ T!Changed(row, to, key).version = row.version + 1
         /\ Recorded(T!Changed(row, to, key), [key |-> key, to |-> to])
         /\ \A s \in T!Seen(row) : s \in T!Seen(T!Changed(row, to, key)) /\ s # to
         /\ \A i \in 1..Len(row.log) :
              i \in 1..Len(T!Changed(row, to, key).log)
                /\ T!Changed(row, to, key).log[i] = row.log[i]
<1> DEFINE next == T!Changed(row, to, key)
           last == Len(row.log)
           n == Len(next.log)
<1>1. row \in RowType(graph, keys) /\ row.version = last
  BY DEF RowSound
<1>2. row.state \in DOMAIN graph /\ last \in Nat /\ row.log \in Seq(keys \X DOMAIN graph)
  BY <1>1 DEF RowType
<1>3. to \in DOMAIN graph /\ rank[row.state] \in Nat /\ rank[to] \in Nat
      /\ rank[row.state] < rank[to]
  BY <1>2 DEF Ascending
<1>4. \A s \in T!Seen(row) : rank[s] < rank[to] /\ s # to
  BY <1>3, SeenBelow
<1>5. /\ next.log = Append(row.log, <<key, to>>)
      /\ next.state = to /\ next.version = row.version + 1 /\ next.key = key
      /\ next.first = row.first /\ next \in RowType(graph, keys)
  <2> DEFINE ended == to = "terminal"
             S == DOMAIN graph
             log == Append(row.log, <<key, to>>)
             changed == [row EXCEPT !.state = to, !.version = row.version + 1, !.key = key,
                                    !.terminal = ended, !.log = log]
  <2>1. next = changed
    BY <1>1 DEF T!Changed, RowType
  <2>2. ended \in BOOLEAN
    OBVIOUS
  <2>3. row \in [first : S, state : S, version : Nat, key : keys \union {None},
                 terminal : BOOLEAN, log : Seq(keys \X S)]
    BY <1>1 DEF RowType
  <2>4. to \in S /\ log \in Seq(keys \X S) /\ row.version + 1 \in Nat
    BY <1>1, <1>2, <1>3
  <2> HIDE DEF ended, S, log
  <2>5. changed \in [first : S, state : S, version : Nat, key : keys \union {None},
                     terminal : BOOLEAN, log : Seq(keys \X S)]
    BY <2>2, <2>3, <2>4
  <2>6. /\ changed.log = log /\ changed.state = to
        /\ changed.version = row.version + 1 /\ changed.key = key
        /\ changed.first = row.first
    BY <2>3
  <2>7. next \in RowType(graph, keys)
    BY <2>1, <2>5 DEF RowType, S
  <2> QED
    BY <2>1, <2>6, <2>7 DEF log
<1>6. /\ n = last + 1
      /\ next.log[last + 1] = <<key, to>>
      /\ \A i \in 1..last : next.log[i] = row.log[i]
  BY <1>2, <1>3, <1>5
<1> HIDE DEF next
<1>7. n \in Nat /\ last + 1 \in 1..n /\ \A i \in 1..n : i = last + 1 \/ i \in 1..last
  <2> HIDE DEF n, last
  <2> QED
    BY <1>2, <1>6
<1>8. \A i \in 1..last : i \in 1..n
  <2> HIDE DEF n, last
  <2> QED
    BY <1>2, <1>6
<1>9. \A s \in T!Seen(row) : s \in T!Seen(next)
  BY <1>5, <1>6, <1>8 DEF T!Seen
<1>10. \A i \in 1..last : row.log[i][2] \in T!Seen(row)
  BY DEF T!Seen
<1>11. RowSound(graph, rank, keys, next)
  <2>1. ASSUME NEW i \in 1..n PROVE rank[next.first] < rank[next.log[i][2]]
    <3>1. row.first \in T!Seen(row)
      BY DEF T!Seen
    <3>2. CASE i = last + 1
      BY <1>4, <1>5, <1>6, <3>1, <3>2
    <3>3. CASE i \in 1..last
      BY <1>5, <1>6, <3>3 DEF RowSound
    <3> QED
      BY <1>7, <3>2, <3>3
  <2>2. ASSUME NEW i \in 1..n, NEW j \in 1..n, i < j
        PROVE  rank[next.log[i][2]] < rank[next.log[j][2]]
    <3>1. i \in 1..last
      <4> HIDE DEF n, last
      <4> QED
        BY <1>2, <1>6, <2>2
    <3>2. CASE j = last + 1
      BY <1>4, <1>6, <1>10, <3>1, <3>2
    <3>3. CASE j \in 1..last
      <4>1. rank[row.log[i][2]] < rank[row.log[j][2]]
        BY <2>2, <3>1, <3>3 DEF RowSound
      <4> QED
        BY <1>6, <3>1, <3>3, <4>1
    <3> QED
      BY <1>7, <3>2, <3>3
  <2>3. next.version = n /\ n # 0 /\ next.state = next.log[n][2] /\ next.key = next.log[n][1]
    BY <1>1, <1>2, <1>5, <1>6
  <2> QED
    BY <1>5, <2>1, <2>2, <2>3 DEF RowSound
<1>12. Recorded(next, [key |-> key, to |-> to])
  BY <1>6, <1>7 DEF Recorded
<1> QED
  BY <1>4, <1>5, <1>6, <1>8, <1>9, <1>11, <1>12 DEF next

(* A call beside a change of its row.                                      *)
LEMMA OtherCallSound ==
  ASSUME NEW graph, NEW rank, Ascending(graph, rank), NEW keys, NEW row,
         RowSound(graph, rank, keys, row),
         NEW call, CallSound(graph, keys, row, call),
         NEW to \in graph[row.state], NEW key \in keys
  PROVE  CallSound(graph, keys, T!Changed(row, to, key), call)
<1> DEFINE next == T!Changed(row, to, key)
<1>1. /\ RowSound(graph, rank, keys, next)
      /\ next.state = to
      /\ next.version = row.version + 1
      /\ Recorded(next, [key |-> key, to |-> to])
      /\ \A s \in T!Seen(row) : s \in T!Seen(next) /\ s # to
      /\ \A i \in 1..Len(row.log) : i \in 1..Len(next.log) /\ next.log[i] = row.log[i]
  BY ChangedSound
<1> HIDE DEF next
<1>2. Recorded(row, call) => Recorded(next, call)
  BY <1>1 DEF Recorded
<1>3. call.answer = "conflict" => call.step # "idle"
  BY DEF CallSound
<1> QED
  BY <1>1, <1>2, <1>3 DEF CallSound, next

LEMMA AskedCallSound ==
  ASSUME NEW graph, NEW keys, NEW row, NEW from \in T!Seen(row), from \in DOMAIN graph,
         NEW to \in graph[from], NEW key \in keys, NEW o
  PROVE  CallSound(graph, keys, row,
           [step |-> "update", object |-> o, from |-> from, to |-> to, key |-> key,
            answer |-> "none"])
BY DEF CallSound

LEMMA NoCallSound ==
  ASSUME NEW graph, NEW keys, NEW row
  PROVE  CallSound(graph, keys, row, T!NoCall)
BY DEF CallSound, T!NoCall

LEMMA MissedCallSound ==
  ASSUME NEW graph, NEW keys, NEW row, NEW objects, NEW states,
         NEW call \in CallType(objects, states, keys), CallSound(graph, keys, row, call),
         call.step = "update", row.state # call.from
  PROVE  LET next == [call EXCEPT !.step = "missed"] IN
         next \in CallType(objects, states, keys) /\ CallSound(graph, keys, row, next)
<1> DEFINE next == [call EXCEPT !.step = "missed"]
<1>1. next \in CallType(objects, states, keys)
  BY DEF CallType
<1>2. /\ next.step = "missed" /\ next.from = call.from /\ next.to = call.to
      /\ next.key = call.key /\ next.answer = call.answer
  BY DEF CallType
<1>3. CallSound(graph, keys, row, next)
  BY <1>2 DEF CallSound, Recorded
<1> QED
  BY <1>1, <1>3

(* The UPDATE was made, or the SELECT found what it found.                 *)
LEMMA AnsweredCallSound ==
  ASSUME NEW graph, NEW keys, NEW row, NEW objects, NEW states,
         NEW call \in CallType(objects, states, keys),
         call.key \in keys, call.from \in T!Seen(row), call.from \in DOMAIN graph,
         call.to \in graph[call.from],
         NEW answer \in {"ok", "conflict"},
         answer = "ok" => Recorded(row, call),
         answer = "conflict" => call.from # row.state
  PROVE  LET next == [call EXCEPT !.step = "answered", !.answer = answer] IN
         next \in CallType(objects, states, keys) /\ CallSound(graph, keys, row, next)
<1> DEFINE next == [call EXCEPT !.step = "answered", !.answer = answer]
<1>1. next \in CallType(objects, states, keys)
  BY DEF CallType
<1>2. /\ next.step = "answered" /\ next.from = call.from /\ next.to = call.to
      /\ next.key = call.key /\ next.answer = answer
  BY DEF CallType
<1>3. CallSound(graph, keys, row, next)
  BY <1>2 DEF CallSound, Recorded
<1> QED
  BY <1>1, <1>3

(* The row is where the call wants it, by its key: it is in its history.   *)
LEMMA RepeatedIsRecorded ==
  ASSUME NEW graph, NEW rank, NEW keys, None \notin keys, NEW row,
         RowSound(graph, rank, keys, row), NEW call, call.key \in keys,
         T!Repeated(row, call)
  PROVE  Recorded(row, call)
<1> DEFINE last == Len(row.log)
<1>1. row.log \in Seq(keys \X DOMAIN graph) /\ last \in Nat /\ last # 0
  BY DEF RowSound, RowType, T!Repeated
<1>2. last \in 1..last
  <2> HIDE DEF last
  <2> QED
    BY <1>1
<1>3. row.log[last] \in keys \X DOMAIN graph
  BY <1>1, <1>2
<1>4. row.log[last] = <<call.key, call.to>>
  BY <1>1, <1>3 DEF RowSound, T!Repeated
<1> QED
  BY <1>2, <1>4 DEF Recorded

LEMMA RetriedCallSound ==
  ASSUME NEW graph, NEW keys, NEW row, NEW objects, NEW states,
         NEW call \in CallType(objects, states, keys), CallSound(graph, keys, row, call),
         call.step = "answered"
  PROVE  LET next == [call EXCEPT !.step = "update", !.answer = "none"] IN
         next \in CallType(objects, states, keys) /\ CallSound(graph, keys, row, next)
<1> DEFINE next == [call EXCEPT !.step = "update", !.answer = "none"]
<1>1. next \in CallType(objects, states, keys)
  BY DEF CallType
<1>2. /\ next.step = "update" /\ next.from = call.from /\ next.to = call.to
      /\ next.key = call.key /\ next.answer = "none"
  BY DEF CallType
<1>3. CallSound(graph, keys, row, next)
  BY <1>2 DEF CallSound, Recorded
<1> QED
  BY <1>1, <1>3

-----------------------------------------------------------------------------
(* The graphs of the code, each with how far along every state is.         *)
CandidateRank ==
  [draft |-> 0, static_rejected |-> 1, ready_for_validation |-> 1, validating |-> 2,
   validation_failed |-> 3, inconclusive |-> 3, verified |-> 3, approved |-> 4,
   applied |-> 5, stale |-> 5]

JobRank ==
  [queued |-> 0, provisioning |-> 1, preflight |-> 2, source_prepare |-> 3,
   resolve |-> 4, install |-> 5, build |-> 6, test |-> 7, smoke |-> 8, benchmark |-> 9,
   evidence_persist |-> 10, cleanup |-> 11, terminal |-> 12]

RecommendationRank ==
  [draft |-> 0, reviewable |-> 1, approved |-> 2, applied |-> 3, invalidated |-> 3,
   rejected |-> 3, superseded |-> 3]

Rank(o) == CASE KindOf[o] = "candidate" -> CandidateRank
             [] KindOf[o] = "job" -> JobRank
             [] OTHER -> RecommendationRank

LEMMA GraphsAscend ==
  ASSUME NEW o
  PROVE  Ascending(T!Graph(o), Rank(o))
<1>1. CASE KindOf[o] = "candidate"
  BY <1>1 DEF Ascending, T!Graph, T!candidateTransitions, Rank, CandidateRank
<1>2. CASE KindOf[o] = "job"
  BY <1>2 DEF Ascending, T!Graph, T!validationJobTransitions, Rank, JobRank
<1>3. CASE KindOf[o] \notin {"candidate", "job"}
  BY <1>3 DEF Ascending, T!Graph, T!recommendationTransitions, Rank, RecommendationRank
<1> QED
  BY <1>1, <1>2, <1>3

OneRowSound(o) ==
  /\ RowSound(T!Graph(o), Rank(o), TransitionKeys, rows[o])
  /\ rows[o].version <= MaxTransitions

OneCallSound(call) ==
  /\ call.step # "idle" =>
       /\ call.object \in DOMAIN rows
       /\ call.from = rows[call.object].state => rows[call.object].version < MaxTransitions
  /\ CallSound(T!Graph(call.object), TransitionKeys, rows[call.object], call)

TransitionsSound ==
  /\ DOMAIN rows \subseteq Objects
  /\ \A o \in DOMAIN rows : OneRowSound(o)
  /\ transitions \in [Callers -> T!Call]
  /\ \A c \in Callers : OneCallSound(transitions[c])

LEMMA CallIsTyped == T!Call = CallType(Objects, T!AllStates, TransitionKeys)
BY DEF T!Call, CallType

LEMMA InitTransitionsSound == T!TransitionsAssumption /\ T!Init => TransitionsSound
<1> SUFFICES ASSUME T!TransitionsAssumption, T!Init PROVE TransitionsSound
  OBVIOUS
<1>1. PICK o \in Objects : \E s \in T!States(o) \ {"terminal"} :
        rows = [x \in {o} |-> [state |-> s, first |-> s, version |-> 0, key |-> None,
                               terminal |-> FALSE, log |-> <<>>]]
  BY DEF T!Init
<1>2. PICK s \in T!States(o) \ {"terminal"} :
        rows = [x \in {o} |-> [state |-> s, first |-> s, version |-> 0, key |-> None,
                               terminal |-> FALSE, log |-> <<>>]]
  BY <1>1
<1>3. transitions = [c \in Callers |-> T!NoCall]
  BY DEF T!Init
<1>4. DOMAIN rows = {o} /\ rows[o] = [state |-> s, first |-> s, version |-> 0, key |-> None,
                                      terminal |-> FALSE, log |-> <<>>]
  BY <1>2
<1>5. OneRowSound(o)
  BY <1>4 DEF OneRowSound, RowSound, RowType, T!States, T!TransitionsAssumption
<1>6. T!NoCall \in T!Call
  BY DEF T!NoCall, T!Call
<1>7. OneCallSound(T!NoCall)
  BY NoCallSound DEF T!NoCall, OneCallSound
<1> QED
  BY <1>3, <1>4, <1>5, <1>6, <1>7 DEF TransitionsSound

(* A call moves on beside a row that stays as it is.                       *)
LEMMA CallMoves ==
  ASSUME TransitionsSound, UNCHANGED rows, NEW c \in Callers, NEW call \in T!Call,
         transitions' = [transitions EXCEPT ![c] = call], OneCallSound(call)
  PROVE  TransitionsSound'
<1>1. transitions' \in [Callers -> T!Call] /\ transitions'[c] = call
  BY DEF TransitionsSound
<1>2. ASSUME NEW d \in Callers, d # c PROVE OneCallSound(transitions[d])'
  <2>1. transitions'[d] = transitions[d] /\ OneCallSound(transitions[d])
    BY <1>2 DEF TransitionsSound
  <2> QED
    BY <2>1 DEF OneCallSound, T!Graph
<1>3. OneCallSound(call)'
  BY DEF OneCallSound, T!Graph
<1>4. ASSUME NEW o \in DOMAIN rows PROVE OneRowSound(o)'
  BY DEF TransitionsSound, OneRowSound, T!Graph, Rank
<1> QED
  BY <1>1, <1>2, <1>3, <1>4 DEF TransitionsSound

LEMMA AskSound ==
  ASSUME TransitionsSound, NEW c \in Callers, T!Ask(c)
  PROVE  TransitionsSound'
<1>1. UNCHANGED rows /\ \A o \in DOMAIN rows : rows[o].version < MaxTransitions
  BY DEF T!Ask
<1>2. PICK o \in DOMAIN rows, key \in TransitionKeys, outcome \in BOOLEAN :
        \E from \in T!Seen(rows[o]), to \in T!States(o) :
          /\ T!Allowed(o, from, to, outcome)
          /\ transitions' = [transitions EXCEPT ![c] =
               [step |-> "update", object |-> o, from |-> from, to |-> to, key |-> key,
                answer |-> "none"]]
  BY DEF T!Ask
<1>3. PICK from \in T!Seen(rows[o]), to \in T!States(o) :
        /\ T!Allowed(o, from, to, outcome)
        /\ transitions' = [transitions EXCEPT ![c] =
             [step |-> "update", object |-> o, from |-> from, to |-> to, key |-> key,
              answer |-> "none"]]
  BY <1>2
<1> DEFINE call == [step |-> "update", object |-> o, from |-> from, to |-> to, key |-> key,
                    answer |-> "none"]
<1>4. o \in Objects /\ to \in T!Graph(o)[from]
  BY <1>3 DEF TransitionsSound, T!Allowed
<1>5. from \in T!States(o)
  BY SeenBelow, GraphsAscend DEF TransitionsSound, OneRowSound, T!States
<1>6. from \in T!AllStates /\ to \in T!AllStates
  BY <1>4, <1>5 DEF T!AllStates
<1>7. call \in T!Call
  BY <1>4, <1>6 DEF T!Call
<1>8. CallSound(T!Graph(o), TransitionKeys, rows[o], call)
  BY <1>4, <1>5, AskedCallSound DEF T!States
<1>9. OneCallSound(call)
  BY <1>1, <1>8 DEF OneCallSound
<1> QED
  BY <1>1, <1>3, <1>7, <1>9, CallMoves

LEMMA UpdateSound ==
  ASSUME T!TransitionsAssumption, TransitionsSound, NEW c \in Callers, T!Update(c)
  PROVE  TransitionsSound'
<1>1. PICK call \in T!Call : call = transitions[c]
  BY DEF TransitionsSound
<1>2. PICK o : o = call.object
  OBVIOUS
<1> DEFINE row == rows[o]
           graph == T!Graph(o)
<1>3. /\ call.step = "update" /\ OneCallSound(call)
      /\ CallSound(graph, TransitionKeys, row, call)
  BY <1>1, <1>2 DEF T!Update, TransitionsSound, OneCallSound
<1>4. /\ o \in DOMAIN rows /\ call.key \in TransitionKeys
      /\ call.from \in T!Seen(row) /\ call.from \in DOMAIN graph
      /\ call.to \in graph[call.from]
      /\ call.from = row.state => row.version < MaxTransitions
  BY <1>2, <1>3 DEF OneCallSound, CallSound
<1>5. CASE row.state # call.from
  <2> DEFINE next == [call EXCEPT !.step = "missed"]
  <2>1. transitions' = [transitions EXCEPT ![c] = next] /\ UNCHANGED rows
    BY <1>1, <1>2, <1>5 DEF T!Update
  <2>2. call \in CallType(Objects, T!AllStates, TransitionKeys)
    BY CallIsTyped
  <2>3. /\ next \in CallType(Objects, T!AllStates, TransitionKeys)
        /\ CallSound(graph, TransitionKeys, row, next)
    BY <1>3, <1>5, <2>2, MissedCallSound
  <2>4. next.step = "missed" /\ next.object = o /\ next.from = call.from
    BY <1>2 DEF T!Call
  <2>5. OneCallSound(next)
    BY <1>4, <2>3, <2>4 DEF OneCallSound
  <2> QED
    BY <2>1, <2>3, <2>5, CallMoves, CallIsTyped
<1>6. CASE row.state = call.from
  <2> DEFINE changed == T!Changed(row, call.to, call.key)
             next == [call EXCEPT !.step = "answered", !.answer = "ok"]
  <2>1. /\ rows' = [rows EXCEPT ![o] = changed]
        /\ transitions' = [transitions EXCEPT ![c] = next]
    BY <1>1, <1>2, <1>6 DEF T!Update, T!Answered
  <2>2. RowSound(graph, Rank(o), TransitionKeys, row) /\ Ascending(graph, Rank(o))
    BY <1>4, GraphsAscend DEF TransitionsSound, OneRowSound
  <2>3. call.to \in graph[row.state] /\ row.version < MaxTransitions /\ row.version \in Nat
    BY <1>4, <1>6, <2>2 DEF RowSound, RowType
  <2>4. /\ RowSound(graph, Rank(o), TransitionKeys, changed)
        /\ changed.state = call.to
        /\ changed.version = row.version + 1
        /\ Recorded(changed, [key |-> call.key, to |-> call.to])
        /\ \A s \in T!Seen(row) : s \in T!Seen(changed) /\ s # call.to
        /\ \A i \in 1..Len(row.log) :
             i \in 1..Len(changed.log) /\ changed.log[i] = row.log[i]
    BY <1>4, <2>2, <2>3, ChangedSound
  <2> HIDE DEF changed
  <2>5. Recorded(changed, call)
    BY <2>4 DEF Recorded
  <2>6. call \in CallType(Objects, T!AllStates, TransitionKeys)
    BY CallIsTyped
  <2>7. /\ next \in CallType(Objects, T!AllStates, TransitionKeys)
        /\ CallSound(graph, TransitionKeys, changed, next)
    BY <1>4, <2>4, <2>5, <2>6, AnsweredCallSound
  <2>8. next.step = "answered" /\ next.object = o /\ next.from = call.from
    BY <1>2 DEF T!Call
  <2>9. /\ rows'[o] = changed /\ DOMAIN rows' = DOMAIN rows
        /\ \A p \in DOMAIN rows \ {o} : rows'[p] = rows[p]
    BY <1>4, <2>1
  <2>10. /\ transitions' \in [Callers -> T!Call] /\ transitions'[c] = next
         /\ \A d \in Callers \ {c} : transitions'[d] = transitions[d]
    BY <2>1, <2>7, CallIsTyped DEF TransitionsSound
  <2> HIDE DEF next
  <2>11. OneCallSound(transitions[c])'
    BY <1>4, <2>4, <2>7, <2>8, <2>9, <2>10 DEF OneCallSound, T!Graph
  <2>12. ASSUME NEW d \in Callers, d # c PROVE OneCallSound(transitions[d])'
    <3>1. PICK other : other = transitions[d]
      OBVIOUS
    <3>2. OneCallSound(other) /\ transitions'[d] = other
      BY <2>10, <2>12, <3>1 DEF TransitionsSound
    <3>3. CASE other.object # o
      <4>1. rows'[other.object] = rows[other.object]
        BY <2>1, <3>3
      <4> QED
        BY <2>9, <3>2, <4>1 DEF OneCallSound, T!Graph
    <3>4. CASE other.object = o
      <4>1. CallSound(graph, TransitionKeys, row, other)
        BY <3>2, <3>4 DEF OneCallSound
      <4>2. CallSound(graph, TransitionKeys, changed, other)
        BY <1>4, <2>2, <2>3, <4>1, OtherCallSound DEF changed
      <4>3. other.step # "idle" => other.from \in T!Seen(row)
        BY <4>1 DEF CallSound
      <4> QED
        BY <2>4, <2>9, <3>2, <3>4, <4>2, <4>3 DEF OneCallSound, T!Graph
    <3> QED
      BY <3>3, <3>4
  <2>13. OneRowSound(o)'
    <3>1. row.version + 1 <= MaxTransitions
      BY <2>3 DEF T!TransitionsAssumption
    <3> QED
      BY <2>4, <2>9, <3>1 DEF OneRowSound, T!Graph, Rank
  <2>14. ASSUME NEW p \in DOMAIN rows, p # o PROVE OneRowSound(p)'
    <3>1. OneRowSound(p) /\ rows'[p] = rows[p]
      BY <2>9, <2>14 DEF TransitionsSound
    <3> QED
      BY <3>1 DEF OneRowSound, T!Graph, Rank
  <2>15. \A p \in DOMAIN rows : OneRowSound(p)'
    BY <2>13, <2>14
  <2>16. \A d \in Callers : OneCallSound(transitions[d])'
    BY <2>11, <2>12
  <2> QED
    BY <2>9, <2>10, <2>15, <2>16 DEF TransitionsSound
<1> QED
  BY <1>5, <1>6

LEMMA ResolveSound ==
  ASSUME T!TransitionsAssumption, TransitionsSound, NEW c \in Callers, T!Resolve(c)
  PROVE  TransitionsSound'
<1>1. PICK call \in T!Call : call = transitions[c]
  BY DEF TransitionsSound
<1>2. PICK o : o = call.object
  OBVIOUS
<1> DEFINE row == rows[o]
           answer == IF T!Repeated(row, call) THEN "ok" ELSE "conflict"
           next == [call EXCEPT !.step = "answered", !.answer = answer]
<1>3. /\ call.step = "missed" /\ OneCallSound(call)
      /\ CallSound(T!Graph(o), TransitionKeys, row, call)
  BY <1>1, <1>2 DEF T!Resolve, TransitionsSound, OneCallSound
<1>4. /\ o \in DOMAIN rows /\ call.key \in TransitionKeys
      /\ call.from \in T!Seen(row) /\ call.from \in DOMAIN T!Graph(o)
      /\ call.to \in T!Graph(o)[call.from] /\ call.from # row.state
  BY <1>2, <1>3 DEF OneCallSound, CallSound
<1>5. RowSound(T!Graph(o), Rank(o), TransitionKeys, row)
  BY <1>4 DEF TransitionsSound, OneRowSound
<1>6. answer = "ok" => Recorded(row, call)
  BY <1>4, <1>5, RepeatedIsRecorded DEF T!TransitionsAssumption
<1>7. transitions' = [transitions EXCEPT ![c] = next] /\ UNCHANGED rows
  BY <1>1, <1>2 DEF T!Resolve, T!Answered
<1>8. answer \in {"ok", "conflict"} /\ call \in CallType(Objects, T!AllStates, TransitionKeys)
  BY CallIsTyped
<1> HIDE DEF answer
<1>9. /\ next \in CallType(Objects, T!AllStates, TransitionKeys)
      /\ CallSound(T!Graph(o), TransitionKeys, row, next)
  BY <1>4, <1>6, <1>8, AnsweredCallSound
<1>10. next.object = o /\ next.from = call.from
  BY <1>2 DEF T!Call
<1>11. OneCallSound(next)
  BY <1>4, <1>9, <1>10 DEF OneCallSound
<1> QED
  BY <1>7, <1>9, <1>11, CallMoves, CallIsTyped

LEMMA RetrySound ==
  ASSUME TransitionsSound, NEW c \in Callers, T!Retry(c)
  PROVE  TransitionsSound'
<1>1. PICK call \in T!Call : call = transitions[c]
  BY DEF TransitionsSound
<1>2. PICK o : o = call.object
  OBVIOUS
<1> DEFINE row == rows[o]
           next == [call EXCEPT !.step = "update", !.answer = "none"]
<1>3. /\ call.step = "answered" /\ OneCallSound(call)
      /\ CallSound(T!Graph(o), TransitionKeys, row, call)
  BY <1>1, <1>2 DEF T!Retry, TransitionsSound, OneCallSound
<1>4. call \in CallType(Objects, T!AllStates, TransitionKeys)
  BY CallIsTyped
<1>5. /\ next \in CallType(Objects, T!AllStates, TransitionKeys)
      /\ CallSound(T!Graph(o), TransitionKeys, row, next)
  BY <1>3, <1>4, RetriedCallSound
<1>6. next.object = o /\ next.from = call.from
  BY <1>2 DEF T!Call
<1>7. OneCallSound(next)
  BY <1>2, <1>3, <1>5, <1>6 DEF OneCallSound
<1>8. transitions' = [transitions EXCEPT ![c] = next] /\ UNCHANGED rows
  BY <1>1 DEF T!Retry
<1> QED
  BY <1>5, <1>7, <1>8, CallMoves, CallIsTyped

LEMMA ForgetSound ==
  ASSUME TransitionsSound, NEW c \in Callers, T!Forget(c)
  PROVE  TransitionsSound'
<1>1. transitions' = [transitions EXCEPT ![c] = T!NoCall] /\ UNCHANGED rows
  BY DEF T!Forget
<1>2. T!NoCall \in T!Call
  BY DEF T!NoCall, T!Call
<1>3. OneCallSound(T!NoCall)
  BY NoCallSound DEF T!NoCall, OneCallSound
<1> QED
  BY <1>1, <1>2, <1>3, CallMoves

LEMMA TransitionsSoundAlways ==
  ASSUME T!TransitionsAssumption
  PROVE  T!Spec => []TransitionsSound
<1>1. T!Init => TransitionsSound
  BY InitTransitionsSound
<1>2. TransitionsSound /\ [T!Next]_T!vars => TransitionsSound'
  <2> SUFFICES ASSUME TransitionsSound, [T!Next]_T!vars PROVE TransitionsSound'
    OBVIOUS
  <2>1. ASSUME NEW c \in Callers,
               T!Ask(c) \/ T!Update(c) \/ T!Resolve(c) \/ T!Retry(c) \/ T!Forget(c)
        PROVE  TransitionsSound'
    BY <2>1, AskSound, UpdateSound, ResolveSound, RetrySound, ForgetSound
  <2>2. CASE UNCHANGED T!vars
    <3>1. UNCHANGED rows /\ UNCHANGED transitions
      BY <2>2 DEF T!vars
    <3>2. ASSUME NEW o \in DOMAIN rows PROVE OneRowSound(o)'
      BY <3>1 DEF TransitionsSound, OneRowSound, T!Graph, Rank
    <3>3. ASSUME NEW c \in Callers PROVE OneCallSound(transitions[c])'
      <4>1. OneCallSound(transitions[c]) /\ transitions'[c] = transitions[c]
        BY <3>1 DEF TransitionsSound
      <4> QED
        BY <3>1, <4>1 DEF OneCallSound, T!Graph
    <3> QED
      BY <3>1, <3>2, <3>3 DEF TransitionsSound
  <2> QED
    BY <2>1, <2>2 DEF T!Next
<1> QED
  BY <1>1, <1>2, PTL DEF T!Spec

LEMMA TransitionsTyped == TransitionsSound => T!TypeOK
<1> SUFFICES ASSUME TransitionsSound, NEW o \in DOMAIN rows
             PROVE  /\ rows[o] \in T!Row(o)
                    /\ rows[o].version = Len(rows[o].log)
                    /\ rows[o].version <= MaxTransitions
  BY DEF TransitionsSound, T!TypeOK
<1> QED
  BY DEF TransitionsSound, OneRowSound, RowSound, RowType, T!Row, T!States

LEMMA TransitionsAnswerTrue == TransitionsSound => T!AnswersTrue
<1> SUFFICES ASSUME TransitionsSound PROVE T!AnswersTrue
  OBVIOUS
<1>1. ASSUME NEW c \in Callers
      PROVE  /\ transitions[c].answer = "ok" =>
                  \E i \in 1..Len(rows[transitions[c].object].log) :
                    rows[transitions[c].object].log[i] = <<transitions[c].key, transitions[c].to>>
             /\ transitions[c].answer = "conflict" =>
                  rows[transitions[c].object].state # transitions[c].from
  BY DEF TransitionsSound, OneCallSound, CallSound, Recorded
<1>2. ASSUME NEW o \in DOMAIN rows, NEW i \in 1..Len(rows[o].log),
             NEW j \in 1..Len(rows[o].log), rows[o].log[i][2] = rows[o].log[j][2]
      PROVE  i = j
  BY <1>2, NoStateTwice, GraphsAscend DEF TransitionsSound, OneRowSound
<1> QED
  BY <1>1, <1>2 DEF T!AnswersTrue

-----------------------------------------------------------------------------
(* Configuration: what a document may be, and what an edit makes of it.    *)
Document(kind) ==
  CASE kind = "project_goal" -> [base : Nat, sound : BOOLEAN]
    [] kind = "behavior_contract" ->
         [base : Nat, sound : BOOLEAN, review : {"needs_review", "accepted"},
          steps : SUBSET Steps, enabled : SUBSET Steps]
    [] OTHER -> [base : Nat, sound : BOOLEAN, guard : {"as it was", "changed", "gone"},
                 extra : BOOLEAN]

(* next is what an edit of current may be.                                 *)
Follows(kind, current, next) ==
  /\ kind = "behavior_contract" =>
       /\ next.enabled \subseteq next.steps
       /\ next.review = "accepted" =>
            /\ next.enabled \intersect Checks # {}
            /\ next.steps = current.steps /\ next.enabled = current.enabled
  /\ kind = "optimality_policy" => next.guard = current.guard

LEMMA NextRevisionFollows ==
  ASSUME NEW kind \in E!Kinds, NEW base \in Nat, NEW current \in Document(kind),
         kind = "behavior_contract" => current.enabled \subseteq current.steps,
         AllSound \in BOOLEAN,
         NEW next \in E!NextRevisions(kind, base, current)
  PROVE  next \in Document(kind) /\ next.base = base /\ Follows(kind, current, next)
<1>1. CASE kind = "project_goal"
  <2>1. PICK sound \in BOOLEAN : next = [base |-> base, sound |-> sound]
    BY <1>1 DEF E!NextRevisions, E!RevisedGoals, E!Sendable, E!Goal
  <2> QED
    BY <1>1, <2>1 DEF Document, Follows
<1>2. CASE kind = "behavior_contract"
  <2>1. current \in [base : Nat, sound : BOOLEAN, review : {"needs_review", "accepted"},
                     steps : SUBSET Steps, enabled : SUBSET Steps]
    BY <1>2 DEF Document
  <2> SUFFICES /\ next \in [base : Nat, sound : BOOLEAN, review : {"needs_review", "accepted"},
                            steps : SUBSET Steps, enabled : SUBSET Steps]
               /\ next.base = base /\ next.enabled \subseteq next.steps
               /\ next.review = "accepted" =>
                    /\ next.enabled \intersect Checks # {}
                    /\ next.steps = current.steps /\ next.enabled = current.enabled
    BY <1>2 DEF Document, Follows
  <2>2. CASE next \in E!EditedContracts(base)
    <3>1. PICK steps \in SUBSET Steps \ {{}} :
            next \in {E!Revised(base, sound, steps, enabled) :
                        enabled \in SUBSET steps, sound \in E!Sendable}
      BY <2>2 DEF E!EditedContracts
    <3>2. PICK enabled \in SUBSET steps, sound \in E!Sendable :
            next = E!Revised(base, sound, steps, enabled)
      BY <3>1
    <3> QED
      BY <3>2 DEF E!Revised, E!Contract, E!Sendable
  <2>3. CASE next \in E!ReorderedContracts(base, current)
    BY <1>2, <2>1, <2>3 DEF E!ReorderedContracts, E!Revised, E!Contract
  <2>4. CASE next \in E!SwitchedContracts(base, current)
    <3>1. PICK s \in current.steps :
            \/ next = E!Revised(base, current.sound, current.steps, current.enabled \union {s})
            \/ next = E!Revised(base, current.sound, current.steps, current.enabled \ {s})
      BY <2>4 DEF E!SwitchedContracts
    <3> QED
      BY <1>2, <2>1, <3>1 DEF E!Revised, E!Contract
  <2>5. CASE next \in E!AcceptedContracts(base, current)
    BY <1>2, <2>1, <2>5 DEF E!AcceptedContracts, E!Contract
  <2> QED
    BY <1>2, <2>2, <2>3, <2>4, <2>5 DEF E!NextRevisions
<1>3. CASE kind = "optimality_policy"
  <2>1. next \in E!RevisedPolicies(base, current)
    BY <1>3 DEF E!NextRevisions
  <2>2. /\ next \in [base : {base}, sound : {TRUE}, guard : {"as it was", "changed", "gone"},
                    extra : BOOLEAN]
        /\ next.guard = current.guard
    BY <2>1 DEF E!RevisedPolicies, E!KeepsProtected
  <2>3. /\ next \in [base : Nat, sound : BOOLEAN, guard : {"as it was", "changed", "gone"},
                    extra : BOOLEAN]
        /\ next.base = base
    BY <2>2
  <2> QED
    BY <1>3, <2>2, <2>3 DEF Document, Follows
<1> QED
  BY <1>1, <1>2, <1>3 DEF E!Kinds

(* The revisions of a kind of document: each was made from the one before. *)
ChainSound(kind, docs) ==
  /\ docs \in Seq(Document(kind))
  /\ Len(docs) >= 1
  /\ \A i \in 1..Len(docs) :
       /\ docs[i].base = i - 1 /\ i - 1 <= MaxRevisions
       /\ kind = "behavior_contract" =>
            /\ docs[i].enabled \subseteq docs[i].steps
            /\ docs[i].review = "accepted" =>
                 /\ i # 1 /\ docs[i].enabled \intersect Checks # {}
                 /\ docs[i].steps = docs[i - 1].steps
                 /\ docs[i].enabled = docs[i - 1].enabled
       /\ kind = "optimality_policy" => docs[i].guard = docs[1].guard

(* What a request asks to append follows the revision it was made from.    *)
EditSound(edit) ==
  edit # None =>
    /\ edit.kind \in E!Kinds
    /\ edit.next \in Document(edit.kind)
    /\ edit.next.base \in 1..Len(revisions[edit.kind])
    /\ edit.next.base <= MaxRevisions
    /\ Follows(edit.kind, revisions[edit.kind][edit.next.base], edit.next)

DocumentsSound ==
  /\ DOMAIN revisions = E!Kinds
  /\ \A kind \in E!Kinds : ChainSound(kind, revisions[kind])
  /\ edits \in [Edits -> {None} \union E!AppendConfigurationRevision]
  /\ \A e \in Edits : EditSound(edits[e])

LEMMA AppendedSound ==
  ASSUME NEW kind \in E!Kinds, NEW docs, ChainSound(kind, docs),
         NEW next \in Document(kind), next.base = Len(docs), next.base <= MaxRevisions,
         Follows(kind, docs[Len(docs)], next), MaxRevisions \in Nat
  PROVE  /\ ChainSound(kind, Append(docs, next))
         /\ Len(Append(docs, next)) = Len(docs) + 1
         /\ \A i \in 1..Len(docs) : Append(docs, next)[i] = docs[i]
<1> DEFINE n == Len(docs)
           longer == Append(docs, next)
           m == Len(longer)
<1>1. /\ docs \in Seq(Document(kind)) /\ n \in Nat /\ n >= 1
      /\ longer \in Seq(Document(kind))
  BY DEF ChainSound
<1>2. /\ m = n + 1 /\ longer[n + 1] = next
      /\ \A i \in 1..n : longer[i] = docs[i]
  BY <1>1
<1>3. /\ 1 \in 1..n /\ n \in 1..n
      /\ \A i \in 1..m : i \in 1..n \/ i = n + 1
      /\ \A i \in 1..n : i # 1 => i - 1 \in 1..n
      /\ (n + 1) - 1 = n /\ n + 1 # 1
  <2> HIDE DEF n, m
  <2> QED
    BY <1>1, <1>2
<1>4. longer[1] = docs[1] /\ longer[n] = docs[n]
  BY <1>2, <1>3
<1> DEFINE Good(i) ==
       /\ longer[i].base = i - 1 /\ i - 1 <= MaxRevisions
       /\ kind = "behavior_contract" =>
            /\ longer[i].enabled \subseteq longer[i].steps
            /\ longer[i].review = "accepted" =>
                 /\ i # 1 /\ longer[i].enabled \intersect Checks # {}
                 /\ longer[i].steps = longer[i - 1].steps
                 /\ longer[i].enabled = longer[i - 1].enabled
       /\ kind = "optimality_policy" => longer[i].guard = longer[1].guard
<1>5. ASSUME NEW i \in 1..n PROVE Good(i)
  <2>1. longer[i] = docs[i] /\ (i # 1 => longer[i - 1] = docs[i - 1])
    BY <1>2, <1>3
  <2> QED
    BY <1>4, <2>1 DEF ChainSound
<1>6. Good(n + 1)
  <2>1. /\ next.base = n /\ next.base <= MaxRevisions /\ Follows(kind, docs[n], next)
        /\ kind = "optimality_policy" => docs[n].guard = docs[1].guard
    BY <1>3 DEF ChainSound
  <2> HIDE DEF n, longer
  <2> QED
    BY <1>2, <1>3, <1>4, <2>1 DEF Follows
<1>7. \A i \in 1..m : Good(i)
  BY <1>3, <1>5, <1>6
<1>8. m >= 1
  <2> HIDE DEF n, m
  <2> QED
    BY <1>1, <1>2
<1>9. ChainSound(kind, longer)
  BY <1>1, <1>7, <1>8 DEF ChainSound
<1> QED
  BY <1>2, <1>9

LEMMA FirstSound ==
  ASSUME NEW kind, NEW first \in Document(kind), first.base = 0, MaxRevisions \in Nat,
         kind = "behavior_contract" =>
           first.enabled \subseteq first.steps /\ first.review # "accepted"
  PROVE  ChainSound(kind, <<first>>)
<1>1. /\ <<first>> \in Seq(Document(kind)) /\ Len(<<first>>) = 1
      /\ \A i \in 1..1 : i = 1
      /\ <<first>>[1] = first
  OBVIOUS
<1> QED
  BY <1>1 DEF ChainSound

LEMMA InitDocumentsSound == E!ConfigurationAssumption /\ E!Init => DocumentsSound
<1> SUFFICES ASSUME E!ConfigurationAssumption, E!Init PROVE DocumentsSound
  OBVIOUS
<1> DEFINE goal == [base |-> 0, sound |-> TRUE]
           unread == [base |-> 0, sound |-> TRUE, review |-> "needs_review",
                      steps |-> Steps, enabled |-> Steps]
           policy == [base |-> 0, sound |-> TRUE, guard |-> "as it was", extra |-> TRUE]
<1>1. revisions = [project_goal |-> <<goal>>, behavior_contract |-> <<unread>>,
                   optimality_policy |-> <<policy>>]
  BY DEF E!Init, E!Goal, E!Contract, E!Policy
<1>2. /\ DOMAIN revisions = E!Kinds
      /\ revisions["project_goal"] = <<goal>>
      /\ revisions["behavior_contract"] = <<unread>>
      /\ revisions["optimality_policy"] = <<policy>>
  BY <1>1 DEF E!Kinds
<1>3. MaxRevisions \in Nat
  BY DEF E!ConfigurationAssumption
<1>4. goal \in Document("project_goal") /\ goal.base = 0
  BY DEF Document
<1>5. /\ unread \in Document("behavior_contract") /\ unread.base = 0
      /\ unread.enabled \subseteq unread.steps /\ unread.review # "accepted"
  BY DEF Document
<1>6. policy \in Document("optimality_policy") /\ policy.base = 0
  BY DEF Document
<1> HIDE DEF goal, unread, policy
<1>8. /\ ChainSound("project_goal", <<goal>>)
      /\ ChainSound("behavior_contract", <<unread>>)
      /\ ChainSound("optimality_policy", <<policy>>)
  BY <1>3, <1>4, <1>5, <1>6, FirstSound
<1>7. edits = [e \in Edits |-> None]
  BY DEF E!Init
<1> QED
  BY <1>2, <1>7, <1>8 DEF DocumentsSound, E!Kinds, EditSound

LEMMA ReadSound ==
  ASSUME E!ConfigurationAssumption, DocumentsSound, NEW e \in Edits, E!Read(e)
  PROVE  DocumentsSound'
<1>1. /\ UNCHANGED revisions /\ E!Appended < MaxRevisions /\ MaxRevisions \in Nat
      /\ AllSound \in BOOLEAN
  BY DEF E!Read, E!ConfigurationAssumption
<1>2. PICK kind \in E!Kinds :
        \E next \in E!NextRevisions(kind, E!Version(kind), E!Current(kind)) :
          E!Submit(e, kind, next)
  BY DEF E!Read
<1>3. PICK next \in E!NextRevisions(kind, E!Version(kind), E!Current(kind)) :
        E!Submit(e, kind, next)
  BY <1>2
<1> DEFINE docs == revisions[kind]
           n == Len(docs)
<1>4. /\ docs \in Seq(Document(kind)) /\ n \in Nat /\ n >= 1 /\ ChainSound(kind, docs)
  BY DEF DocumentsSound, ChainSound
<1>5. n \in 1..n
  <2> HIDE DEF n
  <2> QED
    BY <1>4
<1>6. docs[n] \in Document(kind) /\ (kind = "behavior_contract" => docs[n].enabled \subseteq docs[n].steps)
  BY <1>4, <1>5 DEF ChainSound
<1>7. next \in Document(kind) /\ next.base = n /\ Follows(kind, docs[n], next)
  BY <1>1, <1>4, <1>6, NextRevisionFollows DEF E!Version, E!Current
<1>8. n <= MaxRevisions
  <2>1. /\ E!Version("project_goal") \in Nat /\ E!Version("project_goal") >= 1
        /\ E!Version("behavior_contract") \in Nat /\ E!Version("behavior_contract") >= 1
        /\ E!Version("optimality_policy") \in Nat /\ E!Version("optimality_policy") >= 1
    BY DEF DocumentsSound, ChainSound, E!Kinds, E!Version
  <2>2. E!Version(kind) \in {E!Version("project_goal"), E!Version("behavior_contract"),
                             E!Version("optimality_policy")}
    BY DEF E!Kinds
  <2>3. E!Version(kind) <= MaxRevisions
    BY <1>1, <2>1, <2>2 DEF E!Appended
  <2> QED
    BY <2>3 DEF E!Version
<1> DEFINE edit == [kind |-> kind, next |-> next]
<1>9. edits' = [edits EXCEPT ![e] = edit]
  BY <1>3 DEF E!Submit
<1>10. edit \in E!AppendConfigurationRevision
  BY <1>7 DEF E!AppendConfigurationRevision, E!Documents, Document
<1>11. edits' \in [Edits -> {None} \union E!AppendConfigurationRevision] /\ edits'[e] = edit
  BY <1>9, <1>10 DEF DocumentsSound
<1>12. EditSound(edit)'
  BY <1>1, <1>5, <1>7, <1>8 DEF EditSound
<1>13. ASSUME NEW f \in Edits, f # e PROVE EditSound(edits[f])'
  <2>1. edits'[f] = edits[f] /\ EditSound(edits[f])
    BY <1>9, <1>13 DEF DocumentsSound
  <2> QED
    BY <1>1, <2>1 DEF EditSound
<1>14. \A f \in Edits : EditSound(edits[f])'
  BY <1>11, <1>12, <1>13
<1> QED
  BY <1>1, <1>11, <1>14 DEF DocumentsSound

LEMMA AppendRevisionSound ==
  ASSUME E!ConfigurationAssumption, DocumentsSound, NEW e \in Edits, E!AppendRevision(e)
  PROVE  DocumentsSound'
<1>1. PICK edit : edit = edits[e]
  OBVIOUS
<1>2. PICK kind : kind = edit.kind
  OBVIOUS
<1>3. PICK next : next = edit.next
  OBVIOUS
<1> DEFINE docs == revisions[kind]
           longer == Append(docs, next)
<1>4. /\ edit # None /\ Len(docs) = next.base /\ EditSound(edit)
      /\ revisions' = [revisions EXCEPT ![kind] = longer]
      /\ edits' = [edits EXCEPT ![e] = None]
  BY <1>1, <1>2, <1>3 DEF E!AppendRevision, E!Replaces, E!Version, E!AppendTo, DocumentsSound
<1>5. /\ kind \in E!Kinds /\ next \in Document(kind) /\ next.base <= MaxRevisions
      /\ Follows(kind, docs[next.base], next) /\ ChainSound(kind, docs) /\ MaxRevisions \in Nat
  BY <1>1, <1>2, <1>3, <1>4 DEF EditSound, DocumentsSound, E!ConfigurationAssumption
<1>6. /\ ChainSound(kind, longer)
      /\ Len(longer) = Len(docs) + 1
      /\ \A i \in 1..Len(docs) : longer[i] = docs[i]
  BY <1>4, <1>5, AppendedSound
<1> HIDE DEF longer
<1>7. /\ revisions'[kind] = longer /\ DOMAIN revisions' = E!Kinds
      /\ \A k \in E!Kinds \ {kind} : revisions'[k] = revisions[k]
  BY <1>4, <1>5 DEF DocumentsSound
<1>8. ASSUME NEW f \in Edits PROVE EditSound(edits[f])'
  <2>1. PICK other : other = edits'[f]
    OBVIOUS
  <2>2. other = None \/ EditSound(other)
    BY <1>4, <2>1 DEF DocumentsSound
  <2>3. PICK k, base : k = other.kind /\ base = other.next.base
    OBVIOUS
  <2>4. CASE other # None /\ k = kind
    <3>1. /\ base \in 1..Len(docs) /\ base <= MaxRevisions /\ other.next \in Document(kind)
          /\ Follows(kind, docs[base], other.next)
      BY <2>2, <2>3, <2>4 DEF EditSound
    <3>2. base \in 1..Len(longer)
      <4>1. PICK n \in Nat : n = Len(docs)
        BY <1>5 DEF ChainSound
      <4> QED
        BY <1>6, <3>1, <4>1
    <3>3. longer[base] = docs[base]
      BY <1>6, <3>1
    <3> QED
      BY <1>5, <1>7, <2>1, <2>3, <2>4, <3>1, <3>2, <3>3 DEF EditSound
  <2>5. CASE other # None /\ k # kind
    <3>1. k \in E!Kinds /\ revisions'[k] = revisions[k]
      BY <1>7, <2>2, <2>3, <2>5 DEF EditSound
    <3> QED
      BY <2>1, <2>2, <2>3, <2>5, <3>1 DEF EditSound
  <2> QED
    BY <2>1, <2>4, <2>5 DEF EditSound
<1>9. ASSUME NEW k \in E!Kinds PROVE ChainSound(k, revisions'[k])
  <2>1. CASE k = kind
    BY <1>6, <1>7, <2>1
  <2>2. CASE k # kind
    BY <1>7, <2>2 DEF DocumentsSound
  <2> QED
    BY <2>1, <2>2
<1>10. edits' \in [Edits -> {None} \union E!AppendConfigurationRevision]
  BY <1>4 DEF DocumentsSound
<1>11. \A k \in E!Kinds : ChainSound(k, revisions[k])'
  BY <1>9 DEF ChainSound
<1> QED
  BY <1>7, <1>8, <1>10, <1>11 DEF DocumentsSound

-----------------------------------------------------------------------------
(* Configuration: the candidate.  An append may make it stale in any state *)
(* that is not final, which the table of the callers does not allow.       *)
StalingTransitions ==
  [s \in DOMAIN T!candidateTransitions |->
     IF s \in {"stale", "applied"} THEN {} ELSE T!candidateTransitions[s] \union {"stale"}]

EKeys == CandidateKeys \union {"configuration"}

CandidateSound ==
  /\ DOMAIN candidates = {Candidate}
  /\ RowSound(StalingTransitions, CandidateRank, EKeys, candidates[Candidate])
  /\ calls \in [CandidateCallers ->
                  CallType({Candidate}, DOMAIN StalingTransitions, EKeys)]
  /\ \A c \in CandidateCallers :
       /\ calls[c].step # "idle" => calls[c].object = Candidate
       /\ CallSound(StalingTransitions, EKeys, candidates[Candidate], calls[c])

LEMMA StalingAscends ==
  /\ Ascending(StalingTransitions, CandidateRank)
  /\ DOMAIN StalingTransitions = DOMAIN T!candidateTransitions
  /\ \A s \in DOMAIN T!candidateTransitions :
       T!candidateTransitions[s] \subseteq StalingTransitions[s]
BY DEF Ascending, StalingTransitions, CandidateRank, T!candidateTransitions

LEMMA SameOperators ==
  /\ E!T!Graph(Candidate) = T!candidateTransitions
  /\ E!T!NoCall = T!NoCall
  /\ \A row : E!T!Seen(row) = T!Seen(row)
  /\ \A row, to, key : E!T!Changed(row, to, key) = T!Changed(row, to, key)
  /\ \A row, call : E!T!Repeated(row, call) = T!Repeated(row, call)
<1>1. E!T!Graph(Candidate) = T!candidateTransitions
  BY DEF E!T!Graph, E!T!candidateTransitions, T!candidateTransitions
<1>2. E!T!NoCall = T!NoCall
  BY DEF E!T!NoCall, T!NoCall
<1>3. \A row : E!T!Seen(row) = T!Seen(row)
  BY DEF E!T!Seen, T!Seen
<1>4. \A row, to, key : E!T!Changed(row, to, key) = T!Changed(row, to, key)
  BY DEF E!T!Changed, T!Changed
<1>5. \A row, call : E!T!Repeated(row, call) = T!Repeated(row, call)
  BY DEF E!T!Repeated, T!Repeated
<1> QED
  BY <1>1, <1>2, <1>3, <1>4, <1>5

LEMMA CandidateCallMoves ==
  ASSUME CandidateSound, UNCHANGED candidates, NEW c \in CandidateCallers,
         NEW call \in CallType({Candidate}, DOMAIN StalingTransitions, EKeys),
         calls' = [calls EXCEPT ![c] = call],
         call.step # "idle" => call.object = Candidate,
         CallSound(StalingTransitions, EKeys, candidates[Candidate], call)
  PROVE  CandidateSound'
<1>1. /\ calls' \in [CandidateCallers -> CallType({Candidate}, DOMAIN StalingTransitions, EKeys)]
      /\ calls'[c] = call /\ \A d \in CandidateCallers \ {c} : calls'[d] = calls[d]
  BY DEF CandidateSound
<1>2. ASSUME NEW d \in CandidateCallers
      PROVE  /\ calls'[d].step # "idle" => calls'[d].object = Candidate
             /\ CallSound(StalingTransitions, EKeys, candidates'[Candidate], calls'[d])
  <2>1. CASE d = c
    BY <1>1, <2>1
  <2>2. CASE d # c
    BY <1>1, <2>2 DEF CandidateSound
  <2> QED
    BY <2>1, <2>2
<1> QED
  BY <1>1, <1>2 DEF CandidateSound, StalingTransitions, T!candidateTransitions, CandidateRank

(* A change of the candidate, by one of the callers or by an append.       *)
LEMMA CandidateChanges ==
  ASSUME CandidateSound, NEW to \in StalingTransitions[candidates[Candidate].state],
         NEW key \in EKeys,
         candidates' = [candidates EXCEPT ![Candidate] =
                          T!Changed(candidates[Candidate], to, key)]
  PROVE  /\ candidates'[Candidate] = T!Changed(candidates[Candidate], to, key)
         /\ candidates'[Candidate].state = to
         /\ RowSound(StalingTransitions, CandidateRank, EKeys, candidates'[Candidate])
         /\ \A c \in CandidateCallers :
              CallSound(StalingTransitions, EKeys, candidates'[Candidate], calls[c])
<1>1. PICK row : row = candidates[Candidate]
  OBVIOUS
<1>2. /\ RowSound(StalingTransitions, CandidateRank, EKeys, row)
      /\ candidates'[Candidate] = T!Changed(row, to, key)
      /\ to \in StalingTransitions[row.state]
  BY <1>1 DEF CandidateSound
<1>3. /\ RowSound(StalingTransitions, CandidateRank, EKeys, T!Changed(row, to, key))
      /\ T!Changed(row, to, key).state = to
      /\ T!Changed(row, to, key).version = row.version + 1
      /\ Recorded(T!Changed(row, to, key), [key |-> key, to |-> to])
      /\ \A s \in T!Seen(row) : s \in T!Seen(T!Changed(row, to, key)) /\ s # to
      /\ \A i \in 1..Len(row.log) :
           i \in 1..Len(T!Changed(row, to, key).log)
             /\ T!Changed(row, to, key).log[i] = row.log[i]
  BY <1>2, ChangedSound, StalingAscends
<1>4. ASSUME NEW c \in CandidateCallers
      PROVE  CallSound(StalingTransitions, EKeys, T!Changed(row, to, key), calls[c])
  <2>1. CallSound(StalingTransitions, EKeys, row, calls[c])
    BY <1>1 DEF CandidateSound
  <2> QED
    BY <1>2, <2>1, OtherCallSound, StalingAscends
<1> QED
  BY <1>1, <1>2, <1>3, <1>4

LEMMA InitCandidateSound ==
  E!ConfigurationAssumption /\ E!Init => CandidateSound
<1> SUFFICES ASSUME E!ConfigurationAssumption, E!Init PROVE CandidateSound
  OBVIOUS
<1>1. PICK o \in {Candidate} : \E s \in E!T!States(o) \ {"terminal"} :
        candidates = [x \in {o} |-> [state |-> s, first |-> s, version |-> 0, key |-> None,
                                     terminal |-> FALSE, log |-> <<>>]]
  BY DEF E!Init, E!T!Init
<1>2. PICK s \in E!T!States(Candidate) :
        candidates = [x \in {Candidate} |->
                        [state |-> s, first |-> s, version |-> 0, key |-> None,
                         terminal |-> FALSE, log |-> <<>>]]
  BY <1>1
<1>3. s \in DOMAIN StalingTransitions
  BY <1>2, SameOperators, StalingAscends DEF E!T!States
<1>4. calls = [c \in CandidateCallers |-> T!NoCall]
  BY SameOperators DEF E!Init, E!T!Init
<1>5. RowSound(StalingTransitions, CandidateRank, EKeys, candidates[Candidate])
  BY <1>2, <1>3 DEF RowSound, RowType
<1>6. T!NoCall \in CallType({Candidate}, DOMAIN StalingTransitions, EKeys)
  BY DEF T!NoCall, CallType
<1>7. T!NoCall.step = "idle"
  BY DEF T!NoCall
<1> QED
  BY <1>2, <1>4, <1>5, <1>6, <1>7, NoCallSound DEF CandidateSound

LEMMA CandidateAskSound ==
  ASSUME CandidateSound, NEW c \in CandidateCallers, E!T!Ask(c)
  PROVE  CandidateSound'
<1> DEFINE row == candidates[Candidate]
<1>1. UNCHANGED candidates /\ DOMAIN candidates = {Candidate}
  BY DEF E!T!Ask, CandidateSound
<1>2. PICK o \in DOMAIN candidates, key \in CandidateKeys, outcome \in BOOLEAN :
        \E from \in E!T!Seen(candidates[o]), to \in E!T!States(o) :
          /\ E!T!Allowed(o, from, to, outcome)
          /\ calls' = [calls EXCEPT ![c] =
               [step |-> "update", object |-> o, from |-> from, to |-> to, key |-> key,
                answer |-> "none"]]
  BY DEF E!T!Ask
<1>3. PICK from \in E!T!Seen(candidates[o]), to \in E!T!States(o) :
        /\ E!T!Allowed(o, from, to, outcome)
        /\ calls' = [calls EXCEPT ![c] =
             [step |-> "update", object |-> o, from |-> from, to |-> to, key |-> key,
              answer |-> "none"]]
  BY <1>2
<1> DEFINE call == [step |-> "update", object |-> Candidate, from |-> from, to |-> to,
                    key |-> key, answer |-> "none"]
<1>4. o = Candidate /\ calls' = [calls EXCEPT ![c] = call]
  BY <1>1, <1>3
<1>5. /\ from \in T!Seen(row) /\ to \in DOMAIN StalingTransitions
      /\ to \in T!candidateTransitions[from]
  BY <1>3, <1>4, SameOperators, StalingAscends DEF E!T!Allowed, E!T!States
<1>6. from \in DOMAIN StalingTransitions
  BY <1>5, SeenBelow, StalingAscends DEF CandidateSound
<1>7. to \in StalingTransitions[from] /\ key \in EKeys
  BY <1>5, <1>6, StalingAscends DEF EKeys
<1>8. call \in CallType({Candidate}, DOMAIN StalingTransitions, EKeys)
  BY <1>5, <1>6, <1>7 DEF CallType
<1>9. CallSound(StalingTransitions, EKeys, row, call)
  BY <1>5, <1>6, <1>7, AskedCallSound
<1> QED
  BY <1>1, <1>4, <1>8, <1>9, CandidateCallMoves

LEMMA CandidateUpdateSound ==
  ASSUME CandidateSound, NEW c \in CandidateCallers, E!T!Update(c)
  PROVE  /\ CandidateSound'
         /\ candidates'[Candidate].state \in
              {candidates[Candidate].state} \union
              StalingTransitions[candidates[Candidate].state]
<1>1. PICK call \in CallType({Candidate}, DOMAIN StalingTransitions, EKeys) : call = calls[c]
  BY DEF CandidateSound
<1> DEFINE row == candidates[Candidate]
<1>2. /\ call.step = "update" /\ call.object = Candidate
      /\ CallSound(StalingTransitions, EKeys, row, call)
  BY <1>1 DEF E!T!Update, CandidateSound
<1>3. /\ call.key \in EKeys /\ call.from \in T!Seen(row)
      /\ call.from \in DOMAIN StalingTransitions
      /\ call.to \in StalingTransitions[call.from]
  BY <1>2 DEF CallSound
<1>4. CASE row.state # call.from
  <2> DEFINE next == [call EXCEPT !.step = "missed"]
  <2>1. calls' = [calls EXCEPT ![c] = next] /\ UNCHANGED candidates
    BY <1>1, <1>2, <1>4 DEF E!T!Update
  <2>2. /\ next \in CallType({Candidate}, DOMAIN StalingTransitions, EKeys)
        /\ CallSound(StalingTransitions, EKeys, row, next)
    BY <1>2, <1>4, MissedCallSound
  <2>3. next.object = Candidate
    BY <1>2 DEF CallType
  <2> QED
    BY <2>1, <2>2, <2>3, CandidateCallMoves
<1>5. CASE row.state = call.from
  <2> DEFINE changed == T!Changed(row, call.to, call.key)
             next == [call EXCEPT !.step = "answered", !.answer = "ok"]
  <2>1. /\ candidates' = [candidates EXCEPT ![Candidate] = changed]
        /\ calls' = [calls EXCEPT ![c] = next]
    BY <1>1, <1>2, <1>5, SameOperators DEF E!T!Update, E!T!Answered
  <2>2. /\ candidates'[Candidate] = changed
        /\ candidates'[Candidate].state = call.to
        /\ RowSound(StalingTransitions, CandidateRank, EKeys, candidates'[Candidate])
        /\ \A d \in CandidateCallers :
             CallSound(StalingTransitions, EKeys, candidates'[Candidate], calls[d])
    BY <1>3, <1>5, <2>1, CandidateChanges
  <2>3. /\ RowSound(StalingTransitions, CandidateRank, EKeys, row)
        /\ call.to \in StalingTransitions[row.state]
    BY <1>3, <1>5 DEF CandidateSound
  <2>4. /\ Recorded(changed, [key |-> call.key, to |-> call.to])
        /\ \A s \in T!Seen(row) : s \in T!Seen(changed)
    BY <1>3, <2>3, ChangedSound, StalingAscends
  <2>5. Recorded(changed, call)
    BY <2>4 DEF Recorded
  <2> HIDE DEF changed
  <2>6. /\ next \in CallType({Candidate}, DOMAIN StalingTransitions, EKeys)
        /\ CallSound(StalingTransitions, EKeys, changed, next)
    BY <1>3, <2>4, <2>5, AnsweredCallSound
  <2>7. next.object = Candidate
    BY <1>2 DEF CallType
  <2> HIDE DEF next
  <2>8. /\ calls' \in [CandidateCallers ->
                         CallType({Candidate}, DOMAIN StalingTransitions, EKeys)]
        /\ calls'[c] = next /\ \A d \in CandidateCallers \ {c} : calls'[d] = calls[d]
    BY <2>1, <2>6 DEF CandidateSound
  <2>9. ASSUME NEW d \in CandidateCallers
        PROVE  /\ calls'[d].step # "idle" => calls'[d].object = Candidate
               /\ CallSound(StalingTransitions, EKeys, candidates'[Candidate], calls'[d])
    <3>1. CASE d = c
      BY <2>2, <2>6, <2>7, <2>8, <3>1
    <3>2. CASE d # c
      BY <2>2, <2>8, <3>2 DEF CandidateSound
    <3> QED
      BY <3>1, <3>2
  <2>10. DOMAIN candidates' = {Candidate}
    BY <2>1 DEF CandidateSound
  <2>11. CandidateSound'
    BY <2>2, <2>8, <2>9, <2>10
    DEF CandidateSound, StalingTransitions, T!candidateTransitions, CandidateRank
  <2> QED
    BY <2>2, <2>3, <2>11
<1> QED
  BY <1>4, <1>5

LEMMA CandidateResolveSound ==
  ASSUME E!ConfigurationAssumption, CandidateSound, NEW c \in CandidateCallers,
         E!T!Resolve(c)
  PROVE  CandidateSound'
<1>1. PICK call \in CallType({Candidate}, DOMAIN StalingTransitions, EKeys) : call = calls[c]
  BY DEF CandidateSound
<1> DEFINE row == candidates[Candidate]
           answer == IF T!Repeated(row, call) THEN "ok" ELSE "conflict"
           next == [call EXCEPT !.step = "answered", !.answer = answer]
<1>2. /\ call.step = "missed" /\ call.object = Candidate
      /\ CallSound(StalingTransitions, EKeys, row, call)
  BY <1>1 DEF E!T!Resolve, CandidateSound
<1>3. /\ call.key \in EKeys /\ call.from \in T!Seen(row)
      /\ call.from \in DOMAIN StalingTransitions
      /\ call.to \in StalingTransitions[call.from] /\ call.from # row.state
  BY <1>2 DEF CallSound
<1>4. RowSound(StalingTransitions, CandidateRank, EKeys, row) /\ None \notin EKeys
  BY DEF CandidateSound, E!ConfigurationAssumption, EKeys
<1>5. answer = "ok" => Recorded(row, call)
  BY <1>3, <1>4, RepeatedIsRecorded
<1>6. calls' = [calls EXCEPT ![c] = next] /\ UNCHANGED candidates
  BY <1>1, <1>2, SameOperators DEF E!T!Resolve, E!T!Answered
<1>7. answer \in {"ok", "conflict"}
  OBVIOUS
<1> HIDE DEF answer
<1>8. /\ next \in CallType({Candidate}, DOMAIN StalingTransitions, EKeys)
      /\ CallSound(StalingTransitions, EKeys, row, next)
  BY <1>3, <1>5, <1>7, AnsweredCallSound
<1>9. next.object = Candidate
  BY <1>2 DEF CallType
<1> QED
  BY <1>6, <1>8, <1>9, CandidateCallMoves

LEMMA CandidateRetrySound ==
  ASSUME CandidateSound, NEW c \in CandidateCallers, E!T!Retry(c)
  PROVE  CandidateSound'
<1>1. PICK call \in CallType({Candidate}, DOMAIN StalingTransitions, EKeys) : call = calls[c]
  BY DEF CandidateSound
<1> DEFINE row == candidates[Candidate]
           next == [call EXCEPT !.step = "update", !.answer = "none"]
<1>2. /\ call.step = "answered" /\ call.object = Candidate
      /\ CallSound(StalingTransitions, EKeys, row, call)
  BY <1>1 DEF E!T!Retry, CandidateSound
<1>3. /\ next \in CallType({Candidate}, DOMAIN StalingTransitions, EKeys)
      /\ CallSound(StalingTransitions, EKeys, row, next)
  BY <1>2, RetriedCallSound
<1>4. next.object = Candidate
  BY <1>2 DEF CallType
<1>5. calls' = [calls EXCEPT ![c] = next] /\ UNCHANGED candidates
  BY <1>1 DEF E!T!Retry
<1> QED
  BY <1>3, <1>4, <1>5, CandidateCallMoves

LEMMA CandidateForgetSound ==
  ASSUME CandidateSound, NEW c \in CandidateCallers, E!T!Forget(c)
  PROVE  CandidateSound'
<1>1. calls' = [calls EXCEPT ![c] = T!NoCall] /\ UNCHANGED candidates
  BY SameOperators DEF E!T!Forget
<1>2. T!NoCall \in CallType({Candidate}, DOMAIN StalingTransitions, EKeys)
  BY DEF T!NoCall, CallType
<1>3. T!NoCall.step = "idle"
  BY DEF T!NoCall
<1> QED
  BY <1>1, <1>2, <1>3, NoCallSound, CandidateCallMoves

-----------------------------------------------------------------------------
(* The candidate and the documents together.                               *)
ConfigurationSound == DocumentsSound /\ CandidateSound /\ E!NothingStandsOnReplaced

LEMMA StaledSound ==
  ASSUME DocumentsSound, CandidateSound, E!NothingStandsOnReplaced,
         NEW version \in Nat \ {0}, candidates' = E!Staled(version), UNCHANGED calls
  PROVE  /\ CandidateSound'
         /\ version = 1 => candidates'[Candidate].state \in {"stale", "applied"}
         /\ candidates[Candidate].state \in {"stale", "applied"} =>
              candidates'[Candidate].state \in {"stale", "applied"}
<1> DEFINE row == candidates[Candidate]
<1>1. DOMAIN candidates = {Candidate} /\ RowSound(StalingTransitions, CandidateRank, EKeys, row)
  BY DEF CandidateSound
<1>2. row.state \in DOMAIN StalingTransitions
  BY <1>1 DEF RowSound, RowType
<1>3. CASE version = 1 /\ row.state \notin {"stale", "applied"}
  <2>1. candidates' = [x \in {Candidate} |-> T!Changed(row, "stale", "configuration")]
    BY <1>1, <1>3, SameOperators DEF E!Staled, E!Bound
  <2>2. candidates' = [candidates EXCEPT ![Candidate] =
                         T!Changed(row, "stale", "configuration")]
    BY <1>1, <2>1
  <2>3. "stale" \in StalingTransitions[row.state] /\ "configuration" \in EKeys
    BY <1>2, <1>3 DEF StalingTransitions, EKeys
  <2>4. /\ candidates'[Candidate].state = "stale"
        /\ RowSound(StalingTransitions, CandidateRank, EKeys, candidates'[Candidate])
        /\ \A d \in CandidateCallers :
             CallSound(StalingTransitions, EKeys, candidates'[Candidate], calls[d])
    BY <2>2, <2>3, CandidateChanges
  <2>5. DOMAIN candidates' = {Candidate}
    BY <2>1
  <2>6. CandidateSound'
    BY <2>4, <2>5
    DEF CandidateSound, StalingTransitions, T!candidateTransitions, CandidateRank
  <2> QED
    BY <1>3, <2>4, <2>6
<1>4. CASE ~(version = 1 /\ row.state \notin {"stale", "applied"})
  <2>1. candidates' = [x \in {Candidate} |-> row]
    BY <1>1, <1>4, SameOperators DEF E!Staled, E!Bound
  <2>2. DOMAIN candidates' = {Candidate} /\ candidates'[Candidate] = row
    BY <2>1
  <2>3. CandidateSound'
    BY <2>2 DEF CandidateSound, StalingTransitions, T!candidateTransitions, CandidateRank
  <2> QED
    BY <1>4, <2>2, <2>3
<1> QED
  BY <1>3, <1>4

LEMMA AppendMakesStale ==
  ASSUME E!ConfigurationAssumption, ConfigurationSound, NEW e \in Edits, E!AppendRevision(e)
  PROVE  CandidateSound' /\ E!NothingStandsOnReplaced'
<1>1. PICK edit : edit = edits[e]
  OBVIOUS
<1>2. PICK kind : kind = edit.kind
  OBVIOUS
<1>3. PICK base : base = edit.next.base
  OBVIOUS
<1>4. /\ edit # None /\ EditSound(edit) /\ Len(revisions[kind]) = base
      /\ candidates' = E!Staled(base) /\ UNCHANGED calls
      /\ revisions' = [revisions EXCEPT ![kind] = Append(@, edit.next)]
  BY <1>1, <1>2, <1>3
  DEF E!AppendRevision, E!Replaces, E!Version, E!AppendTo, ConfigurationSound, DocumentsSound
<1>5. kind \in E!Kinds /\ base \in Nat \ {0}
  BY <1>2, <1>3, <1>4 DEF EditSound, ConfigurationSound, DocumentsSound, ChainSound
<1>6. /\ CandidateSound'
      /\ base = 1 => candidates'[Candidate].state \in {"stale", "applied"}
      /\ candidates[Candidate].state \in {"stale", "applied"} =>
           candidates'[Candidate].state \in {"stale", "applied"}
  BY <1>4, <1>5, StaledSound DEF ConfigurationSound
<1>7. candidates'[Candidate].state \in {"stale", "applied"}
  <2>1. base # 1 => E!Version(kind) > 1
    BY <1>4, <1>5 DEF E!Version
  <2>2. base # 1 => candidates[Candidate].state \in {"stale", "applied"}
    BY <1>5, <2>1 DEF ConfigurationSound, CandidateSound, E!NothingStandsOnReplaced
  <2> QED
    BY <1>6, <2>2
<1>8. DOMAIN candidates' = {Candidate}
  BY <1>6 DEF CandidateSound
<1> QED
  BY <1>6, <1>7, <1>8 DEF E!NothingStandsOnReplaced

LEMMA CallersLeaveStale ==
  ASSUME E!ConfigurationAssumption, ConfigurationSound, UNCHANGED revisions,
         NEW c \in CandidateCallers,
         E!T!Ask(c) \/ E!T!Update(c) \/ E!T!Resolve(c) \/ E!T!Retry(c) \/ E!T!Forget(c)
  PROVE  CandidateSound' /\ E!NothingStandsOnReplaced'
<1>1. CandidateSound'
  BY CandidateAskSound, CandidateUpdateSound, CandidateResolveSound, CandidateRetrySound,
     CandidateForgetSound DEF ConfigurationSound
<1>2. candidates[Candidate].state \in {"stale", "applied"} =>
        candidates'[Candidate].state \in {"stale", "applied"}
  <2>1. CASE E!T!Update(c)
    <3>1. candidates'[Candidate].state \in
            {candidates[Candidate].state} \union
            StalingTransitions[candidates[Candidate].state]
      BY <2>1, CandidateUpdateSound DEF ConfigurationSound
    <3> QED
      BY <3>1 DEF StalingTransitions, T!candidateTransitions
  <2>2. CASE ~E!T!Update(c)
    BY <2>2 DEF E!T!Ask, E!T!Resolve, E!T!Retry, E!T!Forget
  <2> QED
    BY <2>1, <2>2
<1>3. DOMAIN candidates' = {Candidate} /\ DOMAIN candidates = {Candidate}
  BY <1>1 DEF ConfigurationSound, CandidateSound
<1>4. E!NothingStandsOnReplaced
  BY DEF ConfigurationSound
<1>5. \A kind \in E!Kinds : E!Version(kind)' = E!Version(kind)
  BY DEF E!Version
<1>6. E!NothingStandsOnReplaced'
  BY <1>2, <1>3, <1>4, <1>5 DEF E!NothingStandsOnReplaced
<1> QED
  BY <1>1, <1>6

LEMMA UnchangedDocuments ==
  ASSUME DocumentsSound, UNCHANGED revisions,
         \A e \in Edits : edits'[e] = edits[e] \/ edits'[e] = None,
         edits' \in [Edits -> {None} \union E!AppendConfigurationRevision]
  PROVE  DocumentsSound'
<1>1. ASSUME NEW e \in Edits PROVE EditSound(edits[e])'
  <2>1. CASE edits'[e] = edits[e]
    <3>1. EditSound(edits[e])
      BY DEF DocumentsSound
    <3> QED
      BY <2>1, <3>1 DEF EditSound
  <2>2. CASE edits'[e] = None
    BY <2>2 DEF EditSound
  <2> QED
    BY <2>1, <2>2
<1> QED
  BY <1>1 DEF DocumentsSound

LEMMA UnchangedCandidate ==
  ASSUME ConfigurationSound, UNCHANGED <<revisions, candidates, calls>>
  PROVE  CandidateSound' /\ E!NothingStandsOnReplaced'
<1>1. CandidateSound'
  BY DEF ConfigurationSound, CandidateSound, StalingTransitions, T!candidateTransitions,
         CandidateRank
<1>2. E!NothingStandsOnReplaced'
  BY DEF ConfigurationSound, E!NothingStandsOnReplaced, E!Version
<1> QED
  BY <1>1, <1>2

LEMMA ConfigurationSoundAlways ==
  ASSUME E!ConfigurationAssumption
  PROVE  E!Spec => []ConfigurationSound
<1>1. E!Init => ConfigurationSound
  <2> SUFFICES ASSUME E!Init PROVE ConfigurationSound
    OBVIOUS
  <2>1. DocumentsSound /\ CandidateSound
    BY InitDocumentsSound, InitCandidateSound
  <2>2. \A kind \in E!Kinds : E!Version(kind) = 1
    <3>1. PICK goal, first, policy :
            revisions = [project_goal |-> <<goal>>, behavior_contract |-> <<first>>,
                         optimality_policy |-> <<policy>>]
      BY DEF E!Init
    <3>2. /\ revisions["project_goal"] = <<goal>>
          /\ revisions["behavior_contract"] = <<first>>
          /\ revisions["optimality_policy"] = <<policy>>
      BY <3>1
    <3>3. Len(<<goal>>) = 1 /\ Len(<<first>>) = 1 /\ Len(<<policy>>) = 1
      OBVIOUS
    <3> QED
      BY <3>2, <3>3 DEF E!Kinds, E!Version
  <2> QED
    BY <2>1, <2>2 DEF ConfigurationSound, E!NothingStandsOnReplaced
<1>2. ConfigurationSound /\ [E!Next]_E!vars => ConfigurationSound'
  <2> SUFFICES ASSUME ConfigurationSound, [E!Next]_E!vars PROVE ConfigurationSound'
    OBVIOUS
  <2>1. DocumentsSound
    BY DEF ConfigurationSound
  <2>2. ASSUME NEW e \in Edits, E!Read(e) PROVE ConfigurationSound'
    <3>1. UNCHANGED <<revisions, candidates, calls>>
      BY <2>2 DEF E!Read
    <3> QED
      BY <2>1, <2>2, <3>1, ReadSound, UnchangedCandidate DEF ConfigurationSound
  <2>3. ASSUME NEW e \in Edits, E!AppendRevision(e) PROVE ConfigurationSound'
    BY <2>1, <2>3, AppendRevisionSound, AppendMakesStale DEF ConfigurationSound
  <2>4. ASSUME NEW e \in Edits, E!RollBack(e) PROVE ConfigurationSound'
    <3>1. UNCHANGED <<revisions, candidates, calls>> /\ edits' = [edits EXCEPT ![e] = None]
      BY <2>4 DEF E!RollBack
    <3>2. DocumentsSound'
      BY <2>1, <3>1, UnchangedDocuments DEF DocumentsSound
    <3> QED
      BY <3>1, <3>2, UnchangedCandidate DEF ConfigurationSound
  <2>5. ASSUME E!T!Next, UNCHANGED <<revisions, edits>> PROVE ConfigurationSound'
    <3>1. PICK c \in CandidateCallers :
            E!T!Ask(c) \/ E!T!Update(c) \/ E!T!Resolve(c) \/ E!T!Retry(c) \/ E!T!Forget(c)
      BY <2>5 DEF E!T!Next
    <3>2. UNCHANGED revisions
      BY <2>5
    <3>3. DocumentsSound'
      BY <2>1, <2>5, UnchangedDocuments DEF DocumentsSound
    <3> QED
      BY <3>1, <3>2, <3>3, CallersLeaveStale DEF ConfigurationSound
  <2>6. CASE UNCHANGED E!vars
    <3>1. UNCHANGED <<revisions, candidates, calls>> /\ UNCHANGED edits
      BY <2>6 DEF E!vars
    <3>2. DocumentsSound'
      BY <2>1, <3>1, UnchangedDocuments DEF DocumentsSound
    <3> QED
      BY <3>1, <3>2, UnchangedCandidate DEF ConfigurationSound
  <2> QED
    BY <2>2, <2>3, <2>4, <2>5, <2>6 DEF E!Next
<1> QED
  BY <1>1, <1>2, PTL DEF E!Spec

LEMMA ConfigurationTyped == ConfigurationSound => E!TypeOK
<1> SUFFICES ASSUME ConfigurationSound PROVE E!TypeOK
  OBVIOUS
<1>1. ASSUME NEW kind \in E!Kinds, NEW i \in 1..E!Version(kind)
      PROVE  revisions[kind][i].base \in 0..MaxRevisions
  <2>1. ChainSound(kind, revisions[kind]) /\ i \in 1..Len(revisions[kind])
    BY DEF ConfigurationSound, DocumentsSound, E!Version
  <2>2. revisions[kind][i].base = i - 1 /\ i - 1 <= MaxRevisions
    BY <2>1 DEF ChainSound
  <2> QED
    BY <2>2
<1>2. ASSUME NEW i \in 1..E!Version("behavior_contract")
      PROVE  /\ revisions["behavior_contract"][i].enabled \subseteq
                  revisions["behavior_contract"][i].steps
             /\ revisions["behavior_contract"][i].steps \subseteq Steps
             /\ revisions["behavior_contract"][i].review \in {"needs_review", "accepted"}
  <2>1. ChainSound("behavior_contract", revisions["behavior_contract"])
        /\ i \in 1..Len(revisions["behavior_contract"])
    BY DEF ConfigurationSound, DocumentsSound, E!Version, E!Kinds
  <2>2. revisions["behavior_contract"][i] \in Document("behavior_contract")
        /\ revisions["behavior_contract"][i].enabled \subseteq
             revisions["behavior_contract"][i].steps
    BY <2>1 DEF ChainSound
  <2> QED
    BY <2>2 DEF Document
<1> QED
  BY <1>1, <1>2 DEF E!TypeOK, ConfigurationSound, DocumentsSound

LEMMA ConfigurationEditsHold ==
  ConfigurationSound => E!EditsBuildOnEachOther /\ E!NothingStandsOnReplaced
<1> SUFFICES ASSUME ConfigurationSound, NEW kind \in E!Kinds, NEW i \in 1..E!Version(kind)
             PROVE  LET revision == revisions[kind][i] IN
                    /\ revision.base = i - 1
                    /\ kind = "behavior_contract" /\ revision.review = "accepted" =>
                         /\ revision.enabled \intersect Checks # {}
                         /\ revision.steps = revisions[kind][i - 1].steps
                         /\ revision.enabled = revisions[kind][i - 1].enabled
                    /\ kind = "optimality_policy" =>
                         revision.guard = revisions[kind][1].guard
  BY DEF E!EditsBuildOnEachOther, ConfigurationSound
<1>1. ChainSound(kind, revisions[kind]) /\ i \in 1..Len(revisions[kind])
  BY DEF ConfigurationSound, DocumentsSound, E!Version
<1> QED
  BY <1>1 DEF ChainSound

LEMMA CandidateAnswersTrue == ConfigurationSound => E!AnswersTrue
<1> SUFFICES ASSUME ConfigurationSound PROVE E!T!AnswersTrue
  BY DEF E!AnswersTrue
<1> DEFINE row == candidates[Candidate]
<1>1. /\ DOMAIN candidates = {Candidate}
      /\ RowSound(StalingTransitions, CandidateRank, EKeys, row)
  BY DEF ConfigurationSound, CandidateSound
<1>2. ASSUME NEW c \in CandidateCallers
      PROVE  /\ calls[c].answer = "ok" =>
                  \E i \in 1..Len(candidates[calls[c].object].log) :
                    candidates[calls[c].object].log[i] = <<calls[c].key, calls[c].to>>
             /\ calls[c].answer = "conflict" =>
                  candidates[calls[c].object].state # calls[c].from
  <2>1. /\ calls[c].step # "idle" => calls[c].object = Candidate
        /\ CallSound(StalingTransitions, EKeys, row, calls[c])
    BY DEF ConfigurationSound, CandidateSound
  <2>2. calls[c].answer \in {"ok", "conflict"} => calls[c].object = Candidate
    BY <2>1 DEF CallSound
  <2> QED
    BY <2>1, <2>2 DEF CallSound, Recorded
<1>3. ASSUME NEW i \in 1..Len(row.log), NEW j \in 1..Len(row.log), row.log[i][2] = row.log[j][2]
      PROVE  i = j
  BY <1>1, <1>3, NoStateTwice, StalingAscends
<1> QED
  BY <1>1, <1>2, <1>3 DEF E!T!AnswersTrue

-----------------------------------------------------------------------------
(***************************************************************************)
(* Readable revisions.  Of a revision that a read does not accept nothing  *)
(* is made: a request that cannot read asks for nothing.                   *)
(***************************************************************************)
ReadableTo(docs, edited, next) ==
  /\ \A i \in 1..Len(docs) : i # Len(docs) => docs[i].sound
  /\ edited => docs[next.base].sound

ReadableSound ==
  /\ \A kind \in E!Kinds : ReadableTo(revisions[kind], FALSE, None)
  /\ \A e \in Edits :
       edits[e] # None => ReadableTo(revisions[edits[e].kind], TRUE, edits[e].next)

LEMMA ReadReadable ==
  ASSUME E!ConfigurationAssumption, DocumentsSound, ReadableSound, NEW e \in Edits, E!Read(e)
  PROVE  ReadableSound'
<1>1. PICK kind \in E!Kinds :
        /\ E!Current(kind).sound
        /\ \E next \in E!NextRevisions(kind, E!Version(kind), E!Current(kind)) :
             E!Submit(e, kind, next)
  BY DEF E!Read
<1>2. PICK next \in E!NextRevisions(kind, E!Version(kind), E!Current(kind)) :
        E!Submit(e, kind, next)
  BY <1>1
<1>3. PICK docs : docs = revisions[kind]
  OBVIOUS
<1>4. PICK n \in Nat : n = Len(docs) /\ n >= 1
  BY <1>3 DEF DocumentsSound, ChainSound
<1>5. PICK current : current = docs[n]
  OBVIOUS
<1>6. current.sound /\ next \in E!NextRevisions(kind, n, current)
  BY <1>1, <1>2, <1>3, <1>4, <1>5 DEF E!Current, E!Version
<1>7. AllSound \in BOOLEAN
  BY DEF E!ConfigurationAssumption
<1>8. next.base = n
  <2>1. current \in Document(kind)
        /\ (kind = "behavior_contract" => current.enabled \subseteq current.steps)
    BY <1>3, <1>4, <1>5 DEF DocumentsSound, ChainSound
  <2> QED
    BY <1>6, <1>7, <2>1, NextRevisionFollows
<1>10. ReadableTo(docs, TRUE, next)
  BY <1>3, <1>5, <1>6, <1>8 DEF ReadableSound, ReadableTo
<1>11. PICK edit : edit = [kind |-> kind, next |-> next]
  OBVIOUS
<1>12. edit.kind = kind /\ edit.next = next /\ edits' = [edits EXCEPT ![e] = edit]
  BY <1>2, <1>11 DEF E!Submit
<1>13. \A f \in Edits : edits'[f] = IF f = e THEN edit ELSE edits[f]
  BY <1>12 DEF DocumentsSound
<1>14. revisions' = revisions
  BY DEF E!Read
<1>15. ASSUME NEW f \in Edits, edits'[f] # None
       PROVE  ReadableTo(revisions[edits'[f].kind], TRUE, edits'[f].next)
  <2>1. CASE f = e
    BY <1>3, <1>10, <1>12, <1>13, <2>1
  <2>2. CASE f # e
    BY <1>13, <1>15, <2>2 DEF ReadableSound
  <2> QED
    BY <2>1, <2>2
<1> QED
  BY <1>14, <1>15 DEF ReadableSound, ReadableTo

LEMMA AppendReadable ==
  ASSUME E!ConfigurationAssumption, DocumentsSound, ReadableSound, NEW e \in Edits,
         E!AppendRevision(e)
  PROVE  ReadableSound'
<1>1. PICK edit : edit = edits[e]
  OBVIOUS
<1>2. PICK kind, next : kind = edit.kind /\ next = edit.next
  OBVIOUS
<1>3. PICK docs : docs = revisions[kind]
  OBVIOUS
<1>4. PICK longer : longer = Append(docs, next)
  OBVIOUS
<1>5. /\ edit # None /\ Len(docs) = next.base /\ EditSound(edit)
      /\ revisions' = [revisions EXCEPT ![kind] = longer]
      /\ edits' = [edits EXCEPT ![e] = None]
  BY <1>1, <1>2, <1>3, <1>4
  DEF E!AppendRevision, E!Replaces, E!Version, E!AppendTo, DocumentsSound
<1>6. /\ kind \in E!Kinds /\ next \in Document(kind) /\ next.base <= MaxRevisions
      /\ Follows(kind, docs[next.base], next) /\ ChainSound(kind, docs) /\ MaxRevisions \in Nat
  BY <1>1, <1>2, <1>3, <1>5 DEF EditSound, DocumentsSound, E!ConfigurationAssumption
<1>7. PICK n \in Nat : n = Len(docs) /\ n >= 1
  BY <1>6 DEF ChainSound
<1>8. Len(longer) = n + 1 /\ \A i \in 1..n : longer[i] = docs[i]
  BY <1>4, <1>5, <1>6, <1>7, AppendedSound
<1>9. longer[n + 1] = next
  <2>1. docs \in Seq(Document(kind))
    BY <1>6 DEF ChainSound
  <2> QED
    BY <1>4, <1>6, <1>7, <2>1
<1>10. ReadableTo(docs, TRUE, next)
  BY <1>1, <1>2, <1>3, <1>5 DEF ReadableSound
<1>11. \A i \in 1..n : docs[i].sound
  BY <1>5, <1>7, <1>10 DEF ReadableTo
<1>12. \A i \in 1..(n + 1) : i \in 1..n \/ i = n + 1
  OBVIOUS
<1>13. ReadableTo(longer, FALSE, None)
  BY <1>8, <1>9, <1>10, <1>11, <1>12 DEF ReadableTo
<1>14. /\ revisions'[kind] = longer
       /\ \A k \in E!Kinds \ {kind} : revisions'[k] = revisions[k]
       /\ \A f \in Edits : edits'[f] = IF f = e THEN None ELSE edits[f]
  BY <1>5, <1>6 DEF DocumentsSound
<1>15. \A k \in E!Kinds : ReadableTo(revisions'[k], FALSE, None)
  BY <1>13, <1>14 DEF ReadableSound
<1>16. ASSUME NEW f \in Edits, edits'[f] # None
       PROVE  ReadableTo(revisions'[edits'[f].kind], TRUE, edits'[f].next)
  <2>1. PICK other : other = edits[f] /\ edits'[f] = other
    BY <1>14, <1>16
  <2>2. /\ EditSound(other) /\ other # None
        /\ ReadableTo(revisions[other.kind], TRUE, other.next)
    BY <1>16, <2>1 DEF DocumentsSound, ReadableSound
  <2>3. CASE other.kind = kind
    <3>1. other.next.base \in 1..n
      BY <1>3, <1>7, <2>2, <2>3 DEF EditSound
    <3>2. longer[other.next.base].sound
      BY <1>8, <1>11, <3>1
    <3>3. ReadableTo(longer, TRUE, other.next)
      BY <1>13, <2>2, <3>2 DEF ReadableTo
    <3> QED
      BY <1>14, <2>1, <2>3, <3>3
  <2>4. CASE other.kind # kind
    <3>1. other.kind \in E!Kinds \ {kind}
      BY <2>2, <2>4 DEF EditSound
    <3> QED
      BY <1>14, <2>1, <2>2, <3>1
  <2> QED
    BY <2>3, <2>4
<1>17. \A f \in Edits : edits'[f] # None =>
                          ReadableTo(revisions'[edits'[f].kind], TRUE, edits'[f].next)
  BY <1>16
<1> QED
  BY <1>15, <1>17 DEF ReadableSound, ReadableTo

(* In every behaviour of the configuration service only the last revision  *)
(* of a kind may be unreadable.                                            *)
LEMMA ReadableSoundAlways ==
  ASSUME E!ConfigurationAssumption
  PROVE  E!Spec => []ReadableSound
<1>1. E!Init => ReadableSound
  <2> SUFFICES ASSUME E!Init PROVE ReadableSound
    OBVIOUS
  <2>1. PICK goal, first, policy :
          /\ goal.sound /\ first.sound /\ policy.sound
          /\ revisions = [project_goal |-> <<goal>>, behavior_contract |-> <<first>>,
                          optimality_policy |-> <<policy>>]
    BY DEF E!Init, E!Goal, E!Contract, E!Policy
  <2>2. /\ revisions["project_goal"] = <<goal>>
        /\ revisions["behavior_contract"] = <<first>>
        /\ revisions["optimality_policy"] = <<policy>>
    BY <2>1
  <2>3. \A doc : doc.sound => ReadableTo(<<doc>>, FALSE, None)
    <3> TAKE doc
    <3>1. Len(<<doc>>) = 1 /\ <<doc>>[1] = doc /\ \A i \in 1..1 : i = 1
      OBVIOUS
    <3> QED
      BY <3>1 DEF ReadableTo
  <2>4. edits = [e \in Edits |-> None]
    BY DEF E!Init
  <2> QED
    BY <2>1, <2>2, <2>3, <2>4 DEF ReadableSound, E!Kinds
<1>2. ConfigurationSound /\ ReadableSound /\ [E!Next]_E!vars => ReadableSound'
  <2> SUFFICES ASSUME ConfigurationSound, ReadableSound, [E!Next]_E!vars PROVE ReadableSound'
    OBVIOUS
  <2>1. DocumentsSound
    BY DEF ConfigurationSound
  <2>2. ASSUME UNCHANGED revisions, \A e \in Edits : edits'[e] = edits[e] \/ edits'[e] = None
        PROVE  ReadableSound'
    BY <2>2 DEF ReadableSound, ReadableTo
  <2>3. ASSUME NEW e \in Edits, E!RollBack(e) PROVE ReadableSound'
    BY <2>1, <2>2, <2>3 DEF E!RollBack, DocumentsSound
  <2>4. CASE UNCHANGED <<revisions, edits>>
    BY <2>2, <2>4
  <2> QED
    BY <2>1, <2>3, <2>4, ReadReadable, AppendReadable DEF E!Next, E!vars
<1> QED
  BY <1>1, <1>2, ConfigurationSoundAlways, PTL DEF E!Spec

(* Every revision that another was made from passes the check of the read: *)
(* what does not is the last of its kind for ever, and no acceptance or    *)
(* edit rests on it (#append, readProjectGoal and its siblings).           *)
NothingBuiltOnUnreadable ==
  \A kind \in E!Kinds : \A i \in 1..(E!Version(kind) - 1) : revisions[kind][i].sound

THEOREM ReadableOrLast ==
  E!ConfigurationAssumption => (E!Spec => []NothingBuiltOnUnreadable)
<1> SUFFICES ASSUME E!ConfigurationAssumption PROVE E!Spec => []NothingBuiltOnUnreadable
  OBVIOUS
<1>1. ConfigurationSound /\ ReadableSound => NothingBuiltOnUnreadable
  <2> SUFFICES ASSUME ConfigurationSound, ReadableSound, NEW kind \in E!Kinds,
                      NEW i \in 1..(E!Version(kind) - 1)
               PROVE  revisions[kind][i].sound
    BY DEF NothingBuiltOnUnreadable
  <2>1. PICK n \in Nat : n = Len(revisions[kind]) /\ n >= 1
    BY DEF ConfigurationSound, DocumentsSound, ChainSound
  <2>2. i \in 1..n /\ i # n
    BY <2>1 DEF E!Version
  <2> QED
    BY <2>1, <2>2 DEF ReadableSound, ReadableTo
<1> QED
  BY <1>1, ConfigurationSoundAlways, ReadableSoundAlways, PTL

-----------------------------------------------------------------------------
LedgerWrite == [step : {"idle", "insert", "select", "answered"}, key : OperationKeys \union {None},
          entry : L!Entry \union {None}, answer : {"none", "ok", "conflict"}]

LedgerTyped ==
  /\ entries \in [OperationKeys -> L!Entry \union {None}]
  /\ writes \in [Writers -> LedgerWrite]

WriteSound(write) ==
  /\ write.step # "idle" => write.key \in OperationKeys /\ write.entry \in L!Entry
  /\ write.answer # "none" <=> write.step = "answered"
  /\ write.step \in {"select", "answered"} => entries[write.key] # None
  /\ write.step = "answered" => (write.answer = "ok" <=> entries[write.key] = write.entry)

LedgerSound == LedgerTyped /\ \A w \in Writers : WriteSound(writes[w])

(* An entry is what it is, once it is there: the INSERT adds one where     *)
(* there is none, and nothing else writes.                                 *)
LEMMA EntriesKept ==
  ASSUME L!LedgerAssumption, LedgerSound, NEW v \in Writers,
         WriteSound(writes[v]), writes'[v] = writes[v],
         \A k \in OperationKeys : entries[k] # None => entries'[k] = entries[k]
  PROVE  WriteSound(writes[v])'
BY DEF LedgerSound, LedgerTyped, WriteSound, LedgerWrite, L!LedgerAssumption

LEMMA OfferSound ==
  ASSUME L!LedgerAssumption, LedgerSound, NEW w \in Writers, L!Offer(w)
  PROVE  LedgerSound'
<1>1. PICK k \in OperationKeys, e \in L!Entry :
        writes' = [writes EXCEPT ![w] =
          [step |-> "insert", key |-> k, entry |-> e, answer |-> "none"]]
  BY DEF L!Offer
<1>2. UNCHANGED entries
  BY DEF L!Offer
<1>3. [step |-> "insert", key |-> k, entry |-> e, answer |-> "none"] \in LedgerWrite
  BY DEF LedgerWrite
<1>4. LedgerTyped'
  BY <1>1, <1>2, <1>3 DEF LedgerSound, LedgerTyped
<1>5. ASSUME NEW v \in Writers PROVE WriteSound(writes[v])'
  <2>1. CASE v = w
    BY <1>1, <2>1 DEF LedgerSound, LedgerTyped, WriteSound
  <2>2. CASE v # w
    BY <1>1, <1>2, <2>2, EntriesKept DEF LedgerSound, LedgerTyped
  <2> QED
    BY <2>1, <2>2
<1> QED
  BY <1>4, <1>5 DEF LedgerSound

LEMMA InsertSound ==
  ASSUME L!LedgerAssumption, LedgerSound, NEW w \in Writers, L!Insert(w)
  PROVE  LedgerSound'
<1> DEFINE write == writes[w]
<1>1. /\ write.step = "insert" /\ write.key \in OperationKeys /\ write.entry \in L!Entry
      /\ write.answer = "none"
  BY DEF L!Insert, LedgerSound, LedgerTyped, LedgerWrite, WriteSound
<1>2. CASE entries[write.key] = None
  <2>1. /\ entries' = [entries EXCEPT ![write.key] = write.entry]
        /\ writes' = [writes EXCEPT ![w].step = "answered", ![w].answer = "ok"]
    BY <1>2 DEF L!Insert, L!Answer
  <2>2. LedgerTyped'
    BY <1>1, <2>1 DEF LedgerSound, LedgerTyped, LedgerWrite
  <2>3. /\ entries'[write.key] = write.entry
        /\ \A k \in OperationKeys : entries[k] # None => entries'[k] = entries[k]
    BY <1>1, <1>2, <2>1 DEF LedgerSound, LedgerTyped
  <2>4. ASSUME NEW v \in Writers PROVE WriteSound(writes[v])'
    <3>1. CASE v = w
      BY <1>1, <2>1, <2>3, <3>1 DEF LedgerSound, LedgerTyped, LedgerWrite, WriteSound, L!LedgerAssumption
    <3>2. CASE v # w
      BY <2>1, <2>3, <3>2, EntriesKept DEF LedgerSound, LedgerTyped
    <3> QED
      BY <3>1, <3>2
  <2> QED
    BY <2>2, <2>4 DEF LedgerSound
<1>3. CASE entries[write.key] # None
  <2>1. UNCHANGED entries /\ writes' = [writes EXCEPT ![w].step = "select"]
    BY <1>3 DEF L!Insert
  <2>2. LedgerTyped'
    BY <2>1 DEF LedgerSound, LedgerTyped, LedgerWrite
  <2>3. ASSUME NEW v \in Writers PROVE WriteSound(writes[v])'
    <3>1. CASE v = w
      BY <1>1, <1>3, <2>1, <3>1 DEF LedgerSound, LedgerTyped, LedgerWrite, WriteSound
    <3>2. CASE v # w
      BY <2>1, <3>2, EntriesKept DEF LedgerSound, LedgerTyped
    <3> QED
      BY <3>1, <3>2
  <2> QED
    BY <2>2, <2>3 DEF LedgerSound
<1> QED
  BY <1>2, <1>3

(* The comparison tells the entry of the key from every other, because an  *)
(* entry is its id and what it is bound to.                                *)
LEMMA SelectSound ==
  ASSUME L!LedgerAssumption, LedgerSound, NEW w \in Writers, L!Select(w)
  PROVE  LedgerSound'
<1> DEFINE write == writes[w]
           same == L!SameBinding(entries[write.key], write.entry)
<1>1. /\ write.step = "select" /\ write.key \in OperationKeys /\ write.entry \in L!Entry
      /\ entries[write.key] # None /\ entries[write.key] \in L!Entry
  BY DEF L!Select, LedgerSound, LedgerTyped, LedgerWrite, WriteSound
<1>2. same <=> entries[write.key] = write.entry
  BY <1>1 DEF L!SameBinding, L!Entry
<1>3. /\ UNCHANGED entries
      /\ writes' = [writes EXCEPT ![w].step = "answered",
                                  ![w].answer = IF same THEN "ok" ELSE "conflict"]
  BY DEF L!Select, L!Answer
<1> HIDE DEF same
<1>4. LedgerTyped'
  BY <1>3 DEF LedgerSound, LedgerTyped, LedgerWrite
<1>5. ASSUME NEW v \in Writers PROVE WriteSound(writes[v])'
  <2>1. CASE v = w
    BY <1>1, <1>2, <1>3, <2>1 DEF LedgerSound, LedgerTyped, LedgerWrite, WriteSound
  <2>2. CASE v # w
    BY <1>3, <2>2, EntriesKept DEF LedgerSound, LedgerTyped
  <2> QED
    BY <2>1, <2>2
<1> QED
  BY <1>4, <1>5 DEF LedgerSound

LEMMA LedgerSoundAlways ==
  ASSUME L!LedgerAssumption
  PROVE  L!Spec => []LedgerSound
<1>1. L!Init => LedgerSound
  BY DEF L!Init, L!NoWrite, LedgerSound, LedgerTyped, LedgerWrite, WriteSound
<1>2. LedgerSound /\ [L!Next]_L!vars => LedgerSound'
  <2> SUFFICES ASSUME LedgerSound, [L!Next]_L!vars PROVE LedgerSound'
    OBVIOUS
  <2>1. ASSUME NEW w \in Writers, L!Offer(w) \/ L!Insert(w) \/ L!Select(w)
        PROVE  LedgerSound'
    BY <2>1, OfferSound, InsertSound, SelectSound
  <2>2. CASE UNCHANGED L!vars
    BY <2>2 DEF L!vars, LedgerSound, LedgerTyped, WriteSound
  <2> QED
    BY <2>1, <2>2 DEF L!Next
<1> QED
  BY <1>1, <1>2, PTL DEF L!Spec

LEMMA LedgerTypes == LedgerSound => L!TypeOK
BY DEF LedgerSound, LedgerTyped, LedgerWrite, L!TypeOK

LEMMA LedgerAnswers == LedgerSound => L!OneBindingPerKey
BY DEF LedgerSound, WriteSound, L!OneBindingPerKey

-----------------------------------------------------------------------------
(* Reconciliation: a delivery has requested what it has not left to do.    *)
RunSound(run) ==
  run.step # "idle" =>
    /\ run.checkpoint \in Checkpoints /\ run.left \subseteq Found[run.checkpoint]
    /\ \A f \in Found[run.checkpoint] \ run.left : <<run.checkpoint, f>> \in requested

ReconciliationSound ==
  R!TypeOK /\ R!RequestsFollow /\ \A r \in Runs : RunSound(reconciliations[r])

LEMMA RunMoves ==
  ASSUME ReconciliationSound, NEW r \in Runs, NEW run \in R!Run,
         reconciliations' = [reconciliations EXCEPT ![r] = run],
         active' \subseteq R!Findings, requested \subseteq requested',
         requested' \subseteq R!Requests, done' \subseteq Checkpoints,
         RunSound(run)', R!RequestsFollow'
  PROVE  ReconciliationSound'
<1>1. reconciliations' \in [Runs -> R!Run] /\ reconciliations'[r] = run
  BY DEF ReconciliationSound, R!TypeOK
<1>2. ASSUME NEW q \in Runs, q # r PROVE RunSound(reconciliations[q])'
  <2>1. reconciliations'[q] = reconciliations[q] /\ RunSound(reconciliations[q])
    BY <1>2 DEF ReconciliationSound, R!TypeOK
  <2> QED
    BY <2>1 DEF RunSound
<1>3. \A q \in Runs : RunSound(reconciliations[q])'
  BY <1>1, <1>2
<1> QED
  BY <1>1, <1>3 DEF ReconciliationSound, R!TypeOK

LEMMA NoRunSound == R!NoRun \in R!Run /\ RunSound(R!NoRun) /\ RunSound(R!NoRun)'
BY DEF R!NoRun, R!Run, RunSound

LEMMA ReconciliationStep ==
  ASSUME ReconciliationSound, NEW r \in Runs,
         R!Load(r) \/ R!Replace(r) \/ R!Enqueue(r) \/ R!Return(r) \/ R!Lose(r)
  PROVE  ReconciliationSound' /\ R!ReplacesRead
<1>1. PICK run \in R!Run : run = reconciliations[r]
  BY DEF ReconciliationSound, R!TypeOK
<1>2. /\ RunSound(run) /\ active \subseteq R!Findings /\ requested \subseteq R!Requests
      /\ done \subseteq Checkpoints /\ R!RequestsFollow
  BY <1>1 DEF ReconciliationSound, R!TypeOK
<1>3. CASE R!Load(r)
  <2>1. PICK c \in Checkpoints : reconciliations' = [reconciliations EXCEPT ![r] =
          [step |-> "replace", checkpoint |-> c, previous |-> active, left |-> Found[c]]]
    BY <1>3 DEF R!Load
  <2>2. UNCHANGED <<active, requested, done>>
    BY <1>3 DEF R!Load
  <2> DEFINE next == [step |-> "replace", checkpoint |-> c, previous |-> active,
                      left |-> Found[c]]
  <2>3. Found[c] \subseteq R!Findings
    BY DEF R!Findings
  <2>4. next \in R!Run
    BY <1>2, <2>3 DEF R!Run
  <2>5. RunSound(next)'
    BY DEF RunSound
  <2>6. R!RequestsFollow'
    BY <1>2, <2>2 DEF R!RequestsFollow
  <2>7. ReconciliationSound'
    BY <1>2, <2>1, <2>2, <2>4, <2>5, <2>6, RunMoves
  <2> QED
    BY <2>2, <2>7 DEF R!ReplacesRead
<1>4. CASE R!Replace(r)
  <2> DEFINE next == [run EXCEPT !.step = "request"]
             found == Found[run.checkpoint]
  <2>1. /\ run.step = "replace" /\ UNCHANGED <<requested, done>>
        /\ active' = (active \ (run.previous \ found)) \union found
        /\ reconciliations' = [reconciliations EXCEPT ![r] = next]
    BY <1>1, <1>4 DEF R!Replace, R!Superseded
  <2>2. run.checkpoint \in Checkpoints /\ found \subseteq R!Findings
    BY <1>2, <2>1 DEF RunSound, R!Findings
  <2>3. next \in R!Run /\ next.checkpoint = run.checkpoint /\ next.left = run.left
    BY DEF R!Run
  <2>4. RunSound(next)'
    BY <1>2, <2>1, <2>3 DEF RunSound
  <2>5. R!RequestsFollow' /\ active' \subseteq R!Findings
    BY <1>2, <2>1, <2>2 DEF R!RequestsFollow
  <2>6. ReconciliationSound'
    BY <1>2, <2>1, <2>3, <2>4, <2>5, RunMoves
  <2>7. found \subseteq active' /\ active \ active' \subseteq run.previous
        /\ (run.previous = active => active' = found)
    BY <2>1
  <2> QED
    BY <1>1, <2>1, <2>6, <2>7 DEF R!ReplacesRead
<1>5. CASE R!Enqueue(r)
  <2>1. PICK f \in run.left :
          /\ requested' = requested \union {<<run.checkpoint, f>>}
          /\ reconciliations' = [reconciliations EXCEPT ![r].left = @ \ {f}]
    BY <1>1, <1>5 DEF R!Enqueue
  <2> DEFINE next == [run EXCEPT !.left = run.left \ {f}]
  <2>2. /\ reconciliations' = [reconciliations EXCEPT ![r] = next]
        /\ UNCHANGED <<active, done>> /\ run.step = "request"
    BY <1>1, <1>5, <2>1 DEF R!Enqueue, ReconciliationSound, R!TypeOK
  <2>3. /\ next \in R!Run /\ next.checkpoint = run.checkpoint
        /\ next.left = run.left \ {f} /\ next.step = run.step
    BY DEF R!Run
  <2>4. RunSound(next)'
    BY <1>2, <2>1, <2>3 DEF RunSound
  <2>5. R!RequestsFollow'
    BY <1>2, <2>1, <2>2 DEF R!RequestsFollow
  <2>6. requested' \subseteq R!Requests /\ requested \subseteq requested'
    <3>1. f \in Found[run.checkpoint] /\ run.checkpoint \in Checkpoints
      BY <1>2, <2>1, <2>2 DEF RunSound
    <3>2. <<run.checkpoint, f>> \in R!Requests
      BY <3>1 DEF R!Requests, R!Findings
    <3> QED
      BY <1>2, <2>1, <3>2
  <2>7. ReconciliationSound'
    BY <1>2, <2>2, <2>3, <2>4, <2>5, <2>6, RunMoves
  <2> QED
    BY <2>2, <2>7 DEF R!ReplacesRead
<1>6. CASE R!Return(r)
  <2>1. /\ run.step = "request" /\ run.left = {} /\ done' = done \union {run.checkpoint}
        /\ reconciliations' = [reconciliations EXCEPT ![r] = R!NoRun]
        /\ UNCHANGED <<active, requested>>
    BY <1>1, <1>6 DEF R!Return
  <2>2. /\ run.checkpoint \in Checkpoints
        /\ \A f \in Found[run.checkpoint] : <<run.checkpoint, f>> \in requested
    BY <1>2, <2>1 DEF RunSound
  <2>3. R!RequestsFollow'
    BY <1>2, <2>1, <2>2 DEF R!RequestsFollow
  <2>4. ReconciliationSound'
    BY <1>2, <2>1, <2>2, <2>3, NoRunSound, RunMoves
  <2> QED
    BY <2>1, <2>4 DEF R!ReplacesRead
<1>7. CASE R!Lose(r)
  <2>1. /\ reconciliations' = [reconciliations EXCEPT ![r] = R!NoRun]
        /\ UNCHANGED <<active, requested, done>>
    BY <1>7 DEF R!Lose
  <2>2. R!RequestsFollow'
    BY <1>2, <2>1 DEF R!RequestsFollow
  <2>3. ReconciliationSound'
    BY <1>2, <2>1, <2>2, NoRunSound, RunMoves
  <2> QED
    BY <2>1, <2>3 DEF R!ReplacesRead
<1> QED
  BY <1>3, <1>4, <1>5, <1>6, <1>7

LEMMA ReconciliationMoves ==
  ReconciliationSound /\ [R!Next]_R!vars => ReconciliationSound' /\ R!ReplacesRead
<1> SUFFICES ASSUME ReconciliationSound, [R!Next]_R!vars
             PROVE  ReconciliationSound' /\ R!ReplacesRead
  OBVIOUS
<1>1. CASE R!Next
  BY <1>1, ReconciliationStep DEF R!Next
<1>2. CASE UNCHANGED R!vars
  <2>1. UNCHANGED <<active, requested, done>> /\ UNCHANGED reconciliations
    BY <1>2 DEF R!vars
  <2>2. ASSUME NEW r \in Runs PROVE RunSound(reconciliations[r])'
    BY <2>1 DEF ReconciliationSound, RunSound
  <2>3. R!TypeOK' /\ R!RequestsFollow'
    BY <2>1 DEF ReconciliationSound, R!TypeOK, R!RequestsFollow
  <2> QED
    BY <2>1, <2>2, <2>3 DEF ReconciliationSound, R!ReplacesRead
<1> QED
  BY <1>1, <1>2

LEMMA ReconciliationSoundAlways == R!Spec => []ReconciliationSound
<1>1. R!Init => ReconciliationSound
  <2> SUFFICES ASSUME R!Init PROVE ReconciliationSound
    OBVIOUS
  <2>1. active \subseteq R!Findings /\ requested = {} /\ done = {}
        /\ reconciliations = [r \in Runs |-> R!NoRun]
    BY DEF R!Init
  <2>2. R!TypeOK /\ R!RequestsFollow
    BY <2>1, NoRunSound DEF R!TypeOK, R!RequestsFollow
  <2> QED
    BY <2>1, <2>2, NoRunSound DEF ReconciliationSound
<1> QED
  BY <1>1, ReconciliationMoves, PTL DEF R!Spec

-----------------------------------------------------------------------------
(* Model registry: a call knows the version at the revision it has seen.   *)
PromotionType == [step : {"idle", "gate", "activate", "retire"},
                  version : ModelVersions \union {None}, revision : Nat,
                  proof : P!Evidence \union {None}]

PromotionSound(call) ==
  call.step # "idle" =>
    /\ call.version \in ModelVersions /\ versions[call.version].state # "none"
    /\ call.revision <= versions[call.version].revision
    /\ call.revision = versions[call.version].revision =>
         versions[call.version].state \in {"proposed", "active"}
    /\ call.step = "activate" =>
         /\ call.proof \in P!Evidence /\ call.proof.flaw = "none"
         /\ call.proof.content = versions[call.version].content

RegistrySound ==
  /\ P!TypeOK /\ P!ActiveIsEvaluated
  /\ promotions \in [Callers -> PromotionType]
  /\ \A c \in Callers : PromotionSound(promotions[c])

(* What no step undoes of a version that exists.                           *)
VersionKept(v) ==
  versions[v].state # "none" =>
    /\ versions'[v].state # "none" /\ versions'[v].content = versions[v].content
    /\ \/ versions'[v].revision = versions[v].revision /\ versions'[v].state = versions[v].state
       \/ versions'[v].revision = versions[v].revision + 1

LEMMA PromotionKept ==
  ASSUME RegistrySound, NEW call \in PromotionType, PromotionSound(call),
         \A v \in ModelVersions : VersionKept(v)
  PROVE  PromotionSound(call)'
<1> SUFFICES ASSUME call.step # "idle" PROVE PromotionSound(call)'
  BY DEF PromotionSound
<1>1. PICK v \in ModelVersions : v = call.version
  BY DEF PromotionSound
<1>2. versions[v].revision \in Nat /\ call.revision \in Nat
  BY DEF RegistrySound, P!TypeOK, P!Version, PromotionType
<1>3. VersionKept(v) /\ versions[v].state # "none"
  BY <1>1 DEF PromotionSound
<1> QED
  BY <1>1, <1>2, <1>3 DEF PromotionSound, VersionKept

LEMMA PromotionsMove ==
  ASSUME RegistrySound, NEW c \in Callers, NEW call \in PromotionType,
         promotions' = [promotions EXCEPT ![c] = call], PromotionSound(call)',
         \A v \in ModelVersions : VersionKept(v), P!TypeOK', P!ActiveIsEvaluated'
  PROVE  RegistrySound'
<1>1. promotions' \in [Callers -> PromotionType] /\ promotions'[c] = call
  BY DEF RegistrySound
<1>2. ASSUME NEW d \in Callers, d # c PROVE PromotionSound(promotions[d])'
  <2>1. PICK other \in PromotionType : other = promotions[d]
    BY DEF RegistrySound
  <2>2. promotions'[d] = other /\ PromotionSound(other)
    BY <1>2, <2>1 DEF RegistrySound
  <2>3. PromotionSound(other)'
    BY <2>2, PromotionKept
  <2> QED
    BY <2>2, <2>3 DEF PromotionSound
<1>3. PromotionSound(promotions[c])'
  BY <1>1 DEF PromotionSound
<1> QED
  BY <1>1, <1>2, <1>3 DEF RegistrySound

LEMMA NoPromotion ==
  /\ P!NoCall \in PromotionType
  /\ PromotionSound(P!NoCall) /\ PromotionSound(P!NoCall)'
BY DEF P!NoCall, PromotionType, PromotionSound

(* A caller reads; the versions stay.                                      *)
LEMMA VersionsRead ==
  ASSUME RegistrySound, NEW c \in Callers, NEW call \in PromotionType,
         promotions' = [promotions EXCEPT ![c] = call], PromotionSound(call),
         UNCHANGED versions, evidence' \in P!Evaluations
  PROVE  RegistrySound' /\ P!KeepsRetired
<1>1. \A v \in ModelVersions : VersionKept(v)
  BY DEF VersionKept
<1>2. P!TypeOK' /\ P!ActiveIsEvaluated' /\ P!KeepsRetired
  BY DEF RegistrySound, P!TypeOK, P!ActiveIsEvaluated, P!KeepsRetired
<1>3. PromotionSound(call)'
  BY DEF PromotionSound
<1> QED
  BY <1>1, <1>2, <1>3, PromotionsMove

LEMMA ProposeSound ==
  ASSUME RegistrySound, P!Propose
  PROVE  RegistrySound' /\ P!KeepsRetired
<1>1. PICK v \in ModelVersions, content \in Templates :
        /\ versions[v].state = "none"
        /\ versions' = [versions EXCEPT ![v] =
             [state |-> "proposed", content |-> content, revision |-> 0, proof |-> None]]
  BY DEF P!Propose
<1>2. UNCHANGED <<evidence, promotions>>
  BY DEF P!Propose
<1>3. /\ versions'[v] = [state |-> "proposed", content |-> content, revision |-> 0,
                         proof |-> None]
      /\ \A w \in ModelVersions \ {v} : versions'[w] = versions[w]
      /\ DOMAIN versions' = ModelVersions
  BY <1>1 DEF RegistrySound, P!TypeOK
<1>4. P!TypeOK'
  BY <1>1, <1>2, <1>3 DEF RegistrySound, P!TypeOK, P!Version
<1>5. P!ActiveIsEvaluated' /\ P!KeepsRetired
  BY <1>1, <1>3 DEF RegistrySound, P!ActiveIsEvaluated, P!KeepsRetired
<1>6. \A w \in ModelVersions : VersionKept(w)
  BY <1>1, <1>3 DEF VersionKept
<1>7. ASSUME NEW c \in Callers PROVE PromotionSound(promotions[c])'
  <2>1. PICK call \in PromotionType : call = promotions[c]
    BY DEF RegistrySound
  <2>2. PromotionSound(call)'
    BY <1>6, <2>1, PromotionKept DEF RegistrySound
  <2> QED
    BY <1>2, <2>1, <2>2 DEF PromotionSound
<1> QED
  BY <1>2, <1>4, <1>5, <1>7 DEF RegistrySound

LEMMA EvaluateSound ==
  ASSUME RegistrySound, P!Evaluate
  PROVE  RegistrySound' /\ P!KeepsRetired
<1>1. PICK v \in ModelVersions, e \in P!Evidence : evidence' = [evidence EXCEPT ![v] = e]
  BY DEF P!Evaluate
<1>2. UNCHANGED versions /\ UNCHANGED promotions
  BY DEF P!Evaluate
<1>3. P!TypeOK' /\ P!ActiveIsEvaluated' /\ P!KeepsRetired
  BY <1>1, <1>2
  DEF RegistrySound, P!TypeOK, P!Evaluations, P!ActiveIsEvaluated, P!KeepsRetired
<1>4. ASSUME NEW c \in Callers PROVE PromotionSound(promotions[c])'
  BY <1>2 DEF RegistrySound, PromotionSound
<1> QED
  BY <1>2, <1>3, <1>4 DEF RegistrySound

LEMMA LoadToPromoteSound ==
  ASSUME RegistrySound, NEW c \in Callers, P!LoadToPromote(c)
  PROVE  RegistrySound' /\ P!KeepsRetired
<1>1. PICK v \in ModelVersions :
        /\ versions[v].state \in {"proposed", "active"}
        /\ promotions' = [promotions EXCEPT ![c] =
             [step |-> "gate", version |-> v, revision |-> versions[v].revision,
              proof |-> None]]
  BY DEF P!LoadToPromote
<1> DEFINE call == [step |-> "gate", version |-> v, revision |-> versions[v].revision,
                    proof |-> None]
<1>2. versions[v].revision \in Nat
  BY DEF RegistrySound, P!TypeOK, P!Version
<1>3. call \in PromotionType /\ PromotionSound(call)
  BY <1>1, <1>2 DEF PromotionType, PromotionSound
<1> QED
  BY <1>1, <1>3, VersionsRead DEF P!LoadToPromote, RegistrySound, P!TypeOK

LEMMA LoadToRetireSound ==
  ASSUME RegistrySound, NEW c \in Callers, P!LoadToRetire(c)
  PROVE  RegistrySound' /\ P!KeepsRetired
<1>1. PICK v \in ModelVersions :
        /\ versions[v].state \in {"proposed", "active"}
        /\ promotions' = [promotions EXCEPT ![c] =
             [step |-> "retire", version |-> v, revision |-> versions[v].revision,
              proof |-> None]]
  BY DEF P!LoadToRetire
<1> DEFINE call == [step |-> "retire", version |-> v, revision |-> versions[v].revision,
                    proof |-> None]
<1>2. versions[v].revision \in Nat
  BY DEF RegistrySound, P!TypeOK, P!Version
<1>3. call \in PromotionType /\ PromotionSound(call)
  BY <1>1, <1>2 DEF PromotionType, PromotionSound
<1> QED
  BY <1>1, <1>3, VersionsRead DEF P!LoadToRetire, RegistrySound, P!TypeOK

LEMMA GateSound ==
  ASSUME RegistrySound, NEW c \in Callers, P!Gate(c)
  PROVE  RegistrySound' /\ P!KeepsRetired
<1>1. PICK call \in PromotionType : call = promotions[c]
  BY DEF RegistrySound
<1>2. PICK v \in ModelVersions : v = call.version
  BY <1>1 DEF P!Gate, RegistrySound, PromotionSound
<1>3. /\ call.step = "gate" /\ PromotionSound(call)
      /\ UNCHANGED versions /\ evidence' = evidence /\ evidence \in P!Evaluations
  BY <1>1 DEF P!Gate, RegistrySound, P!TypeOK
<1>4. CASE P!PassesGate(versions[v], evidence[v])
  <2> DEFINE next == [call EXCEPT !.step = "activate", !.proof = evidence[v]]
  <2>1. promotions' = [promotions EXCEPT ![c] = next]
    BY <1>1, <1>2, <1>4 DEF P!Gate
  <2>2. /\ evidence[v] \in P!Evidence /\ evidence[v].flaw = "none"
        /\ evidence[v].content = versions[v].content
    BY <1>3, <1>4 DEF P!PassesGate, P!Evaluations
  <2>3. /\ next \in PromotionType /\ next.step = "activate" /\ next.version = v
        /\ next.revision = call.revision /\ next.proof = evidence[v]
    BY <1>2, <2>2 DEF PromotionType
  <2>4. PromotionSound(next)
    BY <1>2, <1>3, <2>2, <2>3 DEF PromotionSound
  <2> QED
    BY <1>3, <2>1, <2>3, <2>4, VersionsRead
<1>5. CASE ~P!PassesGate(versions[v], evidence[v])
  <2>1. promotions' = [promotions EXCEPT ![c] = P!NoCall]
    BY <1>1, <1>2, <1>5 DEF P!Gate
  <2> QED
    BY <1>3, <2>1, NoPromotion, VersionsRead
<1> QED
  BY <1>4, <1>5

LEMMA GiveUpSound ==
  ASSUME RegistrySound, NEW c \in Callers, P!GiveUp(c)
  PROVE  RegistrySound' /\ P!KeepsRetired
<1>1. /\ promotions' = [promotions EXCEPT ![c] = P!NoCall]
      /\ UNCHANGED versions /\ evidence' \in P!Evaluations
  BY DEF P!GiveUp, RegistrySound, P!TypeOK
<1> QED
  BY <1>1, NoPromotion, VersionsRead

LEMMA VersionMoves ==
  ASSUME NEW row \in P!Version, NEW state \in {"active", "retired"}
  PROVE  LET next == [row EXCEPT !.state = state, !.revision = row.revision + 1] IN
         /\ next \in P!Version /\ next.state = state /\ next.content = row.content
         /\ next.revision = row.revision + 1 /\ next.proof = row.proof
<1> DEFINE states == {"none", "proposed", "active", "retired"}
           contents == Templates \union {None}
           proofs == P!Evidence \union {None}
           versionType == [state : states, content : contents, revision : Nat, proof : proofs]
           next == [row EXCEPT !.state = state, !.revision = row.revision + 1]
<1>1. P!Version = versionType /\ state \in states
  BY DEF P!Version
<1> HIDE DEF states, contents, proofs
<1>2. row \in versionType /\ row.revision + 1 \in Nat
  BY <1>1
<1> DEFINE revision == row.revision + 1
<1> HIDE DEF revision
<1>3. [row EXCEPT !.state = state, !.revision = revision] \in versionType
  BY <1>1, <1>2 DEF revision
<1>4. /\ next.state = state /\ next.content = row.content
      /\ next.revision = row.revision + 1 /\ next.proof = row.proof
  BY <1>2
<1> QED
  BY <1>1, <1>3, <1>4 DEF revision

LEMMA VersionProven ==
  ASSUME NEW row \in P!Version, NEW proof \in P!Evidence
  PROVE  LET next == [row EXCEPT !.proof = proof] IN
         /\ next \in P!Version /\ next.state = row.state /\ next.content = row.content
         /\ next.revision = row.revision /\ next.proof = proof
<1> DEFINE states == {"none", "proposed", "active", "retired"}
           contents == Templates \union {None}
           proofs == P!Evidence \union {None}
           versionType == [state : states, content : contents, revision : Nat, proof : proofs]
           next == [row EXCEPT !.proof = proof]
<1>1. P!Version = versionType /\ proof \in proofs
  BY DEF P!Version
<1> HIDE DEF states, contents, proofs
<1>2. next \in versionType /\ next.state = row.state /\ next.content = row.content
      /\ next.revision = row.revision /\ next.proof = proof
  BY <1>1
<1> QED
  BY <1>1, <1>2

LEMMA ActivateSound ==
  ASSUME RegistrySound, NEW c \in Callers, P!Activate(c)
  PROVE  RegistrySound' /\ P!KeepsRetired
<1>1. PICK call \in PromotionType : call = promotions[c]
  BY DEF RegistrySound
<1>2. PICK v \in ModelVersions : v = call.version
  BY <1>1 DEF P!Activate, RegistrySound, PromotionSound
<1>3. /\ call.step = "activate" /\ PromotionSound(call)
      /\ call.revision = versions[v].revision
      /\ versions' = P!Activated(c) /\ evidence' = evidence
      /\ promotions' = [promotions EXCEPT ![c] = P!NoCall]
  BY <1>1, <1>2 DEF P!Activate, P!Unchanged, RegistrySound
<1>4. /\ versions[v].state \in {"proposed", "active"} /\ call.proof \in P!Evidence
      /\ call.proof.flaw = "none" /\ call.proof.content = versions[v].content
  BY <1>2, <1>3 DEF PromotionSound
<1>5. \A w \in ModelVersions : versions[w] \in P!Version
  BY DEF RegistrySound, P!TypeOK
<1>6. DOMAIN versions' = ModelVersions /\ versions' = [w \in ModelVersions |-> versions'[w]]
  BY <1>3 DEF P!Activated
<1>7. /\ versions'[v].state = "active" /\ versions'[v].revision = versions[v].revision + 1
      /\ versions'[v].proof = call.proof /\ versions'[v].content = versions[v].content
      /\ versions'[v] \in P!Version
  <2>1. PICK row \in P!Version : row = versions[v]
    BY <1>5
  <2> DEFINE on == [row EXCEPT !.state = "active", !.revision = row.revision + 1]
             next == [on EXCEPT !.proof = call.proof]
  <2>2. /\ on \in P!Version /\ on.state = "active" /\ on.content = row.content
        /\ on.revision = row.revision + 1
    BY VersionMoves
  <2>3. versions'[v] = [row EXCEPT !.state = "active", !.revision = row.revision + 1,
                                   !.proof = call.proof]
    BY <1>1, <1>2, <1>3, <2>1 DEF P!Activated
  <2>4. versions'[v] = next
    BY <2>3 DEF P!Version
  <2> HIDE DEF on
  <2>5. /\ next \in P!Version /\ next.state = on.state /\ next.content = on.content
        /\ next.revision = on.revision /\ next.proof = call.proof
    BY <1>4, <2>2, VersionProven
  <2> QED
    BY <2>1, <2>2, <2>4, <2>5
<1>8. ASSUME NEW w \in ModelVersions, w # v
      PROVE  /\ versions'[w] \in P!Version /\ VersionKept(w)
             /\ versions'[w].state # "active"
             /\ versions[w].state = "retired" => versions'[w].state = "retired"
  <2>1. CASE versions[w].state = "active"
    <3>1. versions'[w] = [versions[w] EXCEPT !.state = "retired",
                                             !.revision = versions[w].revision + 1]
      BY <1>1, <1>2, <1>3, <1>8, <2>1 DEF P!Activated
    <3> QED
      <4>1. PICK row \in P!Version : row = versions[w]
        BY <1>5
      <4> DEFINE next == [row EXCEPT !.state = "retired", !.revision = row.revision + 1]
      <4>2. /\ next \in P!Version /\ next.state = "retired" /\ next.content = row.content
            /\ next.revision = row.revision + 1 /\ next.proof = row.proof
        BY VersionMoves
      <4>3. versions'[w] = next
        BY <3>1, <4>1
      <4> HIDE DEF next
      <4> QED
        BY <4>1, <4>2, <4>3 DEF VersionKept
  <2>2. CASE versions[w].state # "active"
    <3>1. versions'[w] = versions[w]
      BY <1>1, <1>2, <1>3, <1>8, <2>2 DEF P!Activated
    <3> QED
      BY <1>5, <2>2, <3>1 DEF VersionKept
  <2> QED
    BY <2>1, <2>2
<1>9. VersionKept(v)
  BY <1>7 DEF VersionKept
<1>10. P!TypeOK'
  <2>1. versions' \in [ModelVersions -> P!Version]
    BY <1>6, <1>7, <1>8
  <2>2. \A w \in ModelVersions : versions'[w].state = "active" => versions'[w].proof \in P!Evidence
    BY <1>4, <1>7, <1>8
  <2> QED
    BY <1>3, <2>1, <2>2 DEF RegistrySound, P!TypeOK
<1>11. P!ActiveIsEvaluated'
  BY <1>4, <1>7, <1>8 DEF P!ActiveIsEvaluated
<1>12. P!KeepsRetired
  BY <1>4, <1>8 DEF P!KeepsRetired
<1> QED
  BY <1>3, <1>8, <1>9, <1>10, <1>11, <1>12, NoPromotion, PromotionsMove

LEMMA RetireSound ==
  ASSUME RegistrySound, NEW c \in Callers, P!Retire(c)
  PROVE  RegistrySound' /\ P!KeepsRetired
<1>1. PICK call \in PromotionType : call = promotions[c]
  BY DEF RegistrySound
<1>2. PICK v \in ModelVersions : v = call.version
  BY <1>1 DEF P!Retire, RegistrySound, PromotionSound
<1>3. versions[v] \in P!Version /\ versions \in [ModelVersions -> P!Version]
  BY DEF RegistrySound, P!TypeOK
<1> DEFINE next == [versions[v] EXCEPT !.state = "retired",
                                       !.revision = versions[v].revision + 1]
<1>4. /\ versions' = [versions EXCEPT ![v] = next] /\ evidence' = evidence
      /\ promotions' = [promotions EXCEPT ![c] = P!NoCall]
  BY <1>1, <1>2, <1>3 DEF P!Retire
<1>5. /\ next \in P!Version /\ next.state = "retired" /\ next.content = versions[v].content
      /\ next.revision = versions[v].revision + 1
  BY <1>3, VersionMoves
<1>6. /\ versions' \in [ModelVersions -> P!Version] /\ versions'[v] = next
      /\ \A w \in ModelVersions \ {v} : versions'[w] = versions[w]
  BY <1>3, <1>4, <1>5
<1> HIDE DEF next
<1>7. \A w \in ModelVersions : VersionKept(w)
  BY <1>5, <1>6 DEF VersionKept
<1>8. P!TypeOK' /\ P!ActiveIsEvaluated' /\ P!KeepsRetired
  BY <1>4, <1>5, <1>6 DEF RegistrySound, P!TypeOK, P!ActiveIsEvaluated, P!KeepsRetired
<1> QED
  BY <1>4, <1>7, <1>8, NoPromotion, PromotionsMove

LEMMA RegistryMoves ==
  RegistrySound /\ [P!Next]_P!vars => RegistrySound' /\ P!KeepsRetired
<1> SUFFICES ASSUME RegistrySound, [P!Next]_P!vars PROVE RegistrySound' /\ P!KeepsRetired
  OBVIOUS
<1>1. CASE P!Propose
  BY <1>1, ProposeSound
<1>2. CASE P!Evaluate
  BY <1>2, EvaluateSound
<1>3. ASSUME NEW c \in Callers,
             \/ P!LoadToPromote(c) \/ P!Gate(c) \/ P!LoadToRetire(c)
             \/ P!Activate(c) \/ P!Retire(c) \/ P!GiveUp(c)
      PROVE  RegistrySound' /\ P!KeepsRetired
  BY <1>3, LoadToPromoteSound, GateSound, LoadToRetireSound, ActivateSound, RetireSound,
     GiveUpSound
<1>4. CASE UNCHANGED P!vars
  <2>1. UNCHANGED versions /\ UNCHANGED evidence /\ UNCHANGED promotions
    BY <1>4 DEF P!vars
  <2>2. ASSUME NEW c \in Callers PROVE PromotionSound(promotions[c])'
    BY <2>1 DEF RegistrySound, PromotionSound
  <2>3. P!TypeOK' /\ P!ActiveIsEvaluated' /\ P!KeepsRetired
    BY <2>1 DEF RegistrySound, P!TypeOK, P!ActiveIsEvaluated, P!KeepsRetired
  <2> QED
    BY <2>1, <2>2, <2>3 DEF RegistrySound
<1> QED
  BY <1>1, <1>2, <1>3, <1>4 DEF P!Next

LEMMA RegistrySoundAlways == P!Spec => []RegistrySound
<1>1. P!Init => RegistrySound
  <2> SUFFICES ASSUME P!Init PROVE RegistrySound
    OBVIOUS
  <2>1. /\ versions = [v \in ModelVersions |-> P!NoVersion]
        /\ evidence = [v \in ModelVersions |-> None]
        /\ promotions = [c \in Callers |-> P!NoCall]
    BY DEF P!Init
  <2>2. P!NoVersion \in P!Version /\ P!NoVersion.state = "none"
    BY DEF P!NoVersion, P!Version
  <2>3. P!TypeOK /\ P!ActiveIsEvaluated
    BY <2>1, <2>2 DEF P!TypeOK, P!ActiveIsEvaluated, P!Evaluations
  <2> QED
    BY <2>1, <2>3, NoPromotion DEF RegistrySound
<1> QED
  BY <1>1, RegistryMoves, PTL DEF P!Spec

-----------------------------------------------------------------------------
(* Generation: what a delivery holds, beside the operation it is about.    *)
Guarded(q, proposal) == proposal \in G!Plan /\ G!guardCandidatePlan(PacketOf[q], proposal)

(* How many posts an attempt may make at most, and all up to the n-th.     *)
Allowance(a) == IF a <= MaxGenerations THEN MaxGenerations - a + 1 ELSE 0
Granted(n, a) == IF a <= n THEN Allowance(a) ELSE 0
Spent(n) == Granted(n, 1) + Granted(n, 2) + Granted(n, 3)

Executes(worker) == worker.step \in {"post", "accept", "reject"}

WorkerSound(worker) ==
  worker.step # "idle" =>
    /\ worker.request \in CandidateRequests
    /\ Executes(worker) => ops[worker.request].state = "claimed"
    /\ worker.step = "post" =>
         worker.attempt \in 1..MaxGenerations /\ worker.left >= 1
    /\ worker.step = "accept" => Guarded(worker.request, worker.plan)
    /\ worker.step = "start" => ops[worker.request].state = "accepted"

(* One delivery executes a request at a time, so what it may still post    *)
(* and what was posted is within what the attempts were granted.           *)
OneExecutes ==
  \A v, w \in Workers :
    /\ Executes(workers[v]) /\ Executes(workers[w])
    /\ workers[v].request = workers[w].request
    => v = w

Left(q, one, two, three) ==
  \A w \in Workers : workers[w].step = "post" /\ workers[w].request = q =>
    /\ workers[w].attempt = 1 => workers[w].left <= one
    /\ workers[w].attempt = 2 => workers[w].left <= two
    /\ workers[w].attempt = 3 => workers[w].left <= three

WithinGrant(q) ==
  \E one, two, three \in Nat :
    /\ Left(q, one, two, three)
    /\ posts[q] + one + two + three <= Spent(ops[q].attempt)

OpSound(q) ==
  /\ ops[q].state = "accepted" => Guarded(q, ops[q].plan)
  /\ q \in started => ops[q].state = "accepted"
  /\ q \in answered => ops[q].state = "rejected" \/ (ops[q].state = "accepted" /\ q \in started)

GenerationSound ==
  /\ G!TypeOK /\ posts \in [CandidateRequests -> Nat]
  /\ \A w \in Workers : WorkerSound(workers[w])
  /\ OneExecutes
  /\ \A q \in CandidateRequests : OpSound(q) /\ WithinGrant(q)

LEMMA QuickFixGuarded ==
  ASSUME G!GenerationAssumption, NEW q \in CandidateRequests,
         NEW proposal \in G!QuickFixes(PacketOf[q])
  PROVE  Guarded(q, proposal)
<1> DEFINE packet == PacketOf[q]
           fixes == {[parses |-> TRUE, evidence |-> "finding", package |-> "expected",
                      file |-> file, keeps |-> TRUE,
                      probes |-> packet.targets /\ packet.probes] : file \in packet.manifests}
<1>1. packet \in G!Packet
  BY DEF G!GenerationAssumption
<1>2. proposal \in fixes /\ G!guardCandidatePlan(packet, proposal)
  BY DEF G!QuickFixes
<1>3. PICK file \in packet.manifests :
        proposal = [parses |-> TRUE, evidence |-> "finding", package |-> "expected",
                file |-> file, keeps |-> TRUE, probes |-> packet.targets /\ packet.probes]
  BY <1>2
<1>4. packet.manifests \subseteq Files
  BY <1>1 DEF G!Packet
<1> DEFINE probes == packet.targets /\ packet.probes
<1>5. probes \in BOOLEAN
  OBVIOUS
<1> HIDE DEF probes
<1>6. proposal = [parses |-> TRUE, evidence |-> "finding", package |-> "expected",
              file |-> file, keeps |-> TRUE, probes |-> probes]
  BY <1>3 DEF probes
<1>7. proposal \in G!Plan
  BY <1>4, <1>5, <1>6 DEF G!Plan
<1> QED
  BY <1>2, <1>7 DEF Guarded

LEMMA GuardSays ==
  ASSUME NEW q, NEW proposal, Guarded(q, proposal)
  PROVE  /\ proposal.package = "expected" /\ proposal.evidence = "finding"
         /\ proposal.file \in PacketOf[q].manifests /\ proposal.file \notin PacketOf[q].lockfiles
         /\ PacketOf[q].permitted /\ (PacketOf[q].targets => proposal.probes)
BY DEF Guarded, G!guardCandidatePlan

(* What a step may do to the operations: none loses an outcome.            *)
OpKept(q) == ops[q].state \in {"accepted", "rejected"} => ops'[q] = ops[q]

LEMMA WorkerKept ==
  ASSUME GenerationSound, \A q \in CandidateRequests : OpKept(q), G!TypeOK',
         NEW worker \in G!Execution, WorkerSound(worker),
         Executes(worker) => ops'[worker.request] = ops[worker.request]
  PROVE  WorkerSound(worker)'
<1> SUFFICES ASSUME worker.step # "idle" PROVE WorkerSound(worker)'
  BY DEF WorkerSound
<1>1. PICK q \in CandidateRequests : q = worker.request
  BY DEF WorkerSound
<1>2. OpKept(q)
  BY <1>1
<1> QED
  BY <1>1, <1>2 DEF WorkerSound, Executes, OpKept, Guarded, G!guardCandidatePlan

(* A delivery that does not begin to post leaves the posts as they may be. *)
LEMMA WorkerMoves ==
  ASSUME GenerationSound, NEW w \in Workers, NEW worker \in G!Execution,
         workers' = [workers EXCEPT ![w] = worker],
         \A q \in CandidateRequests : OpKept(q) /\ OpSound(q)',
         G!TypeOK', UNCHANGED posts, WorkerSound(worker)', ~Executes(worker),
         \A q \in CandidateRequests : ops'[q].attempt = ops[q].attempt,
         \A v \in Workers \ {w} :
           Executes(workers[v]) => ops'[workers[v].request] = ops[workers[v].request]
  PROVE  GenerationSound'
<1>1. /\ workers'[w] = worker /\ \A v \in Workers \ {w} : workers'[v] = workers[v]
  BY DEF GenerationSound, G!TypeOK
<1>2. ASSUME NEW v \in Workers PROVE WorkerSound(workers[v])'
  <2>1. CASE v = w
    BY <1>1, <2>1 DEF WorkerSound
  <2>2. CASE v # w
    <3>1. PICK other \in G!Execution : other = workers[v]
      BY DEF GenerationSound, G!TypeOK
    <3>2. WorkerSound(other)'
      BY <2>2, <3>1, WorkerKept DEF GenerationSound
    <3> QED
      BY <1>1, <2>2, <3>1, <3>2 DEF WorkerSound, Executes
  <2> QED
    BY <2>1, <2>2
<1>3. OneExecutes'
  BY <1>1 DEF GenerationSound, OneExecutes, Executes
<1>4. ASSUME NEW q \in CandidateRequests PROVE WithinGrant(q)'
  <2>1. PICK one, two, three \in Nat :
          /\ Left(q, one, two, three)
          /\ posts[q] + one + two + three <= Spent(ops[q].attempt)
    BY DEF GenerationSound, WithinGrant
  <2>2. Left(q, one, two, three)'
    BY <1>1, <2>1 DEF Left, Executes
  <2>3. posts'[q] + one + two + three <= Spent(ops'[q].attempt)
    BY <2>1
  <2>4. Spent(ops'[q].attempt) = Spent(ops[q].attempt)'
    BY DEF Spent, Granted, Allowance
  <2> QED
    BY <2>2, <2>3, <2>4 DEF WithinGrant
<1> QED
  BY <1>2, <1>3, <1>4 DEF GenerationSound

LEMMA GenerationSteps ==
  ASSUME G!GenerationAssumption, GenerationSound, NEW w \in Workers,
         \/ G!Replay(w) \/ G!CompleteRejected(w) \/ G!CompleteAccepted(w)
         \/ G!StartValidation(w) \/ G!Lose(w)
  PROVE  GenerationSound'
<1>1. PICK worker \in G!Execution : worker = workers[w]
  BY DEF GenerationSound, G!TypeOK
<1>2. /\ WorkerSound(worker) /\ G!TypeOK
      /\ \A q \in CandidateRequests : OpSound(q) /\ ops[q] \in G!CandidateGenerationReservation
  BY <1>1 DEF GenerationSound, G!TypeOK
<1>3. /\ G!NoWorker \in G!Execution /\ WorkerSound(G!NoWorker)'
      /\ ~Executes(G!NoWorker)
  BY DEF G!NoWorker, G!Execution, WorkerSound, Executes, G!GenerationAssumption
<1>4. CASE G!Replay(w)
  <2>1. PICK q \in CandidateRequests \ answered :
          \/ /\ ops[q].state = "accepted"
             /\ workers' = [workers EXCEPT ![w] =
                              [G!NoWorker EXCEPT !.step = "start", !.request = q]]
             /\ UNCHANGED answered
          \/ /\ ops[q].state = "rejected"
             /\ answered' = answered \union {q}
             /\ UNCHANGED workers
    BY <1>4 DEF G!Replay
  <2>2. UNCHANGED <<ops, posts, started>>
    BY <1>4 DEF G!Replay
  <2>3. CASE ops[q].state = "accepted" /\ UNCHANGED answered
             /\ workers' = [workers EXCEPT ![w] =
                              [G!NoWorker EXCEPT !.step = "start", !.request = q]]
    <3> DEFINE next == [G!NoWorker EXCEPT !.step = "start", !.request = q]
    <3>1. next \in G!Execution /\ next.step = "start" /\ next.request = q
      BY <1>3 DEF G!NoWorker, G!Execution
    <3>2. WorkerSound(next)' /\ ~Executes(next)
      BY <2>2, <2>3, <3>1 DEF WorkerSound, Executes
    <3>3. G!TypeOK'
      BY <1>2, <2>2, <2>3, <3>1 DEF G!TypeOK
    <3>4. \A r \in CandidateRequests : OpKept(r) /\ OpSound(r)'
      BY <1>2, <2>2, <2>3
      DEF OpKept, OpSound, G!CandidateGenerationReservation, Guarded, G!guardCandidatePlan
    <3> QED
      BY <2>2, <2>3, <3>1, <3>2, <3>3, <3>4, WorkerMoves
  <2>4. CASE ops[q].state = "rejected" /\ answered' = answered \union {q} /\ UNCHANGED workers
    <3>1. G!TypeOK'
      BY <1>2, <2>2, <2>4 DEF G!TypeOK
    <3>2. \A r \in CandidateRequests : OpSound(r)'
      BY <1>2, <2>2, <2>4 DEF OpSound, Guarded, G!guardCandidatePlan
    <3>3. \A r \in CandidateRequests : WithinGrant(r)'
      BY <2>2, <2>4 DEF GenerationSound, WithinGrant, Left, Spent, Granted, Allowance
    <3>4. ASSUME NEW v \in Workers PROVE WorkerSound(workers[v])'
      BY <2>2, <2>4 DEF GenerationSound, WorkerSound, Executes, Guarded, G!guardCandidatePlan
    <3>5. OneExecutes' /\ posts' \in [CandidateRequests -> Nat]
      BY <2>2, <2>4 DEF GenerationSound, OneExecutes, Executes
    <3> QED
      BY <2>2, <3>1, <3>2, <3>3, <3>4, <3>5 DEF GenerationSound
  <2> QED
    BY <2>1, <2>3, <2>4
<1>5. CASE G!CompleteRejected(w)
  <2>1. PICK q \in CandidateRequests : q = worker.request
    BY <1>1, <1>2, <1>5 DEF G!CompleteRejected, WorkerSound
  <2> DEFINE op == [ops[q] EXCEPT !.state = "rejected"]
  <2>2. /\ ops[q].state = "claimed" /\ ops' = [ops EXCEPT ![q] = op]
        /\ answered' = answered \union {q}
        /\ workers' = [workers EXCEPT ![w] = G!NoWorker]
        /\ UNCHANGED <<posts, started>>
    BY <1>1, <1>2, <1>5, <2>1 DEF G!CompleteRejected, G!TypeOK, WorkerSound, Executes
  <2>3. /\ op \in G!CandidateGenerationReservation /\ op.state = "rejected"
        /\ op.attempt = ops[q].attempt
    BY <1>2 DEF G!CandidateGenerationReservation
  <2>4. ops'[q] = op /\ \A r \in CandidateRequests \ {q} : ops'[r] = ops[r]
    BY <1>2, <2>2 DEF G!TypeOK
  <2>5. G!TypeOK'
    BY <1>2, <1>3, <2>2, <2>3 DEF G!TypeOK
  <2> HIDE DEF op
  <2>6. ASSUME NEW r \in CandidateRequests
        PROVE  OpKept(r) /\ OpSound(r)' /\ ops'[r].attempt = ops[r].attempt
    <3>1. OpSound(r) /\ ops[r] \in G!CandidateGenerationReservation
      BY <1>2
    <3>2. CASE r = q
      BY <2>2, <2>3, <2>4, <3>1, <3>2
      DEF OpKept, OpSound, G!CandidateGenerationReservation
    <3>3. CASE r # q
      BY <2>2, <2>4, <3>1, <3>3
      DEF OpKept, OpSound, G!CandidateGenerationReservation, Guarded, G!guardCandidatePlan
    <3> QED
      BY <3>2, <3>3
  <2>7. ASSUME NEW v \in Workers \ {w}, Executes(workers[v])
        PROVE  ops'[workers[v].request] = ops[workers[v].request]
    <3>1. workers[v].request \in CandidateRequests /\ workers[v].request # q
      BY <1>1, <1>5, <2>1, <2>7
      DEF GenerationSound, OneExecutes, WorkerSound, Executes, G!CompleteRejected
    <3> QED
      BY <2>4, <3>1
  <2> QED
    BY <1>3, <2>2, <2>5, <2>6, <2>7, WorkerMoves
<1>6. CASE G!CompleteAccepted(w)
  <2>1. PICK q \in CandidateRequests : q = worker.request
    BY <1>1, <1>2, <1>6 DEF G!CompleteAccepted, WorkerSound
  <2> DEFINE op == [ops[q] EXCEPT !.state = "accepted", !.plan = worker.plan]
             next == [worker EXCEPT !.step = "start"]
  <2>2. /\ ops[q].state = "claimed" /\ ops' = [ops EXCEPT ![q] = op]
        /\ workers' = [workers EXCEPT ![w] = next]
        /\ UNCHANGED <<posts, started, answered>> /\ Guarded(q, worker.plan)
    BY <1>1, <1>2, <1>6, <2>1 DEF G!CompleteAccepted, G!TypeOK, WorkerSound, Executes
  <2>3. /\ op \in G!CandidateGenerationReservation /\ op.state = "accepted"
        /\ op.attempt = ops[q].attempt /\ op.plan = worker.plan
    BY <1>2 DEF G!CandidateGenerationReservation, G!Execution
  <2>4. ops'[q] = op /\ \A r \in CandidateRequests \ {q} : ops'[r] = ops[r]
    BY <1>2, <2>2 DEF G!TypeOK
  <2>5. next \in G!Execution /\ next.step = "start" /\ next.request = q
    BY <2>1 DEF G!Execution
  <2>6. G!TypeOK'
    BY <1>2, <2>2, <2>3, <2>5 DEF G!TypeOK
  <2> HIDE DEF op, next
  <2>7. WorkerSound(next)'
    BY <2>3, <2>4, <2>5 DEF WorkerSound, Executes
  <2>8. ASSUME NEW r \in CandidateRequests
        PROVE  OpKept(r) /\ OpSound(r)' /\ ops'[r].attempt = ops[r].attempt
    <3>1. OpSound(r) /\ ops[r] \in G!CandidateGenerationReservation
      BY <1>2
    <3>2. CASE r = q
      BY <2>2, <2>3, <2>4, <3>1, <3>2
      DEF OpKept, OpSound, G!CandidateGenerationReservation, Guarded, G!guardCandidatePlan
    <3>3. CASE r # q
      BY <2>2, <2>4, <3>1, <3>3
      DEF OpKept, OpSound, G!CandidateGenerationReservation, Guarded, G!guardCandidatePlan
    <3> QED
      BY <3>2, <3>3
  <2>9. ASSUME NEW v \in Workers \ {w}, Executes(workers[v])
        PROVE  ops'[workers[v].request] = ops[workers[v].request]
    <3>1. workers[v].request \in CandidateRequests /\ workers[v].request # q
      BY <1>1, <1>6, <2>1, <2>9
      DEF GenerationSound, OneExecutes, WorkerSound, Executes, G!CompleteAccepted
    <3> QED
      BY <2>4, <3>1
  <2>10. ~Executes(next)
    BY <2>5 DEF Executes
  <2> QED
    BY <2>2, <2>5, <2>6, <2>7, <2>8, <2>9, <2>10, WorkerMoves
<1>7. CASE G!StartValidation(w)
  <2>1. PICK q \in CandidateRequests : q = worker.request
    BY <1>1, <1>2, <1>7 DEF G!StartValidation, WorkerSound
  <2>2. /\ started' = started \union {q} /\ answered' = answered \union {q}
        /\ workers' = [workers EXCEPT ![w] = G!NoWorker]
        /\ UNCHANGED <<ops, posts>> /\ ops[q].state = "accepted"
    BY <1>1, <1>2, <1>7, <2>1 DEF G!StartValidation, WorkerSound
  <2>3. G!TypeOK'
    BY <1>2, <1>3, <2>2 DEF G!TypeOK
  <2>4. \A r \in CandidateRequests : OpKept(r) /\ OpSound(r)'
    BY <1>2, <2>2
    DEF OpKept, OpSound, G!CandidateGenerationReservation, Guarded, G!guardCandidatePlan
  <2> QED
    BY <1>3, <2>2, <2>3, <2>4, WorkerMoves
<1>8. CASE G!Lose(w)
  <2>1. /\ workers' = [workers EXCEPT ![w] = G!NoWorker]
        /\ UNCHANGED <<ops, posts, started, answered>>
    BY <1>8 DEF G!Lose
  <2>2. G!TypeOK'
    BY <1>2, <1>3, <2>1 DEF G!TypeOK
  <2>3. \A r \in CandidateRequests : OpKept(r) /\ OpSound(r)'
    BY <1>2, <2>1
    DEF OpKept, OpSound, G!CandidateGenerationReservation, Guarded, G!guardCandidatePlan
  <2> QED
    BY <1>3, <2>1, <2>2, <2>3, WorkerMoves
<1> QED
  BY <1>4, <1>5, <1>6, <1>7, <1>8

LEMMA ReserveSound ==
  ASSUME G!GenerationAssumption, GenerationSound, NEW w \in Workers, G!Reserve(w)
  PROVE  GenerationSound'
<1>1. PICK q \in CandidateRequests \ answered :
        /\ ops[q].state \in {"free", "claimed"} /\ ops[q].attempt <= MaxGenerations
        /\ \A v \in Workers : workers[v].step # "idle" => workers[v].request # q
        /\ ops' = [ops EXCEPT ![q].state = "claimed", ![q].attempt = @ + 1]
        /\ workers' = [workers EXCEPT ![w] = G!Executing(q, ops[q].attempt + 1)]
  BY DEF G!Reserve, G!InProgress
<1>2. /\ UNCHANGED <<posts, started, answered>> /\ G!TypeOK /\ workers[w].step = "idle"
      /\ MaxGenerations \in 1..3 /\ MaxTransportAttempts \in 1..3
  BY DEF G!Reserve, GenerationSound, G!GenerationAssumption
<1>3. PICK row \in G!CandidateGenerationReservation : row = ops[q]
  BY <1>2 DEF G!TypeOK
<1> DEFINE a == row.attempt + 1
           op == [row EXCEPT !.state = "claimed", !.attempt = a]
           next == G!Executing(q, a)
<1>4. row.attempt \in 0..MaxGenerations /\ a \in 1..MaxGenerations + 1
  BY <1>1, <1>2, <1>3 DEF G!CandidateGenerationReservation
<1>5. /\ op \in G!CandidateGenerationReservation /\ op.state = "claimed" /\ op.attempt = a
      /\ op.plan = row.plan
  <2>1. a \in 0..MaxGenerations + 1
    BY <1>2, <1>4
  <2> DEFINE range == 0..MaxGenerations + 1
             proposals == {None} \union G!Plan
  <2>2. G!CandidateGenerationReservation =
          [state : {"free", "claimed", "accepted", "rejected"}, attempt : range,
           plan : proposals]
    BY DEF G!CandidateGenerationReservation
  <2> HIDE DEF a, range, proposals
  <2> QED
    BY <2>1, <2>2 DEF range
<1>6. ops' = [ops EXCEPT ![q] = op] /\ workers' = [workers EXCEPT ![w] = next]
  BY <1>1, <1>2, <1>3 DEF G!TypeOK
<1>7. G!Attempts(a) \in 0..MaxTransportAttempts /\ G!Attempts(a) <= Allowance(a)
      /\ (a <= MaxGenerations => G!Attempts(a) >= 1)
  <2> HIDE DEF a
  <2> QED
    BY <1>2, <1>4 DEF G!Attempts, Allowance
<1>8. /\ next.request = q /\ next.attempt = a /\ next.left = G!Attempts(a)
      /\ next.step = IF a > MaxGenerations THEN "reject" ELSE "post"
      /\ next \in G!Execution
  BY <1>2, <1>4, <1>7 DEF G!Executing, G!Execution
<1> HIDE DEF op, next
<1>9. /\ ops'[q] = op /\ \A r \in CandidateRequests \ {q} : ops'[r] = ops[r]
      /\ workers'[w] = next /\ \A v \in Workers \ {w} : workers'[v] = workers[v]
      /\ G!TypeOK'
  BY <1>2, <1>5, <1>6, <1>8 DEF G!TypeOK
<1>10. ASSUME NEW r \in CandidateRequests PROVE OpKept(r) /\ OpSound(r)'
  <2>1. CASE r = q
    BY <1>1, <1>2, <1>3, <1>4, <1>5, <1>9, <2>1 DEF OpKept, OpSound, GenerationSound
  <2>2. CASE r # q
    <3>1. OpSound(r) /\ ops[r].attempt \in Nat
      BY <1>2 DEF GenerationSound, G!TypeOK, G!CandidateGenerationReservation
    <3> QED
      BY <1>2, <1>9, <2>2, <3>1 DEF OpKept, OpSound, Guarded, G!guardCandidatePlan
  <2> QED
    BY <2>1, <2>2
<1>11. ASSUME NEW v \in Workers PROVE WorkerSound(workers[v])'
  <2>1. CASE v = w
    <3>1. ops'[q].attempt = a /\ a \in Nat
      BY <1>4, <1>5, <1>9
    <3>2. next.step = "post" => a \in 1..MaxGenerations /\ next.left >= 1
      BY <1>2, <1>4, <1>7, <1>8
    <3>3. next.step \in {"reject", "post"}
      BY <1>8
    <3> HIDE DEF a
    <3>4. WorkerSound(next)'
      BY <1>5, <1>8, <1>9, <3>1, <3>2, <3>3 DEF WorkerSound, Executes
    <3> QED
      BY <1>9, <2>1, <3>4 DEF WorkerSound
  <2>2. CASE v # w
    <3>1. PICK other \in G!Execution : other = workers[v]
      BY <1>2 DEF G!TypeOK
    <3>2. Executes(other) => ops'[other.request] = ops[other.request]
      BY <1>1, <1>9, <3>1 DEF GenerationSound, WorkerSound, Executes
    <3>3. WorkerSound(other)'
      BY <1>9, <1>10, <3>1, <3>2, WorkerKept DEF GenerationSound
    <3> QED
      BY <1>9, <2>2, <3>1, <3>3 DEF WorkerSound, Executes
  <2> QED
    BY <2>1, <2>2
<1>12. \A v \in Workers : Executes(workers[v]) => workers[v].request # q
  BY <1>1 DEF Executes
<1>13. OneExecutes'
  <2>1. ASSUME NEW u \in Workers, NEW v \in Workers,
               Executes(workers'[u]), Executes(workers'[v]),
               workers'[u].request = workers'[v].request
        PROVE  u = v
    <3>1. CASE u = w /\ v # w
      BY <1>8, <1>9, <1>12, <2>1, <3>1
    <3>2. CASE v = w /\ u # w
      BY <1>8, <1>9, <1>12, <2>1, <3>2
    <3>3. CASE u # w /\ v # w
      BY <1>9, <2>1, <3>3 DEF GenerationSound, OneExecutes
    <3> QED
      BY <3>1, <3>2, <3>3
  <2> QED
    BY <2>1 DEF OneExecutes, Executes
<1>14. ASSUME NEW r \in CandidateRequests PROVE WithinGrant(r)'
  <2>1. PICK one, two, three \in Nat :
          /\ Left(r, one, two, three)
          /\ posts[r] + one + two + three <= Spent(ops[r].attempt)
    BY DEF GenerationSound, WithinGrant
  <2>2. CASE r # q
    <3>1. Left(r, one, two, three)'
      BY <1>8, <1>9, <2>1, <2>2 DEF Left
    <3>2. posts'[r] + one + two + three <= Spent(ops'[r].attempt)
      BY <1>2, <1>9, <2>1, <2>2
    <3>3. Spent(ops'[r].attempt) = Spent(ops[r].attempt)'
      BY DEF Spent, Granted, Allowance
    <3> QED
      BY <3>1, <3>2, <3>3 DEF WithinGrant
  <2>3. CASE r = q
    <3> DEFINE mine == G!Attempts(a)
               first == IF a = 1 THEN mine ELSE one
               second == IF a = 2 THEN mine ELSE two
               third == IF a = 3 THEN mine ELSE three
    <3>1. mine \in Nat /\ mine <= Allowance(a) /\ posts[q] \in Nat
      BY <1>2, <1>7 DEF GenerationSound
    <3>2. posts[q] + one + two + three <= Spent(row.attempt)
      BY <1>3, <2>1, <2>3
    <3>3. posts[q] + first + second + third <= Spent(a)
      <4> HIDE DEF mine
      <4>1. row.attempt \in {0, 1, 2, 3} /\ MaxGenerations \in {1, 2, 3}
        BY <1>2, <1>4
      <4>2. CASE row.attempt = 0
        BY <1>4, <2>1, <3>1, <3>2, <4>1, <4>2 DEF Spent, Granted, Allowance
      <4>3. CASE row.attempt = 1
        BY <1>4, <2>1, <3>1, <3>2, <4>1, <4>3 DEF Spent, Granted, Allowance
      <4>4. CASE row.attempt = 2
        BY <1>4, <2>1, <3>1, <3>2, <4>1, <4>4 DEF Spent, Granted, Allowance
      <4>5. CASE row.attempt = 3
        BY <1>4, <2>1, <3>1, <3>2, <4>1, <4>5 DEF Spent, Granted, Allowance
      <4> QED
        BY <4>1, <4>2, <4>3, <4>4, <4>5
    <3>4. first \in Nat /\ second \in Nat /\ third \in Nat
      BY <2>1, <3>1
    <3>5. \A v \in Workers : workers'[v].step = "post" /\ workers'[v].request = q =>
            /\ workers'[v].attempt = 1 => workers'[v].left <= first
            /\ workers'[v].attempt = 2 => workers'[v].left <= second
            /\ workers'[v].attempt = 3 => workers'[v].left <= third
      <4> SUFFICES ASSUME NEW v \in Workers, workers'[v].step = "post", workers'[v].request = q
                   PROVE  /\ workers'[v].attempt = 1 => workers'[v].left <= first
                          /\ workers'[v].attempt = 2 => workers'[v].left <= second
                          /\ workers'[v].attempt = 3 => workers'[v].left <= third
        OBVIOUS
      <4>1. CASE v = w
        <5>1. workers'[v].attempt = a /\ workers'[v].left = mine
          BY <1>8, <1>9, <4>1
        <5> HIDE DEF mine
        <5> QED
          BY <3>1, <5>1
      <4>2. CASE v # w
        <5> QED
          BY <1>9, <1>12, <4>2 DEF Executes
      <4> QED
        BY <4>1, <4>2
    <3>6. Left(q, first, second, third)'
      <4> HIDE DEF mine
      <4> QED
        BY <3>5 DEF Left
    <3> HIDE DEF first, second, third
    <3>7. posts'[q] + first + second + third <= Spent(ops'[q].attempt)
      BY <1>2, <1>5, <1>9, <3>3
    <3>8. Spent(ops'[q].attempt) = Spent(ops[q].attempt)'
      BY DEF Spent, Granted, Allowance
    <3>9. \E x, y, z \in Nat : Left(q, x, y, z)' /\ posts'[q] + x + y + z <= Spent(ops[q].attempt)'
      BY <3>4, <3>6, <3>7, <3>8
    <3> QED
      BY <2>3, <3>9 DEF WithinGrant, Left, Spent, Granted, Allowance
  <2> QED
    BY <2>2, <2>3
<1> QED
  BY <1>2, <1>9, <1>10, <1>11, <1>13, <1>14 DEF GenerationSound

(* One post of an attempt: it may go on with one post less, or it is over. *)
LEMMA PostMoves ==
  ASSUME G!GenerationAssumption, GenerationSound, NEW w \in Workers,
         NEW worker \in G!Execution, worker = workers[w], worker.step = "post",
         posts' = [posts EXCEPT ![worker.request] = @ + 1],
         UNCHANGED <<ops, started, answered>>,
         NEW next \in G!Execution, workers' = [workers EXCEPT ![w] = next],
         next.request = worker.request, next.attempt = worker.attempt,
         next.step \in {"post", "accept", "reject"},
         next.step = "post" => next.left >= 1 /\ next.left <= worker.left - 1,
         next.step = "accept" => Guarded(next.request, next.plan)
  PROVE  GenerationSound'
<1>1. PICK q \in CandidateRequests : q = worker.request
  BY DEF GenerationSound, WorkerSound
<1>2. /\ WorkerSound(worker) /\ G!TypeOK /\ posts \in [CandidateRequests -> Nat]
      /\ MaxGenerations \in 1..3 /\ MaxTransportAttempts \in 1..3
  BY DEF GenerationSound, G!GenerationAssumption
<1>3. PICK a \in 1..MaxGenerations : a = worker.attempt
  BY <1>2 DEF WorkerSound
<1>4. PICK n \in Nat : n = worker.left /\ n >= 1
  BY <1>2 DEF WorkerSound, G!Execution
<1>5. /\ posts' = [posts EXCEPT ![q] = posts[q] + 1] /\ posts[q] \in Nat
      /\ posts'[q] = posts[q] + 1 /\ posts' \in [CandidateRequests -> Nat]
      /\ \A r \in CandidateRequests \ {q} : posts'[r] = posts[r]
  BY <1>1, <1>2
<1>6. workers'[w] = next /\ \A v \in Workers \ {w} : workers'[v] = workers[v]
  BY <1>2 DEF G!TypeOK
<1>7. G!TypeOK'
  BY <1>2 DEF G!TypeOK
<1>8. ASSUME NEW r \in CandidateRequests PROVE OpKept(r) /\ OpSound(r)'
  <2>1. OpSound(r) /\ ops[r].attempt \in Nat
    BY <1>2 DEF GenerationSound, G!TypeOK, G!CandidateGenerationReservation
  <2> QED
    BY <2>1 DEF OpKept, OpSound, Guarded, G!guardCandidatePlan
<1>9. ASSUME NEW v \in Workers PROVE WorkerSound(workers[v])'
  <2>1. CASE v = w
    <3>1. WorkerSound(next)'
      BY <1>1, <1>2, <1>3, <1>6 DEF WorkerSound, Executes, Guarded, G!guardCandidatePlan
    <3> QED
      BY <1>6, <2>1, <3>1 DEF WorkerSound, Executes
  <2>2. CASE v # w
    <3>1. PICK other \in G!Execution : other = workers[v]
      BY <1>2 DEF G!TypeOK
    <3>2. WorkerSound(other)'
      BY <1>7, <1>8, <3>1, WorkerKept DEF GenerationSound
    <3> QED
      BY <1>6, <2>2, <3>1, <3>2 DEF WorkerSound, Executes
  <2> QED
    BY <2>1, <2>2
<1>10. OneExecutes'
  BY <1>6 DEF GenerationSound, OneExecutes, Executes
<1>11. ASSUME NEW v \in Workers, v # w, workers[v].step = "post", workers[v].request = q
       PROVE  workers[v].attempt # a
  BY <1>1, <1>11 DEF GenerationSound, OneExecutes, Executes
<1>12. ASSUME NEW r \in CandidateRequests PROVE WithinGrant(r)'
  <2>1. PICK one, two, three \in Nat :
          /\ Left(r, one, two, three)
          /\ posts[r] + one + two + three <= Spent(ops[r].attempt)
    BY DEF GenerationSound, WithinGrant
  <2>2. CASE r # q
    <3>1. Left(r, one, two, three)'
      BY <1>1, <1>6, <2>1, <2>2 DEF Left
    <3>2. posts'[r] + one + two + three <= Spent(ops[r].attempt)
      BY <1>5, <2>1, <2>2
    <3>3. Spent(ops[r].attempt) = Spent(ops[r].attempt)'
      BY DEF Spent, Granted, Allowance
    <3> QED
      BY <3>1, <3>2, <3>3 DEF WithinGrant
  <2>3. CASE r = q
    <3> DEFINE first == IF a = 1 THEN one - 1 ELSE one
               second == IF a = 2 THEN two - 1 ELSE two
               third == IF a = 3 THEN three - 1 ELSE three
    <3>1. /\ a = 1 => n <= one
          /\ a = 2 => n <= two
          /\ a = 3 => n <= three
      BY <1>1, <1>3, <1>4, <2>1, <2>3 DEF Left
    <3>2. a \in {1, 2, 3}
      BY <1>2
    <3>3. first \in Nat /\ second \in Nat /\ third \in Nat
      BY <1>4, <2>1, <3>1
    <3>4. posts[q] + 1 + first + second + third = posts[q] + one + two + three
      BY <1>5, <2>1, <3>2
    <3>5. \A v \in Workers : workers'[v].step = "post" /\ workers'[v].request = q =>
            /\ workers'[v].attempt = 1 => workers'[v].left <= first
            /\ workers'[v].attempt = 2 => workers'[v].left <= second
            /\ workers'[v].attempt = 3 => workers'[v].left <= third
      <4> SUFFICES ASSUME NEW v \in Workers, workers'[v].step = "post", workers'[v].request = q
                   PROVE  /\ workers'[v].attempt = 1 => workers'[v].left <= first
                          /\ workers'[v].attempt = 2 => workers'[v].left <= second
                          /\ workers'[v].attempt = 3 => workers'[v].left <= third
        OBVIOUS
      <4>1. CASE v = w
        <5>1. workers'[v].attempt = a /\ workers'[v].left <= n - 1 /\ workers'[v].left \in Nat
          BY <1>3, <1>4, <1>6, <4>1 DEF G!Execution
        <5> QED
          BY <1>4, <2>1, <3>1, <5>1
      <4>2. CASE v # w
        <5>1. workers'[v] = workers[v] /\ workers[v].attempt # a
          BY <1>6, <1>11, <4>2
        <5> QED
          BY <2>1, <2>3, <5>1 DEF Left
      <4> QED
        BY <4>1, <4>2
    <3>6. Left(q, first, second, third)'
      BY <3>5 DEF Left
    <3> HIDE DEF first, second, third
    <3>7. posts'[q] + first + second + third <= Spent(ops[q].attempt)
      BY <1>5, <2>1, <2>3, <3>4
    <3>8. Spent(ops[q].attempt) = Spent(ops[q].attempt)'
      BY DEF Spent, Granted, Allowance
    <3>9. \E x, y, z \in Nat : Left(q, x, y, z)' /\ posts'[q] + x + y + z <= Spent(ops[q].attempt)'
      BY <3>3, <3>6, <3>7, <3>8
    <3> QED
      BY <2>3, <3>9 DEF WithinGrant, Left, Spent, Granted, Allowance
  <2> QED
    BY <2>2, <2>3
<1> QED
  BY <1>5, <1>7, <1>8, <1>9, <1>10, <1>12 DEF GenerationSound

LEMMA PostSound ==
  ASSUME G!GenerationAssumption, GenerationSound, NEW w \in Workers, G!Post(w)
  PROVE  GenerationSound'
<1>1. PICK worker \in G!Execution : worker = workers[w]
  BY DEF GenerationSound, G!TypeOK
<1>2. PICK q \in CandidateRequests : q = worker.request
  BY <1>1 DEF G!Post, GenerationSound, WorkerSound
<1>3. /\ worker.step = "post" /\ posts' = [posts EXCEPT ![worker.request] = @ + 1]
      /\ UNCHANGED <<ops, started, answered>>
      /\ workers \in [Workers -> G!Execution]
  BY <1>1 DEF G!Post, GenerationSound, G!TypeOK
<1>4. \/ \E proposal \in Plans :
           workers' = IF G!guardCandidatePlan(PacketOf[q], proposal)
                      THEN G!Accepting(w, proposal) ELSE G!Rejecting(w)
      \/ worker.left > 1 /\ workers' = [workers EXCEPT ![w].left = @ - 1]
      \/ \E failure \in G!Failures : G!GivenUp(w, failure)
  BY <1>1, <1>2 DEF G!Post
<1> DEFINE rejected == [worker EXCEPT !.step = "reject"]
<1>5. ASSUME workers' = G!Rejecting(w) PROVE GenerationSound'
  <2>1. workers' = [workers EXCEPT ![w] = rejected]
    BY <1>1, <1>3, <1>5 DEF G!Rejecting
  <2>2. /\ rejected \in G!Execution /\ rejected.step = "reject"
        /\ rejected.request = worker.request /\ rejected.attempt = worker.attempt
    BY DEF G!Execution
  <2> HIDE DEF rejected
  <2> QED
    BY <1>1, <1>3, <2>1, <2>2, PostMoves
<1>6. ASSUME NEW proposal, Guarded(q, proposal), workers' = G!Accepting(w, proposal)
      PROVE  GenerationSound'
  <2> DEFINE next == [worker EXCEPT !.step = "accept", !.plan = proposal]
  <2>1. workers' = [workers EXCEPT ![w] = next]
    BY <1>1, <1>3, <1>6 DEF G!Accepting
  <2>2. /\ next \in G!Execution /\ next.step = "accept" /\ next.plan = proposal
        /\ next.request = worker.request /\ next.attempt = worker.attempt
    BY <1>6 DEF G!Execution, Guarded
  <2> HIDE DEF next
  <2> QED
    BY <1>1, <1>2, <1>3, <1>6, <2>1, <2>2, PostMoves
<1>7. CASE \E proposal \in Plans :
             workers' = IF G!guardCandidatePlan(PacketOf[q], proposal)
                        THEN G!Accepting(w, proposal) ELSE G!Rejecting(w)
  <2>1. PICK proposal \in Plans :
          workers' = IF G!guardCandidatePlan(PacketOf[q], proposal)
                     THEN G!Accepting(w, proposal) ELSE G!Rejecting(w)
    BY <1>7
  <2>2. proposal \in G!Plan
    BY DEF G!GenerationAssumption
  <2>3. CASE G!guardCandidatePlan(PacketOf[q], proposal)
    BY <1>6, <2>1, <2>2, <2>3 DEF Guarded
  <2>4. CASE ~G!guardCandidatePlan(PacketOf[q], proposal)
    BY <1>5, <2>1, <2>4
  <2> QED
    BY <2>3, <2>4
<1>8. CASE worker.left > 1 /\ workers' = [workers EXCEPT ![w].left = @ - 1]
  <2> DEFINE next == [worker EXCEPT !.left = worker.left - 1]
  <2>1. workers' = [workers EXCEPT ![w] = next]
    BY <1>1, <1>3, <1>8
  <2>2. worker.left \in 0..MaxTransportAttempts /\ worker.left - 1 \in 0..MaxTransportAttempts
        /\ worker.left - 1 >= 1
    BY <1>8 DEF G!Execution, G!GenerationAssumption
  <2>3. /\ next \in G!Execution /\ next.step = "post" /\ next.left = worker.left - 1
        /\ next.request = worker.request /\ next.attempt = worker.attempt
    BY <1>3, <2>2 DEF G!Execution
  <2> HIDE DEF next
  <2>4. /\ next.left >= 1 /\ next.left <= worker.left - 1
        /\ next.step \in {"post", "accept", "reject"} /\ next.step # "accept"
    BY <2>2, <2>3
  <2> QED
    BY <1>1, <1>3, <2>1, <2>3, <2>4, PostMoves
<1>9. CASE \E failure \in G!Failures : G!GivenUp(w, failure)
  <2>1. \/ \E proposal \in G!QuickFixes(PacketOf[q]) : workers' = G!Accepting(w, proposal)
        \/ workers' = G!Rejecting(w)
    BY <1>1, <1>2, <1>9 DEF G!GivenUp
  <2> QED
    BY <1>5, <1>6, <2>1, QuickFixGuarded
<1> QED
  BY <1>4, <1>7, <1>8, <1>9

LEMMA GenerationMoves ==
  ASSUME G!GenerationAssumption
  PROVE  GenerationSound /\ [G!Next]_G!vars => GenerationSound'
<1> SUFFICES ASSUME GenerationSound, [G!Next]_G!vars
             PROVE  GenerationSound'
  OBVIOUS
<1>1. ASSUME NEW w \in Workers,
             \/ G!Reserve(w) \/ G!Replay(w) \/ G!Post(w) \/ G!CompleteRejected(w)
             \/ G!CompleteAccepted(w) \/ G!StartValidation(w) \/ G!Lose(w)
      PROVE  GenerationSound'
  BY <1>1, ReserveSound, PostSound, GenerationSteps
<1>2. CASE UNCHANGED G!vars
  <2>1. UNCHANGED <<ops, posts, started, answered>> /\ UNCHANGED workers
    BY <1>2 DEF G!vars
  <2>2. G!TypeOK' /\ OneExecutes' /\ posts' \in [CandidateRequests -> Nat]
    BY <2>1 DEF GenerationSound, G!TypeOK, OneExecutes
  <2>3. \A q \in CandidateRequests : OpSound(q)' /\ WithinGrant(q)'
    BY <2>1 DEF GenerationSound, OpSound, WithinGrant, Left, Spent, Granted, Allowance,
                Guarded, G!guardCandidatePlan
  <2>4. ASSUME NEW w \in Workers PROVE WorkerSound(workers[w])'
    BY <2>1 DEF GenerationSound, WorkerSound, Executes, Guarded, G!guardCandidatePlan
  <2> QED
    BY <2>1, <2>2, <2>3, <2>4 DEF GenerationSound
<1> QED
  BY <1>1, <1>2 DEF G!Next

LEMMA GenerationSoundAlways ==
  ASSUME G!GenerationAssumption
  PROVE  G!Spec => []GenerationSound
<1>1. G!Init => GenerationSound
  <2> SUFFICES ASSUME G!Init PROVE GenerationSound
    OBVIOUS
  <2>1. /\ ops = [q \in CandidateRequests |-> G!NoOp]
        /\ workers = [w \in Workers |-> G!NoWorker]
        /\ posts = [q \in CandidateRequests |-> 0] /\ started = {} /\ answered = {}
    BY DEF G!Init
  <2>2. /\ G!NoOp \in G!CandidateGenerationReservation /\ G!NoOp.state = "free"
        /\ G!NoOp.attempt = 0
    BY DEF G!NoOp, G!CandidateGenerationReservation, G!GenerationAssumption
  <2>3. G!NoWorker \in G!Execution /\ G!NoWorker.step = "idle"
    BY DEF G!NoWorker, G!Execution, G!GenerationAssumption
  <2>4. G!TypeOK /\ OneExecutes /\ posts \in [CandidateRequests -> Nat]
    BY <2>1, <2>2, <2>3 DEF G!TypeOK, OneExecutes, Executes
  <2>5. \A w \in Workers : WorkerSound(workers[w])
    BY <2>1, <2>3 DEF WorkerSound
  <2>6. ASSUME NEW q \in CandidateRequests PROVE OpSound(q) /\ WithinGrant(q)
    <3>1. Left(q, 0, 0, 0)
      BY <2>1, <2>3 DEF Left
    <3>2. posts[q] + 0 + 0 + 0 <= Spent(ops[q].attempt)
      BY <2>1, <2>2 DEF Spent, Granted
    <3> QED
      BY <2>1, <2>2, <3>1, <3>2 DEF OpSound, WithinGrant
  <2> QED
    BY <2>4, <2>5, <2>6 DEF GenerationSound
<1> QED
  BY <1>1, GenerationMoves, PTL DEF G!Spec

LEMMA GenerationGuarded ==
  ASSUME G!GenerationAssumption
  PROVE  GenerationSound =>
           G!ValidatedIsGuarded /\ G!AnsweredIsSettled /\ G!PostsBounded
<1> SUFFICES ASSUME GenerationSound
             PROVE  G!ValidatedIsGuarded /\ G!AnsweredIsSettled /\ G!PostsBounded
  OBVIOUS
<1>1. started \subseteq CandidateRequests /\ answered \subseteq CandidateRequests
  BY DEF GenerationSound, G!TypeOK
<1>2. G!ValidatedIsGuarded
  BY <1>1, GuardSays DEF GenerationSound, OpSound, G!ValidatedIsGuarded
<1>3. G!AnsweredIsSettled
  BY <1>1 DEF GenerationSound, OpSound, G!AnsweredIsSettled
<1>4. ASSUME NEW q \in CandidateRequests
      PROVE  2 * posts[q] <= MaxGenerations * (MaxGenerations + 1)
  <2>1. PICK one, two, three \in Nat :
          posts[q] + one + two + three <= Spent(ops[q].attempt)
    BY DEF GenerationSound, WithinGrant
  <2>2. posts[q] \in Nat /\ ops[q].attempt \in 0..MaxGenerations + 1
    BY DEF GenerationSound, G!TypeOK, G!CandidateGenerationReservation
  <2>3. MaxGenerations \in {1, 2, 3}
    BY DEF G!GenerationAssumption
  <2>4. posts[q] <= Spent(ops[q].attempt) /\ Spent(ops[q].attempt) \in 0..6
    BY <2>1, <2>2, <2>3 DEF Spent, Granted, Allowance
  <2>5. 2 * Spent(ops[q].attempt) <= MaxGenerations * (MaxGenerations + 1)
    BY <2>2, <2>3 DEF Spent, Granted, Allowance
  <2> QED
    BY <2>2, <2>3, <2>4, <2>5
<1> QED
  BY <1>2, <1>3, <1>4 DEF G!PostsBounded

-----------------------------------------------------------------------------
(* Verification: what a result rests on.                                   *)
Precedes(d, e) == d.source <= e.source /\ d.patch <= e.patch /\ d.policy <= e.policy

LEMMA PrecedesOrder ==
  /\ \A d \in V!Digests : Precedes(d, d)
  /\ \A d, e, f \in V!Digests : Precedes(d, e) /\ Precedes(e, f) => Precedes(d, f)
  /\ \A d, e \in V!Digests : Precedes(d, e) /\ Precedes(e, d) => d = e
<1>1. \A d \in V!Digests : /\ d.source \in Int /\ d.patch \in Int /\ d.policy \in Int
                          /\ d = [source |-> d.source, patch |-> d.patch, policy |-> d.policy]
  BY DEF V!Digests, V!Versions
<1>2. ASSUME NEW d \in V!Digests, NEW e \in V!Digests, Precedes(d, e), Precedes(e, d)
      PROVE  d = e
  <2>1. d.source = e.source /\ d.patch = e.patch /\ d.policy = e.policy
    BY <1>1, <1>2 DEF Precedes
  <2> QED
    BY <1>1, <2>1
<1>3. ASSUME NEW d \in V!Digests, NEW e \in V!Digests, NEW f \in V!Digests,
             Precedes(d, e), Precedes(e, f)
      PROVE  Precedes(d, f)
  BY <1>1, <1>3 DEF Precedes
<1>4. \A d \in V!Digests : Precedes(d, d)
  BY <1>1 DEF Precedes
<1> QED
  BY <1>2, <1>3, <1>4

KeyWithin(t, key) ==
  /\ key \in V!Key /\ key[1] = t
  /\ key[2] <= contract.version /\ Precedes(key[3], subject.digests)

JobSound(t, job) ==
  job.result # None =>
    /\ plan # None /\ plan.supported
    /\ KeyWithin(t, job.result.key)
    /\ job.running => job.result \in [key : V!Key]
    /\ ~job.running => job.result \in V!Result
                         /\ job.result.outcome = V!Fault(job.result.facts)

(* What was asked for can be met, once the planner has said so.            *)
AskedIsMet ==
  /\ asked.requirements = {} => asked.default
  /\ \A r \in asked.requirements : V!RequirementFailure(r) = None
  /\ V!NetworkPolicy(asked.egress) # None
  /\ asked.cores <= V!Available.cores

PlanSound ==
  /\ asked \in TargetRequests
  /\ plan \in {None} \union V!Plan
  /\ plan # None /\ plan.supported => AskedIsMet

ContractSound ==
  /\ contract \in V!ContractRow
  /\ contract.state = "none" => contract.version = 0
  /\ contract.state = "accepted" => contract.steps \intersect V!RequiredKinds # {}
  /\ subject \in [digests : V!Digests, fresh : BOOLEAN]

EntrySound(entry) == entry \in V!CacheEntry /\ V!Fault(entry.facts) = "passed"

(* No result is older than the attestation.                                *)
Attested(t, job) ==
  attestation # None =>
    /\ job.result # None
    /\ attestation.contract <= job.result.key[2] /\ Precedes(attestation.digests, job.result.key[3])

VerificationSound ==
  /\ ContractSound /\ PlanSound
  /\ runs \in [Targets -> V!JobRow]
  /\ \A t \in Targets : JobSound(t, runs[t]) /\ Attested(t, runs[t])
  /\ \A t \in Targets : runs[t].running => runs[t].result # None
  /\ V!WithinBudget /\ cost \in Nat
  /\ \A entry \in cache : EntrySound(entry)
  /\ attestation \in {None} \union V!Attestation

LEMMA FaultKept ==
  ASSUME asked' = asked, NEW f
  PROVE  V!Fault(f)' = V!Fault(f)
BY DEF V!Fault, V!Ready, V!Services

LEMMA JobKept ==
  ASSUME ContractSound, ContractSound', asked' = asked,
         contract.version <= contract'.version, Precedes(subject.digests, subject'.digests),
         plan # None /\ plan.supported => plan' = plan,
         NEW t \in Targets, NEW job, JobSound(t, job)
  PROVE  JobSound(t, job)'
<1> SUFFICES ASSUME job.result # None PROVE JobSound(t, job)'
  BY DEF JobSound
<1>1. PICK key \in V!Key : key = job.result.key
  BY DEF JobSound, KeyWithin
<1>2. PICK f : f = job.result.facts
  OBVIOUS
<1>3. /\ key[2] \in Nat /\ key[3] \in V!Digests
      /\ contract.version \in Nat /\ contract'.version \in Nat
      /\ subject.digests \in V!Digests /\ subject'.digests \in V!Digests
  BY DEF V!Key, ContractSound, V!ContractRow
<1>4. key[2] <= contract'.version /\ Precedes(key[3], subject'.digests) /\ key[1] = t
  BY <1>1, <1>3, PrecedesOrder DEF JobSound, KeyWithin
<1>5. KeyWithin(t, job.result.key)'
  BY <1>1, <1>4 DEF KeyWithin, V!Key
<1>6. V!Fault(f)' = V!Fault(f)
  BY FaultKept
<1>7. ~job.running => job.result.outcome = V!Fault(job.result.facts)'
  BY <1>2, <1>6 DEF JobSound
<1>8. plan' # None /\ plan'.supported
  BY DEF JobSound
<1> QED
  BY <1>5, <1>7, <1>8 DEF JobSound, V!Result, V!Facts, V!Preflight, V!Services, V!Outcomes, V!Key

LEMMA EntryKept ==
  ASSUME asked' = asked, NEW entry, EntrySound(entry)
  PROVE  EntrySound(entry)'
<1>1. PICK f : f = entry.facts
  OBVIOUS
<1>2. V!Fault(f)' = V!Fault(f)
  BY FaultKept
<1> QED
  BY <1>1, <1>2 DEF EntrySound, V!CacheEntry, V!Key, V!Facts, V!Preflight, V!Services

LEMMA BudgetKept ==
  ASSUME V!WithinBudget, UNCHANGED runs, UNCHANGED cost
  PROVE  V!WithinBudget'
BY DEF V!WithinBudget, V!Active

(* The contract, the source or the plan changes beside the runs.           *)
LEMMA FactsMove ==
  ASSUME VerificationSound, UNCHANGED <<asked, runs, cost, cache, attestation>>,
         ContractSound', PlanSound',
         contract.version <= contract'.version, Precedes(subject.digests, subject'.digests),
         plan # None /\ plan.supported => plan' = plan
  PROVE  VerificationSound'
<1>1. ASSUME NEW t \in Targets PROVE JobSound(t, runs[t])' /\ Attested(t, runs[t])'
  <2>1. PICK job : job = runs[t]
    OBVIOUS
  <2>2. JobSound(t, job)'
    BY <2>1, JobKept DEF VerificationSound
  <2> QED
    BY <2>1, <2>2 DEF VerificationSound, JobSound, KeyWithin, V!Fault, V!Ready, Attested
<1>2. \A entry \in cache' : EntrySound(entry)'
  BY EntryKept DEF VerificationSound
<1>3. V!WithinBudget'
  BY BudgetKept DEF VerificationSound
<1>4. /\ runs' \in [Targets -> V!JobRow] /\ cost' \in Nat
      /\ \A t \in Targets : runs'[t].running => runs'[t].result # None
      /\ attestation' \in {None} \union V!Attestation
  BY DEF VerificationSound
<1> QED
  BY <1>1, <1>2, <1>3, <1>4 DEF VerificationSound

LEMMA ContractMoves ==
  ASSUME V!VerificationAssumption, VerificationSound,
         \/ \E scripts \in {{"lint"}, {"install", "test"}} : V!Discover(scripts)
         \/ V!Accept \/ V!Invalidate \/ V!SubjectChanges
  PROVE  VerificationSound'
<1>1. PICK row \in V!ContractRow : row = contract
  BY DEF VerificationSound, ContractSound
<1>2. /\ MaxVersion \in Nat /\ MaxVersion >= 1 /\ ContractSound /\ PlanSound
      /\ row.version \in 0..MaxVersion
  BY DEF V!VerificationAssumption, VerificationSound, V!ContractRow
<1>3. ASSUME UNCHANGED <<asked, plan>> PROVE PlanSound'
  BY <1>2, <1>3 DEF PlanSound, AskedIsMet, V!RequirementFailure, V!ValidRequirement,
                    V!MatchesAvailable, V!NetworkPolicy, V!Available
<1>4. CASE \E scripts \in {{"lint"}, {"install", "test"}} : V!Discover(scripts)
  <2>1. PICK scripts \in {{"lint"}, {"install", "test"}} : V!Discover(scripts)
    BY <1>4
  <2>2. /\ contract' = [state |-> "needs_review", version |-> 1, steps |-> scripts]
        /\ UNCHANGED <<subject, asked, plan, runs, cost, cache, attestation>>
        /\ contract.version = 0
    BY <1>2, <2>1 DEF V!Discover, ContractSound
  <2>3. scripts \subseteq V!ToSet(V!Kinds)
    <3>1. V!Kinds = <<"install", "build", "lint", "typecheck", "test", "smoke", "benchmark">>
      BY DEF V!Kinds
    <3>2. V!Kinds[1] = "install" /\ V!Kinds[3] = "lint" /\ V!Kinds[5] = "test"
          /\ 1 \in DOMAIN V!Kinds /\ 3 \in DOMAIN V!Kinds /\ 5 \in DOMAIN V!Kinds
      BY <3>1
    <3> QED
      BY <3>2 DEF V!ToSet
  <2>4. ContractSound'
    BY <1>2, <2>2, <2>3 DEF ContractSound, V!ContractRow
  <2>5. contract.version <= contract'.version /\ Precedes(subject.digests, subject'.digests)
    BY <1>2, <2>2, PrecedesOrder DEF ContractSound
  <2> QED
    BY <1>2, <1>3, <2>2, <2>4, <2>5, FactsMove
<1>5. CASE V!Accept
  <2> DEFINE next == [row EXCEPT !.state = "accepted"]
  <2>1. /\ contract' = next /\ row.steps \intersect V!RequiredKinds # {}
        /\ UNCHANGED <<subject, asked, plan, runs, cost, cache, attestation>>
    BY <1>1, <1>5 DEF V!Accept
  <2>2. /\ next \in V!ContractRow /\ next.state = "accepted" /\ next.version = row.version
        /\ next.steps = row.steps
    BY DEF V!ContractRow
  <2>3. ContractSound'
    BY <1>2, <2>1, <2>2 DEF ContractSound, V!ContractRow, V!RequiredKinds
  <2>4. contract.version <= contract'.version /\ Precedes(subject.digests, subject'.digests)
    BY <1>1, <1>2, <2>1, <2>2, PrecedesOrder DEF ContractSound
  <2> QED
    BY <1>2, <1>3, <2>1, <2>3, <2>4, FactsMove
<1>6. CASE V!Invalidate
  <2> DEFINE next == [row EXCEPT !.state = "invalidated", !.version = row.version + 1]
  <2>1. /\ contract' = next /\ row.version < MaxVersion
        /\ UNCHANGED <<subject, asked, plan, runs, cost, cache, attestation>>
    BY <1>1, <1>6 DEF V!Invalidate, V!ContractRow
  <2>2. row.version + 1 \in 0..MaxVersion
    BY <1>2, <2>1
  <2>3. /\ next \in V!ContractRow /\ next.state = "invalidated"
        /\ next.version = row.version + 1
    BY <2>2 DEF V!ContractRow
  <2> HIDE DEF next
  <2>4. ContractSound'
    BY <1>2, <2>1, <2>3 DEF ContractSound, V!ContractRow
  <2>5. contract.version <= contract'.version /\ Precedes(subject.digests, subject'.digests)
    BY <1>1, <1>2, <2>1, <2>3, PrecedesOrder DEF ContractSound
  <2> QED
    BY <1>2, <1>3, <2>1, <2>4, <2>5, FactsMove
<1>7. CASE V!SubjectChanges
  <2>1. /\ UNCHANGED <<contract, asked, plan, runs, cost, cache, attestation>>
        /\ \/ subject' = [subject EXCEPT !.fresh = FALSE]
           \/ \E d \in V!Digests, change \in {"source", "patch", "policy"} :
                /\ d = [subject.digests EXCEPT ![change] = @ + 1]
                /\ subject' = [digests |-> d, fresh |-> subject.fresh \/ change = "source"]
    BY <1>7 DEF V!SubjectChanges
  <2>2. /\ subject' \in [digests : V!Digests, fresh : BOOLEAN]
        /\ Precedes(subject.digests, subject'.digests)
    <3>1. PICK before \in [digests : V!Digests, fresh : BOOLEAN] : before = subject
      BY <1>2 DEF ContractSound
    <3>2. CASE subject' = [before EXCEPT !.fresh = FALSE]
      <4>1. subject' = [digests |-> before.digests, fresh |-> FALSE]
        BY <3>2
      <4>2. Precedes(before.digests, before.digests)
        BY PrecedesOrder
      <4> QED
        BY <3>1, <4>1, <4>2
    <3>3. ASSUME NEW d \in V!Digests, NEW change \in {"source", "patch", "policy"},
                 d = [subject.digests EXCEPT ![change] = @ + 1],
                 subject' = [digests |-> d, fresh |-> subject.fresh \/ change = "source"]
          PROVE  /\ subject' \in [digests : V!Digests, fresh : BOOLEAN]
                 /\ Precedes(subject.digests, subject'.digests)
      <4>1. PICK old \in V!Digests : old = subject.digests
        BY <3>1
      <4>2. PICK fresh \in BOOLEAN : fresh = (subject.fresh \/ change = "source")
        BY <3>1
      <4>3. subject' = [digests |-> d, fresh |-> fresh]
        BY <3>3, <4>2
      <4>4. Precedes(old, d)
        BY <3>3, <4>1 DEF V!Digests, V!Versions, Precedes
      <4> QED
        BY <4>1, <4>3, <4>4
    <3> QED
      BY <2>1, <3>1, <3>2, <3>3
  <2>3. ContractSound'
    BY <1>2, <2>1, <2>2 DEF ContractSound, V!ContractRow, V!RequiredKinds
  <2>4. contract.version <= contract'.version
    BY <1>1, <1>2, <2>1
  <2> QED
    BY <1>2, <1>3, <2>1, <2>2, <2>3, <2>4, FactsMove
<1> QED
  BY <1>4, <1>5, <1>6, <1>7

LEMMA DeriveSound ==
  ASSUME V!VerificationAssumption, VerificationSound, V!Derive
  PROVE  VerificationSound'
<1> DEFINE failed == {r \in asked.requirements : V!RequirementFailure(r) # None}
<1>1. /\ UNCHANGED <<contract, subject, asked, runs, cost, cache, attestation>>
      /\ plan = None /\ ContractSound /\ PlanSound
  BY DEF V!Derive, VerificationSound
<1>2. asked \in V!Request /\ failed \subseteq V!Requirement
  BY <1>1 DEF PlanSound, V!VerificationAssumption, V!Request
<1>3. ContractSound'
  BY <1>1 DEF ContractSound, V!ContractRow, V!RequiredKinds
<1>4. ASSUME plan'.supported PROVE AskedIsMet
  <2>1. /\ ~(asked.requirements = {} /\ ~asked.default)
        /\ failed = {} /\ asked.cores <= V!Available.cores
        /\ V!NetworkPolicy(asked.egress) # None
    BY <1>4 DEF V!Derive
  <2> QED
    BY <2>1 DEF AskedIsMet
<1>5. plan' \in V!Plan
  <2>1. CASE asked.requirements = {} /\ ~asked.default
    BY <2>1 DEF V!Derive, V!Plan
  <2>2. CASE ~(asked.requirements = {} /\ ~asked.default)
    <3> DEFINE supported == /\ failed = {}
                            /\ asked.cores <= V!Available.cores
                            /\ V!NetworkPolicy(asked.egress) # None
    <3>1. plan' = [supported |-> supported, failed |-> failed]
      BY <2>2 DEF V!Derive
    <3>2. supported \in BOOLEAN
      OBVIOUS
    <3> HIDE DEF supported, failed
    <3> QED
      BY <1>2, <3>1, <3>2 DEF V!Plan
  <2> QED
    BY <2>1, <2>2
<1>6. PlanSound'
  <2>1. AskedIsMet => AskedIsMet'
    BY <1>1 DEF AskedIsMet, V!RequirementFailure, V!ValidRequirement, V!MatchesAvailable,
                V!NetworkPolicy, V!Available
  <2> QED
    BY <1>1, <1>4, <1>5, <2>1 DEF PlanSound, V!Plan
<1>7. contract.version <= contract'.version /\ Precedes(subject.digests, subject'.digests)
  BY <1>1, PrecedesOrder DEF ContractSound, V!ContractRow
<1> QED
  BY <1>1, <1>3, <1>6, <1>7, FactsMove

-----------------------------------------------------------------------------
(* An instance sees FiniteSets through the module it is an instance of.    *)
LEMMA FiniteSame ==
  ASSUME NEW S
  PROVE  V!IsFiniteSet(S) <=> IsFiniteSet(S)
BY DEF V!IsFiniteSet, IsFiniteSet

LEMMA CardinalitySame ==
  ASSUME NEW S
  PROVE  V!Cardinality(S) = Cardinality(S)
BY DEF V!Cardinality, Cardinality

LEMMA RunOfTargetMoves ==
  ASSUME V!VerificationAssumption, VerificationSound,
         NEW t \in Targets, NEW job \in V!JobRow, runs' = [runs EXCEPT ![t] = job],
         UNCHANGED <<contract, subject, asked, plan, attestation>>,
         JobSound(t, job), Attested(t, job), job.running => job.result # None,
         cost' \in Nat, cost' <= MaxCost,
         job.running => runs[t].running \/ Cardinality(V!Active) < MaxActive,
         \A entry \in cache' : EntrySound(entry)
  PROVE  VerificationSound'
<1>1. /\ ContractSound /\ PlanSound /\ V!WithinBudget
      /\ runs \in [Targets -> V!JobRow] /\ IsFiniteSet(Targets) /\ MaxActive \in Nat
  BY FiniteSame DEF VerificationSound, V!VerificationAssumption
<1>2. /\ runs' \in [Targets -> V!JobRow] /\ runs'[t] = job
      /\ \A u \in Targets \ {t} : runs'[u] = runs[u]
  BY <1>1
<1>3. ContractSound' /\ PlanSound'
  <2>1. ContractSound'
    BY <1>1 DEF ContractSound, V!ContractRow, V!RequiredKinds
  <2>2. AskedIsMet => AskedIsMet'
    BY DEF AskedIsMet, V!RequirementFailure, V!ValidRequirement, V!MatchesAvailable,
           V!NetworkPolicy, V!Available
  <2> QED
    BY <1>1, <2>1, <2>2 DEF PlanSound, V!Plan
<1>4. contract.version <= contract'.version /\ Precedes(subject.digests, subject'.digests)
  BY <1>1, PrecedesOrder DEF ContractSound, V!ContractRow
<1>5. ASSUME NEW u \in Targets
      PROVE  /\ JobSound(u, runs[u])' /\ Attested(u, runs[u])'
             /\ runs'[u].running => runs'[u].result # None
  <2>1. PICK row : row = runs'[u]
    OBVIOUS
  <2>2. JobSound(u, row) /\ Attested(u, row) /\ (row.running => row.result # None)
    BY <1>1, <1>2, <2>1 DEF VerificationSound
  <2>3. JobSound(u, row)'
    BY <1>1, <1>3, <1>4, <2>2, JobKept
  <2> QED
    BY <2>1, <2>2, <2>3 DEF JobSound, KeyWithin, V!Fault, V!Ready, Attested
<1>6. \A entry \in cache' : EntrySound(entry)'
  BY EntryKept
<1>7. V!WithinBudget'
  <2>1. PICK before : before = V!Active
    OBVIOUS
  <2>2. PICK after : after = V!Active'
    OBVIOUS
  <2>3. /\ before \subseteq Targets /\ IsFiniteSet(before)
        /\ Cardinality(before) <= MaxActive /\ Cardinality(before) \in Nat
    <3>1. before \subseteq Targets /\ Cardinality(before) <= MaxActive
      BY <1>1, <2>1, CardinalitySame DEF V!Active, V!WithinBudget
    <3>2. IsFiniteSet(before)
      BY <1>1, <3>1, FS_Subset
    <3> QED
      BY <3>1, <3>2, FS_CardinalityType
  <2>4. Cardinality(after) <= MaxActive
    <3>1. CASE after \subseteq before
      <4>1. IsFiniteSet(after) /\ Cardinality(after) <= Cardinality(before)
        BY <2>3, <3>1, FS_Subset
      <4>2. Cardinality(after) \in Nat
        BY <4>1, FS_CardinalityType
      <4> QED
        BY <1>1, <2>3, <4>1, <4>2
    <3>2. CASE ~(after \subseteq before)
      <4>1. /\ after \subseteq before \union {t} /\ job.running /\ ~runs[t].running
        BY <1>2, <2>1, <2>2, <3>2 DEF V!Active
      <4>2. Cardinality(before) < MaxActive /\ t \notin before
        BY <2>1, <4>1 DEF V!Active
      <4>3. /\ IsFiniteSet(before \union {t})
            /\ Cardinality(before \union {t}) = Cardinality(before) + 1
        BY <2>3, <4>2, FS_AddElement
      <4>4. IsFiniteSet(after) /\ Cardinality(after) <= Cardinality(before \union {t})
        BY <4>1, <4>3, FS_Subset
      <4>5. Cardinality(after) \in Nat
        BY <4>4, FS_CardinalityType
      <4> QED
        BY <1>1, <2>3, <4>2, <4>3, <4>4, <4>5
    <3> QED
      BY <3>1, <3>2
  <2>5. (V!Cardinality(V!Active))' = Cardinality(after)
    BY <2>2, CardinalitySame
  <2> QED
    BY <1>1, <1>2, <2>4, <2>5 DEF V!WithinBudget, V!JobRow
<1>8. attestation' \in {None} \union V!Attestation
  BY DEF VerificationSound
<1>9. /\ \A u \in Targets : JobSound(u, runs[u])' /\ Attested(u, runs[u])'
      /\ \A u \in Targets : runs'[u].running => runs'[u].result # None
  BY <1>5
<1> QED
  BY <1>2, <1>3, <1>6, <1>7, <1>8, <1>9 DEF VerificationSound

LEMMA AcquireSound ==
  ASSUME V!VerificationAssumption, VerificationSound, NEW t \in Targets, V!Acquire(t)
  PROVE  VerificationSound'
<1> DEFINE key == <<t, contract.version, subject.digests>>
           job == [attempts |-> runs[t].attempts + 1, running |-> TRUE,
                   result |-> [key |-> key]]
<1>1. /\ plan # None /\ plan.supported /\ V!Decision(t) = "acquire"
      /\ cost' = cost + 1 /\ runs' = [runs EXCEPT ![t] = job]
      /\ UNCHANGED <<contract, subject, asked, plan, cache, attestation>>
  BY DEF V!Acquire, V!CacheKey
<1>2. PICK row \in V!JobRow : row = runs[t]
  BY DEF VerificationSound
<1>3. /\ cost \in Nat /\ MaxActive \in Nat /\ MaxCost \in Nat /\ MaxAttempts \in Nat
      /\ IsFiniteSet(V!Active) /\ Cardinality(V!Active) \in Nat
  <2>1. IsFiniteSet(Targets) /\ V!Active \subseteq Targets
    BY FiniteSame DEF V!VerificationAssumption, V!Active
  <2>2. IsFiniteSet(V!Active)
    BY <2>1, FS_Subset
  <2> QED
    BY <2>2, FS_CardinalityType DEF VerificationSound, V!VerificationAssumption
<1>10. /\ ~row.running /\ ~(row.attempts + 1 > MaxAttempts)
       /\ ~(cost + 1 > MaxCost) /\ ~(Cardinality(V!Active) >= MaxActive)
  <2> DEFINE number == Cardinality(V!Active)
  <2>1. (IF row.running THEN "duplicate"
         ELSE IF row.attempts + 1 > MaxAttempts THEN "attempt_budget"
         ELSE IF cost + 1 > MaxCost THEN "cost_budget"
         ELSE IF number >= MaxActive THEN "workspace_concurrency"
         ELSE "acquire") = "acquire"
    BY <1>1, <1>2, CardinalitySame DEF V!Decision
  <2>2. row.running \in BOOLEAN
    BY DEF V!JobRow
  <2>3. number \in Int /\ cost + 1 \in Int /\ row.attempts + 1 \in Int
    BY <1>3 DEF V!JobRow
  <2> HIDE DEF number
  <2>4. /\ ~row.running /\ ~(row.attempts + 1 > MaxAttempts)
        /\ ~(cost + 1 > MaxCost) /\ ~(number >= MaxActive)
    BY <1>3, <2>1, <2>2, <2>3
  <2> QED
    BY <2>4 DEF number
<1>4. /\ contract.version \in 0..MaxVersion /\ subject.digests \in V!Digests
      /\ MaxVersion \in Nat
  BY DEF VerificationSound, ContractSound, V!ContractRow, V!VerificationAssumption
<1>5. key \in V!Key /\ key[1] = t /\ key[2] = contract.version /\ key[3] = subject.digests
  BY <1>4 DEF V!Key
<1>6. row.attempts + 1 \in 0..MaxAttempts
  BY <1>2, <1>3, <1>10 DEF V!JobRow
<1>7. [key |-> key] \in [key : V!Key] /\ [key |-> key] # None
  <2> HIDE DEF key
  <2> QED
    BY <1>5 DEF V!VerificationAssumption
<1> HIDE DEF key
<1>8. /\ job \in V!JobRow /\ job.running /\ job.result = [key |-> key] /\ job.result # None
      /\ job.result.key = key
  BY <1>2, <1>6, <1>7 DEF V!JobRow
<1> HIDE DEF job
<1>9. JobSound(t, job)
  <2>1. KeyWithin(t, job.result.key)
    BY <1>4, <1>5, <1>8, PrecedesOrder DEF KeyWithin
  <2> QED
    BY <1>1, <1>7, <1>8, <2>1 DEF JobSound
<1>11. Attested(t, job)
  <2>1. attestation # None => /\ attestation.contract <= contract.version
                              /\ Precedes(attestation.digests, subject.digests)
    <3> SUFFICES ASSUME attestation # None
                 PROVE  /\ attestation.contract <= contract.version
                        /\ Precedes(attestation.digests, subject.digests)
      OBVIOUS
    <3>1. /\ Attested(t, row) /\ JobSound(t, row) /\ attestation \in V!Attestation
      BY <1>2 DEF VerificationSound
    <3>2. PICK old \in V!Key : old = row.result.key /\ KeyWithin(t, old)
      BY <3>1 DEF JobSound, KeyWithin, Attested
    <3>3. /\ old[2] \in Nat /\ old[3] \in V!Digests
          /\ attestation.contract \in Nat /\ attestation.digests \in V!Digests
      BY <3>1, <1>4 DEF V!Key, V!Attestation
    <3> QED
      BY <1>4, <3>1, <3>2, <3>3, PrecedesOrder DEF Attested, KeyWithin
  <2> QED
    BY <1>5, <1>8, <2>1 DEF Attested
<1>12. \A entry \in cache' : EntrySound(entry)
  BY <1>1 DEF VerificationSound
<1>13. cost' \in Nat /\ cost' <= MaxCost /\ Cardinality(V!Active) < MaxActive
  BY <1>1, <1>3, <1>10
<1> QED
  BY <1>1, <1>8, <1>9, <1>11, <1>12, <1>13, RunOfTargetMoves

(* What a run comes to is one of the outcomes a row may hold.              *)
LEMMA FaultKnown ==
  ASSUME NEW f
  PROVE  V!Fault(f) \in V!ToSet(V!Outcomes) \union {"cleanup_failed", "passed"}
<1>1. V!Outcomes = <<"security_blocked", "unsupported_target_or_capability",
                     "resource_budget_failed", "timed_out", "infrastructure_failed",
                     "project_or_candidate_failed", "inconclusive">>
  BY DEF V!Outcomes
<1>2. /\ \A i \in 1..7 : i \in DOMAIN V!Outcomes
      /\ V!Outcomes[1] = "security_blocked"
      /\ V!Outcomes[2] = "unsupported_target_or_capability"
      /\ V!Outcomes[3] = "resource_budget_failed" /\ V!Outcomes[4] = "timed_out"
      /\ V!Outcomes[5] = "infrastructure_failed"
      /\ V!Outcomes[6] = "project_or_candidate_failed" /\ V!Outcomes[7] = "inconclusive"
  BY <1>1
<1>3. {"security_blocked", "unsupported_target_or_capability", "resource_budget_failed",
       "timed_out", "infrastructure_failed", "project_or_candidate_failed",
       "inconclusive"} \subseteq V!ToSet(V!Outcomes)
  BY <1>2 DEF V!ToSet
<1> QED
  BY <1>3 DEF V!Fault

(* A run that is over: the key it had, its facts and what they come to.    *)
LEMMA OverSound ==
  ASSUME V!VerificationAssumption, VerificationSound, plan # None, plan.supported,
         NEW t \in Targets, NEW row \in V!JobRow, NEW key, KeyWithin(t, key),
         attestation # None => /\ attestation.contract <= key[2]
                               /\ Precedes(attestation.digests, key[3]),
         NEW f \in V!Facts, NEW job,
         job = [attempts |-> row.attempts, running |-> FALSE,
                result |-> [key |-> key, facts |-> f, outcome |-> V!Fault(f)]]
  PROVE  job \in V!JobRow /\ JobSound(t, job) /\ Attested(t, job) /\ ~job.running
<1> DEFINE result == [key |-> key, facts |-> f, outcome |-> V!Fault(f)]
<1>1. /\ result.key = key /\ result.facts = f /\ result.outcome = V!Fault(f)
      /\ result \in V!Result
  BY FaultKnown DEF V!Result, KeyWithin
<1>2. result # None
  BY <1>1 DEF V!VerificationAssumption
<1>3. job.result = result /\ ~job.running /\ job.attempts = row.attempts
  OBVIOUS
<1>5. job = [attempts |-> row.attempts, running |-> FALSE, result |-> result]
  OBVIOUS
<1> HIDE DEF result
<1>4. job \in V!JobRow
  <2> DEFINE results == {None} \union [key : V!Key] \union V!Result
  <2>1. row.attempts \in 0..MaxAttempts /\ result \in results
    BY <1>1 DEF V!JobRow
  <2>2. V!JobRow = [attempts : 0..MaxAttempts, running : BOOLEAN, result : results]
    BY DEF V!JobRow
  <2> HIDE DEF results
  <2> QED
    BY <1>5, <2>1, <2>2
<1> QED
  BY <1>1, <1>2, <1>3, <1>4 DEF JobSound, Attested

LEMMA JobResult ==
  ASSUME NEW row \in V!JobRow, NEW result
  PROVE  [row EXCEPT !.result = result]
           = [attempts |-> row.attempts, running |-> row.running, result |-> result]
<1> DEFINE results == {None} \union [key : V!Key] \union V!Result
           numbers == 0..MaxAttempts
<1>1. row \in [attempts : numbers, running : BOOLEAN, result : results]
  BY DEF V!JobRow
<1> HIDE DEF results, numbers
<1> QED
  BY <1>1

LEMMA JobEnds ==
  ASSUME NEW row \in V!JobRow, NEW result
  PROVE  [row EXCEPT !.running = FALSE, !.result = result]
           = [attempts |-> row.attempts, running |-> FALSE, result |-> result]
<1> DEFINE results == {None} \union [key : V!Key] \union V!Result
           numbers == 0..MaxAttempts
           over == FALSE
<1>1. row \in [attempts : numbers, running : BOOLEAN, result : results]
  BY DEF V!JobRow
<1> HIDE DEF results, numbers, over
<1>2. [row EXCEPT !.running = over]
        = [attempts |-> row.attempts, running |-> over, result |-> row.result]
  BY <1>1
<1>3. [row EXCEPT !.running = over, !.result = result]
        = [[row EXCEPT !.running = over] EXCEPT !.result = result]
  OBVIOUS
<1>4. [[attempts |-> row.attempts, running |-> over, result |-> row.result]
         EXCEPT !.result = result]
        = [attempts |-> row.attempts, running |-> over, result |-> result]
  OBVIOUS
<1>5. [row EXCEPT !.running = over, !.result = result]
        = [attempts |-> row.attempts, running |-> over, result |-> result]
  BY <1>2, <1>3, <1>4
<1> QED
  BY <1>5 DEF over

LEMMA FinishSound ==
  ASSUME V!VerificationAssumption, VerificationSound, NEW t \in Targets,
         NEW f \in Faults, NEW safe \in BOOLEAN, V!Finish(t, f, safe)
  PROVE  VerificationSound'
<1>1. PICK row \in V!JobRow : row = runs[t]
  BY DEF VerificationSound
<1>2. PICK key : key = row.result.key
  OBVIOUS
<1>3. PICK job : job = [attempts |-> row.attempts, running |-> FALSE,
                        result |-> [key |-> key, facts |-> f, outcome |-> V!Fault(f)]]
  OBVIOUS
<1>4. /\ row.running /\ row.result # None /\ JobSound(t, row) /\ Attested(t, row)
      /\ UNCHANGED <<contract, subject, asked, plan, cost, attestation>>
      /\ cost \in Nat /\ cost <= MaxCost /\ f \in V!Facts
  BY <1>1 DEF V!Finish, VerificationSound, V!WithinBudget, V!VerificationAssumption
<1>5. runs' = [runs EXCEPT ![t] = job]
  <2> DEFINE result == [key |-> key, facts |-> f, outcome |-> V!Fault(f)]
  <2>1. [row EXCEPT !.running = FALSE, !.result = result] = job
    BY <1>3, JobEnds
  <2>2. runs' = [runs EXCEPT ![t].running = FALSE,
                             ![t].result = [key |-> runs[t].result.key, facts |-> f,
                                            outcome |-> V!Fault(f)]]
    BY DEF V!Finish
  <2>3. runs' = [runs EXCEPT ![t].running = FALSE, ![t].result = result]
    BY <1>1, <1>2, <2>2
  <2> HIDE DEF result
  <2>4. runs' = [runs EXCEPT ![t] = [row EXCEPT !.running = FALSE, !.result = result]]
    BY <1>1, <2>3 DEF VerificationSound
  <2> QED
    BY <2>1, <2>4
<1>6. KeyWithin(t, key) /\ plan # None /\ plan.supported
  BY <1>2, <1>4 DEF JobSound
<1>7. attestation # None => attestation.contract <= key[2] /\ Precedes(attestation.digests, key[3])
  BY <1>2, <1>4 DEF Attested
<1>8. job \in V!JobRow /\ JobSound(t, job) /\ Attested(t, job) /\ ~job.running
  BY <1>3, <1>4, <1>6, <1>7, OverSound
<1>9. ASSUME NEW entry \in cache' PROVE EntrySound(entry)
  <2>1. CASE entry \in cache
    BY <2>1 DEF VerificationSound
  <2>2. CASE entry \notin cache
    <3>1. V!Fault(f) = "passed" /\ entry = [key |-> key, facts |-> f]
      BY <1>1, <1>2, <1>9, <2>2 DEF V!Finish
    <3> QED
      BY <1>4, <1>6, <3>1 DEF EntrySound, V!CacheEntry, KeyWithin
  <2> QED
    BY <2>1, <2>2
<1>10. cost' \in Nat /\ cost' <= MaxCost
  BY <1>4
<1> QED
  BY <1>4, <1>5, <1>8, <1>9, <1>10, RunOfTargetMoves

LEMMA ReuseSound ==
  ASSUME V!VerificationAssumption, VerificationSound, NEW t \in Targets, V!Reuse(t)
  PROVE  VerificationSound'
<1>1. PICK row \in V!JobRow : row = runs[t]
  BY DEF VerificationSound
<1>2. /\ plan # None /\ plan.supported /\ ~row.running
      /\ UNCHANGED <<contract, subject, asked, plan, cost, cache, attestation>>
  BY <1>1 DEF V!Reuse
<1>3. PICK entry \in cache :
        /\ entry.key = V!CacheKey(t)
        /\ runs' = [runs EXCEPT ![t].result =
                      [key |-> entry.key, facts |-> entry.facts, outcome |-> "passed"]]
  BY DEF V!Reuse
<1>4. PICK f : f = entry.facts
  OBVIOUS
<1>5. PICK key : key = entry.key
  OBVIOUS
<1>6. PICK job : job = [attempts |-> row.attempts, running |-> FALSE,
                        result |-> [key |-> key, facts |-> f, outcome |-> V!Fault(f)]]
  OBVIOUS
<1>7. /\ f \in V!Facts /\ key \in V!Key /\ V!Fault(f) = "passed"
      /\ key = <<t, contract.version, subject.digests>>
  BY <1>3, <1>4, <1>5 DEF VerificationSound, EntrySound, V!CacheEntry, V!CacheKey
<1>8. runs' = [runs EXCEPT ![t] = job]
  <2> DEFINE result == [key |-> key, facts |-> f, outcome |-> V!Fault(f)]
  <2>1. [row EXCEPT !.result = result] = job
    <3>1. row.running = FALSE
      BY <1>2 DEF V!JobRow
    <3> QED
      BY <1>6, <3>1, JobResult
  <2>2. runs' = [runs EXCEPT ![t].result = result]
    BY <1>3, <1>4, <1>5, <1>7
  <2> HIDE DEF result
  <2>3. runs' = [runs EXCEPT ![t] = [row EXCEPT !.result = result]]
    BY <1>1, <2>2
  <2> QED
    BY <2>1, <2>3
<1>9. /\ contract.version \in Nat /\ subject.digests \in V!Digests
      /\ ContractSound /\ V!WithinBudget /\ cost \in Nat
      /\ attestation \in {None} \union V!Attestation
      /\ \A u \in Targets : Attested(u, runs[u]) /\ JobSound(u, runs[u])
  BY DEF VerificationSound, ContractSound, V!ContractRow
<1>10. KeyWithin(t, key)
  BY <1>7, <1>9, PrecedesOrder DEF KeyWithin
<1>11. attestation # None => attestation.contract <= key[2] /\ Precedes(attestation.digests, key[3])
  <2> SUFFICES ASSUME attestation # None
               PROVE  attestation.contract <= key[2] /\ Precedes(attestation.digests, key[3])
    OBVIOUS
  <2>1. /\ Attested(t, row) /\ JobSound(t, row) /\ attestation \in V!Attestation
    BY <1>1, <1>9
  <2>2. PICK old \in V!Key : old = row.result.key /\ KeyWithin(t, old)
    BY <2>1 DEF JobSound, KeyWithin, Attested
  <2>3. /\ old[2] \in Nat /\ old[3] \in V!Digests
        /\ attestation.contract \in Nat /\ attestation.digests \in V!Digests
    BY <2>1 DEF V!Key, V!Attestation
  <2> QED
    BY <1>7, <1>9, <2>1, <2>2, <2>3, PrecedesOrder DEF Attested, KeyWithin
<1>12. job \in V!JobRow /\ JobSound(t, job) /\ Attested(t, job) /\ ~job.running
  BY <1>2, <1>6, <1>7, <1>10, <1>11, OverSound
<1>13. \A e \in cache' : EntrySound(e)
  BY <1>2 DEF VerificationSound
<1>14. cost' \in Nat /\ cost' <= MaxCost
  BY <1>2, <1>9 DEF V!WithinBudget
<1> QED
  BY <1>2, <1>8, <1>12, <1>13, <1>14, RunOfTargetMoves

LEMMA AttestationMoves ==
  ASSUME V!VerificationAssumption, VerificationSound, V!Attest \/ V!AttestationAges
  PROVE  VerificationSound'
<1>1. UNCHANGED <<contract, subject, asked, plan, runs, cost, cache>>
  BY DEF V!Attest, V!AttestationAges
<1>2. /\ ContractSound /\ PlanSound /\ V!WithinBudget /\ cost \in Nat
      /\ runs \in [Targets -> V!JobRow] /\ attestation \in {None} \union V!Attestation
  BY DEF VerificationSound
<1>3. /\ attestation' \in {None} \union V!Attestation
      /\ \A t \in Targets : Attested(t, runs[t])'
  <2>1. CASE V!Attest
    <3>1. PICK c \in 0..MaxVersion : \E d \in V!Digests :
            /\ \A t \in Targets : runs[t].result.key = <<t, c, d>>
            /\ attestation' = [contract |-> c, digests |-> d, targets |-> Targets,
                               fresh |-> TRUE]
      BY <2>1 DEF V!Attest
    <3>2. PICK d \in V!Digests :
            /\ \A t \in Targets : runs[t].result.key = <<t, c, d>>
            /\ attestation' = [contract |-> c, digests |-> d, targets |-> Targets,
                               fresh |-> TRUE]
      BY <3>1
    <3>3. attestation' \in V!Attestation /\ attestation'.contract = c /\ attestation'.digests = d
      BY <3>2 DEF V!Attestation
    <3>4. ASSUME NEW t \in Targets PROVE Attested(t, runs[t])'
      <4>1. runs'[t].result # None /\ runs'[t].result.key = <<t, c, d>>
        BY <1>1, <2>1, <3>2 DEF V!Attest, V!Finished
      <4>2. c \in Nat /\ Precedes(d, d)
        BY PrecedesOrder DEF V!VerificationAssumption
      <4> QED
        BY <3>3, <4>1, <4>2 DEF Attested
    <3> QED
      BY <3>3, <3>4
  <2>2. CASE V!AttestationAges
    <3>1. attestation \in V!Attestation
      BY <1>2, <2>2 DEF V!AttestationAges
    <3>2. CASE attestation' = None
      BY <3>2 DEF Attested
    <3>3. CASE attestation' = [attestation EXCEPT !.fresh = FALSE]
      <4>1. /\ attestation' \in V!Attestation
            /\ attestation'.contract = attestation.contract
            /\ attestation'.digests = attestation.digests
        BY <3>1, <3>3 DEF V!Attestation
      <4>2. attestation # None
        BY <2>2 DEF V!AttestationAges
      <4>3. ASSUME NEW t \in Targets PROVE Attested(t, runs[t])'
        <5>1. Attested(t, runs[t])
          BY DEF VerificationSound
        <5> QED
          BY <1>1, <4>1, <4>2, <5>1 DEF Attested
      <4> QED
        BY <4>1, <4>3
    <3> QED
      BY <2>2, <3>2, <3>3 DEF V!AttestationAges
  <2> QED
    BY <2>1, <2>2
<1>4. ContractSound' /\ PlanSound'
  <2>1. ContractSound'
    BY <1>1, <1>2 DEF ContractSound, V!ContractRow, V!RequiredKinds
  <2>2. AskedIsMet => AskedIsMet'
    BY <1>1 DEF AskedIsMet, V!RequirementFailure, V!ValidRequirement, V!MatchesAvailable,
           V!NetworkPolicy, V!Available
  <2> QED
    BY <1>1, <1>2, <2>1, <2>2 DEF PlanSound, V!Plan
<1>5. contract.version <= contract'.version /\ Precedes(subject.digests, subject'.digests)
  BY <1>1, <1>2, PrecedesOrder DEF ContractSound, V!ContractRow
<1>6. ASSUME NEW t \in Targets PROVE JobSound(t, runs[t])'
  <2>1. PICK job : job = runs[t]
    OBVIOUS
  <2>2. JobSound(t, job)'
    BY <1>1, <1>2, <1>4, <1>5, <2>1, JobKept DEF VerificationSound
  <2> QED
    BY <1>1, <2>1, <2>2 DEF JobSound, KeyWithin, V!Fault, V!Ready
<1>7. \A entry \in cache' : EntrySound(entry)'
  BY <1>1, EntryKept DEF VerificationSound
<1>8. V!WithinBudget'
  BY <1>1, <1>2, BudgetKept
<1>9. \A t \in Targets : runs'[t].running => runs'[t].result # None
  BY <1>1 DEF VerificationSound
<1> QED
  BY <1>1, <1>2, <1>3, <1>4, <1>6, <1>7, <1>8, <1>9 DEF VerificationSound

LEMMA VerificationStarts ==
  ASSUME V!VerificationAssumption, V!Init
  PROVE  VerificationSound
<1> USE DEF V!Init
<1>1. ContractSound
  BY DEF ContractSound, V!ContractRow, V!VerificationAssumption, V!Digests, V!Versions
<1>2. PlanSound
  BY DEF PlanSound
<1>3. \A t \in Targets : runs[t] = V!NoRun
  OBVIOUS
<1>4. /\ runs \in [Targets -> V!JobRow] /\ V!NoRun.running = FALSE
      /\ V!NoRun.result = None /\ V!NoRun.attempts = 0
  BY DEF V!JobRow, V!NoRun, V!VerificationAssumption
<1>5. V!WithinBudget
  <2>1. V!Active = {}
    BY <1>3, <1>4 DEF V!Active
  <2>2. V!Cardinality(V!Active) = 0
    BY <2>1, CardinalitySame, FS_EmptySet
  <2> QED
    BY <1>3, <1>4, <2>2 DEF V!WithinBudget, V!VerificationAssumption
<1>6. \A t \in Targets : JobSound(t, runs[t]) /\ Attested(t, runs[t]) /\ ~runs[t].running
  BY <1>3, <1>4 DEF JobSound, Attested
<1> QED
  BY <1>1, <1>2, <1>4, <1>5, <1>6 DEF VerificationSound

(* Whatever may change between two calls, a result rests on what it was    *)
(* had under (services/derive-validation-target.ts, validation-safety.ts,  *)
(* validation-outcomes.ts).                                                *)
THEOREM VerificationSoundAlways ==
  ASSUME V!VerificationAssumption
  PROVE  V!Spec => []VerificationSound
<1>1. V!Init => VerificationSound
  BY VerificationStarts
<1>2. VerificationSound /\ [V!Next]_V!vars => VerificationSound'
  <2> SUFFICES ASSUME VerificationSound, [V!Next]_V!vars PROVE VerificationSound'
    OBVIOUS
  <2>1. CASE UNCHANGED V!vars
    <3>1. ContractSound' /\ PlanSound'
      <4>1. ContractSound'
        BY <2>1 DEF VerificationSound, ContractSound, V!ContractRow, V!RequiredKinds, V!vars
      <4>2. AskedIsMet => AskedIsMet'
        BY <2>1 DEF AskedIsMet, V!RequirementFailure, V!ValidRequirement,
                    V!MatchesAvailable, V!NetworkPolicy, V!Available, V!vars
      <4> QED
        BY <2>1, <4>1, <4>2 DEF VerificationSound, PlanSound, V!Plan, V!vars
    <3>2. contract.version <= contract'.version /\ Precedes(subject.digests, subject'.digests)
      BY <2>1, PrecedesOrder DEF VerificationSound, ContractSound, V!ContractRow, V!vars
    <3> QED
      BY <2>1, <3>1, <3>2, FactsMove DEF V!vars
  <2>2. CASE V!Derive
    BY <2>2, DeriveSound
  <2>3. CASE V!Attest \/ V!AttestationAges
    BY <2>3, AttestationMoves
  <2>4. CASE \E t \in Targets :
               \/ V!Acquire(t) \/ V!Reuse(t)
               \/ \E f \in Faults, safe \in BOOLEAN : V!Finish(t, f, safe)
    BY <2>4, AcquireSound, ReuseSound, FinishSound
  <2>5. CASE \/ \E scripts \in {{"lint"}, {"install", "test"}} : V!Discover(scripts)
             \/ V!Accept \/ V!Invalidate \/ V!SubjectChanges
    BY <2>5, ContractMoves
  <2> QED
    BY <2>1, <2>2, <2>3, <2>4, <2>5 DEF V!Next
<1> QED
  BY <1>1, <1>2, PTL DEF V!Spec

(* Every variable of the verification keeps its type.                      *)
THEOREM VerificationTyped ==
  ASSUME V!VerificationAssumption
  PROVE  V!Spec => []V!TypeOK
<1>1. VerificationSound => V!TypeOK
  BY DEF VerificationSound, ContractSound, PlanSound, EntrySound, V!TypeOK
<1> QED
  BY <1>1, VerificationSoundAlways, PTL

LEMMA LeastOfSeven ==
  ASSUME NEW S \in SUBSET (1..7), S # {}
  PROVE  \E i \in S : \A j \in S : i <= j
<1>1. \/ 1 \in S \/ 2 \in S \/ 3 \in S \/ 4 \in S \/ 5 \in S \/ 6 \in S \/ 7 \in S
  <2>1. PICK k \in S : k \in 1..7
    OBVIOUS
  <2>2. k = 1 \/ k = 2 \/ k = 3 \/ k = 4 \/ k = 5 \/ k = 6 \/ k = 7
    BY <2>1
  <2> QED
    BY <2>2
<1>2. \A j \in S : j \in 1..7
  OBVIOUS
<1> QED
  BY <1>1, <1>2

(* A candidate that failed: one of its runs came to that.                  *)
LEMMA StatusOfHad ==
  ASSUME V!Had # {}
  PROVE  \E i \in V!Had : /\ V!Outcomes[CHOOSE k \in V!Had : \A j \in V!Had : k <= j]
                               = V!Outcomes[i]
                          /\ V!Outcomes[i] # "verified"
                          /\ i \in DOMAIN V!Outcomes
<1>1. DOMAIN V!Outcomes = 1..7
  BY DEF V!Outcomes
<1>2. V!Had \subseteq 1..7
  BY <1>1 DEF V!Had
<1>3. PICK least : least = CHOOSE k \in V!Had : \A j \in V!Had : k <= j
  OBVIOUS
<1>4. least \in V!Had
  BY <1>2, <1>3, LeastOfSeven
<1>5. least \in 1..7
  BY <1>2, <1>4
<1>6. V!Outcomes[least] # "verified"
  BY <1>5 DEF V!Outcomes
<1> QED
  BY <1>1, <1>3, <1>4, <1>5, <1>6

(* What a run has shown, by what it came to.                               *)
LEMMA FaultFailed ==
  ASSUME NEW f \in V!Facts, V!Fault(f) = "project_or_candidate_failed"
  PROVE  f.failed /\ f.canary = "passed" /\ f.cleaned /\ f.preflight.cores >= asked.cores
BY DEF V!Fault, V!Ready, V!Facts

LEMMA FaultPassed ==
  ASSUME NEW f \in V!Facts, V!Fault(f) = "passed"
  PROVE  /\ f.cleaned /\ f.supported
         /\ ~(f.blocked \/ f.exceeded \/ f.timedOut \/ f.failed)
         /\ f.preflight.reached = V!Services /\ f.preflight.cores >= asked.cores
BY DEF V!Fault, V!Ready, V!Facts

LEMMA FinishedSound ==
  ASSUME VerificationSound, NEW t \in Targets, V!Finished(t)
  PROVE  /\ runs[t].result \in V!Result /\ runs[t].result.facts \in V!Facts
         /\ runs[t].result.outcome = V!Fault(runs[t].result.facts)
         /\ KeyWithin(t, runs[t].result.key) /\ plan # None /\ plan.supported
BY DEF VerificationSound, JobSound, V!Finished, V!Result

LEMMA RequirementMet ==
  ASSUME V!VerificationAssumption, NEW r, V!RequirementFailure(r) = None
  PROVE  /\ r.os \in {None, V!Available.os} /\ r.node \in {None, V!Available.node}
         /\ r.capabilities \subseteq V!Available.capabilities
<1>1. None \notin {"invalid_or_missing_requirement", "target_unavailable",
                   "capability_unavailable"}
  BY DEF V!VerificationAssumption
<1>2. /\ V!MatchesAvailable(r) /\ r.capabilities \subseteq V!Available.capabilities
  BY <1>1 DEF V!RequirementFailure
<1> QED
  BY <1>2 DEF V!MatchesAvailable

LEMMA EarnedNow ==
  ASSUME V!VerificationAssumption, VerificationSound
  PROVE  V!VerifiedIsEarned
<1>1. ASSUME V!Status = "project_or_candidate_failed"
      PROVE  \E t \in Targets :
               LET f == runs[t].result.facts IN
               f.failed /\ f.canary = "passed" /\ f.cleaned /\ f.preflight.cores >= asked.cores
  <2>1. \A t \in Targets : V!Finished(t)
    BY <1>1 DEF V!Status
  <2>2. /\ V!Had # {}
        /\ V!Outcomes[CHOOSE k \in V!Had : \A j \in V!Had : k <= j]
             = "project_or_candidate_failed"
    BY <1>1 DEF V!Status
  <2>3. PICK i \in V!Had : V!Outcomes[i] = "project_or_candidate_failed"
    BY <2>2, StatusOfHad
  <2>4. PICK t \in Targets : runs[t].result.outcome = "project_or_candidate_failed"
    BY <2>3 DEF V!Had
  <2>5. PICK f \in V!Facts : /\ f = runs[t].result.facts
                             /\ V!Fault(f) = "project_or_candidate_failed"
    BY <2>1, <2>4, FinishedSound
  <2> QED
    BY <2>5, FaultFailed
<1>2. ASSUME V!Status = "verified"
      PROVE  /\ Targets # {} /\ \A t \in Targets : V!Finished(t) /\ runs[t].result.facts.cleaned
             /\ contract.state = "accepted" /\ subject.fresh /\ V!Had = {}
             /\ attestation # None /\ V!AttestationMatches(attestation)
  <2>1. V!Had = {}
    <3> SUFFICES ASSUME V!Had # {} PROVE FALSE
      OBVIOUS
    <3>1. V!Outcomes[CHOOSE k \in V!Had : \A j \in V!Had : k <= j] # "verified"
      BY StatusOfHad
    <3> QED
      BY <1>2, <3>1 DEF V!Status
  <2> QED
    BY <1>2, <2>1 DEF V!Status
<1>3. ASSUME V!Status = "verified", NEW t \in Targets
      PROVE  /\ LET f == runs[t].result.facts IN
                /\ f.cleaned /\ f.supported
                /\ ~(f.blocked \/ f.exceeded \/ f.timedOut \/ f.failed)
                /\ f.preflight.reached = V!Services /\ f.preflight.cores >= asked.cores
             /\ runs[t].result.key = <<t, contract.version, subject.digests>>
             /\ AskedIsMet
  <2>1. PICK result \in V!Result : result = runs[t].result
    BY <1>2, <1>3, FinishedSound
  <2>2. PICK f \in V!Facts : f = result.facts
    BY DEF V!Result
  <2>3. PICK key \in V!Key : key = result.key
    BY DEF V!Result
  <2>4. /\ result.outcome = V!Fault(f) /\ KeyWithin(t, key) /\ f.cleaned
        /\ plan # None /\ plan.supported
    BY <1>2, <1>3, <2>1, <2>2, <2>3, FinishedSound
  <2>5. V!Fault(f) = "passed"
    <3>1. V!Fault(f) \notin V!ToSet(V!Outcomes)
      BY <1>2, <1>3, <2>1, <2>4 DEF V!Had, V!ToSet
    <3>2. V!Fault(f) # "cleanup_failed"
      BY <2>4 DEF V!Fault
    <3> QED
      BY <3>1, <3>2, FaultKnown
  <2>6. key = <<t, contract.version, subject.digests>>
    <3>1. /\ attestation \in V!Attestation /\ Attested(t, runs[t])
          /\ attestation.contract = contract.version /\ attestation.digests = subject.digests
      BY <1>2, <1>3 DEF VerificationSound, V!AttestationMatches
    <3>2. /\ attestation.contract <= key[2] /\ Precedes(attestation.digests, key[3])
          /\ key[2] <= contract.version /\ Precedes(key[3], subject.digests) /\ key[1] = t
      BY <1>2, <1>3, <2>1, <2>3, <2>4, <3>1 DEF Attested, KeyWithin
    <3>3. /\ key[2] \in Nat /\ key[3] \in V!Digests
          /\ contract.version \in Nat /\ subject.digests \in V!Digests
      BY DEF V!Key, VerificationSound, ContractSound, V!ContractRow
    <3>4. key[2] = contract.version /\ key[3] = subject.digests
      BY <3>1, <3>2, <3>3, PrecedesOrder
    <3>5. key = <<key[1], key[2], key[3]>>
      BY DEF V!Key
    <3> QED
      BY <3>2, <3>4, <3>5
  <2>7. AskedIsMet
    BY <2>4 DEF VerificationSound, PlanSound
  <2> QED
    BY <2>1, <2>2, <2>3, <2>5, <2>6, <2>7, FaultPassed
<1>4. ASSUME V!Status = "verified"
      PROVE  /\ AskedIsMet
             /\ contract.steps \intersect V!RequiredKinds # {}
  BY <1>2, <1>3, <1>4 DEF VerificationSound, ContractSound
<1>5. ASSUME V!Status = "verified"
      PROVE  /\ asked.requirements = {} => asked.default
             /\ \A r \in asked.requirements :
                  /\ r.os \in {None, V!Available.os} /\ r.node \in {None, V!Available.node}
                  /\ r.capabilities \subseteq V!Available.capabilities
             /\ asked.egress # None => asked.egress \subseteq V!Available.hosts
             /\ asked.cores <= V!Available.cores
  <2>1. V!NetworkPolicy(asked.egress) # None
    BY <1>4, <1>5 DEF AskedIsMet
  <2>2. asked.egress # None => asked.egress \subseteq V!Available.hosts
    BY <2>1 DEF V!NetworkPolicy
  <2> QED
    BY <1>4, <1>5, <2>2, RequirementMet DEF AskedIsMet
<1> QED
  BY <1>1, <1>2, <1>3, <1>4, <1>5 DEF V!VerifiedIsEarned

(* A candidate is called verified only with a pass on every target of the  *)
(* contract, source, patch and policy it is judged by, had or cached, given*)
(* a runner that attests results of one of each only                       *)
(* (validation-outcomes.ts, validation-safety.ts).                         *)
THEOREM VerifiedEarnedAlways ==
  ASSUME V!VerificationAssumption
  PROVE  V!Spec => []V!VerifiedIsEarned
BY EarnedNow, VerificationSoundAlways, PTL

-----------------------------------------------------------------------------
(* Materializer.  While the archive is read every entry is one that was    *)
(* inspected, and what is pending is what extends the next of them.        *)
Inspecting == {"start", "inspect", "upload", "extract"}

Extends == {j \in DOMAIN archive : \A k \in j..Len(archive) : ~M!Contained(k)}

NameInspected(q) ==
  /\ q \in Seq(STRING) /\ ~M!Escapes(q) /\ ~M!Unsupported(q) /\ q[1] = root

PendingSound ==
  /\ pending \in [path : {None} \union Seq(STRING), pax : {None} \union Headers]
  /\ pending.pax = None => \A j \in Extends : archive[j].type # "x"
  /\ pending.pax # None =>
       \E j \in Extends : /\ archive[j] = pending.pax /\ archive[j].type = "x"
                          /\ \A k \in Extends : archive[k].type = "x" => k = j
  /\ pending.path = None => \A j \in Extends : archive[j].type # "L"
  /\ pending.path # None =>
       \E j \in Extends : /\ archive[j].path = pending.path /\ archive[j].type = "L"
                          /\ \A k \in Extends : archive[k].type = "L" => k = j

EntriesSound ==
  /\ root = None => \A i \in DOMAIN archive : ~M!Contained(i)
  /\ \A i \in DOMAIN archive : M!Contained(i) =>
       /\ NameInspected(M!PathGiven(i))
       /\ archive[i].type = "0" /\ Len(M!PathGiven(i)) > 1 =>
            /\ M!Relative(M!PathGiven(i)) \in DOMAIN paths
            /\ paths[M!Relative(M!PathGiven(i))] = "0"
  /\ \A p \in DOMAIN paths : paths[p] = "0" =>
       \E i \in DOMAIN archive :
         /\ archive[i].type = "0" /\ Len(M!PathGiven(i)) > 1
         /\ M!Relative(M!PathGiven(i)) = p

ArchiveSound ==
  /\ archive \in Seq(Headers) /\ Len(archive) <= MaxHeaders
  /\ bytes \in 0..MaxBytes
  /\ IsFiniteSet(DOMAIN paths) /\ Cardinality(DOMAIN paths) <= MaxEntries
  /\ \A p \in DOMAIN paths : paths[p] \in {"0", "5"}
  /\ step \in {"start", "inspect"} => PendingSound
  /\ step \in Inspecting => EntriesSound

LEMMA HeaderParts ==
  ASSUME M!MaterializerAssumption, NEW h \in Headers
  PROVE  /\ h # None /\ h.type \in {"0", "5", "x", "g", "L", "K", "2"}
         /\ h.path \in Seq(STRING) \union {None} /\ h.size \in Nat \union {None}
         /\ h.type \notin {"x", "g"} => h.path \in Seq(STRING) /\ h.size \in Nat
         /\ h.type \notin {"x", "g"} => h.path # None
         /\ h.path # None => \A i \in DOMAIN h.path : h.path[i] # None
BY DEF M!MaterializerAssumption, M!Header

(* A header that is appended changes the name of no earlier entry.         *)
LEMMA ContainedKept ==
  ASSUME archive \in Seq(Headers), NEW h \in Headers, archive' = Append(archive, h),
         NEW i \in DOMAIN archive
  PROVE  /\ i \in DOMAIN archive' /\ archive'[i] = archive[i]
         /\ M!Contained(i)' <=> M!Contained(i)
<1>1. i \in DOMAIN archive' /\ archive'[i] = archive[i]
  OBVIOUS
<1> QED
  BY <1>1 DEF M!Contained

LEMMA ExtendingKept ==
  ASSUME archive \in Seq(Headers), NEW h \in Headers, archive' = Append(archive, h),
         NEW i \in DOMAIN archive
  PROVE  M!Extending(i)' = M!Extending(i)
<1>1. \A k \in 1..i - 1 : M!Contained(k)' <=> M!Contained(k)
  <2> TAKE k \in 1..i - 1
  <2>1. k \in DOMAIN archive
    OBVIOUS
  <2> QED
    BY <2>1, ContainedKept
<1>2. \A j \in 1..i - 1 : \A k \in j..i - 1 : k \in 1..i - 1
  OBVIOUS
<1> QED
  BY <1>1, <1>2 DEF M!Extending

LEMMA NameKept ==
  ASSUME archive \in Seq(Headers), NEW h \in Headers, archive' = Append(archive, h),
         NEW i \in DOMAIN archive
  PROVE  M!NameGiven(i)' = M!NameGiven(i)
<1>1. PICK before : before = M!Extending(i)
  OBVIOUS
<1>2. M!Extending(i)' = before
  BY <1>1, ExtendingKept
<1>3. \A j \in before : archive'[j] = archive[j]
  <2> TAKE j \in before
  <2>1. j \in DOMAIN archive
    BY <1>1 DEF M!Extending
  <2> QED
    BY <2>1
<1>4. archive'[i] = archive[i]
  OBVIOUS
<1> DEFINE pax == {j \in before : archive[j].type = "x" /\ archive[j].path # None}
           long == {j \in before : archive[j].type = "L"}
           laterPax == {j \in before : archive'[j].type = "x" /\ archive'[j].path # None}
           laterLong == {j \in before : archive'[j].type = "L"}
<1>5. laterPax = pax /\ laterLong = long
  BY <1>3
<1>6. M!NameGiven(i) = IF pax # {} THEN archive[CHOOSE j \in pax : TRUE].path
                       ELSE IF long # {} THEN archive[CHOOSE j \in long : TRUE].path
                       ELSE archive[i].path
  BY <1>1 DEF M!NameGiven
<1>7. M!NameGiven(i)' = IF laterPax # {} THEN archive'[CHOOSE j \in laterPax : TRUE].path
                        ELSE IF laterLong # {} THEN archive'[CHOOSE j \in laterLong : TRUE].path
                        ELSE archive'[i].path
  BY <1>2 DEF M!NameGiven
<1>8. pax \subseteq before /\ long \subseteq before
  OBVIOUS
<1> HIDE DEF pax, long, laterPax, laterLong
<1>9. M!NameGiven(i)' = IF pax # {} THEN archive'[CHOOSE j \in pax : TRUE].path
                        ELSE IF long # {} THEN archive'[CHOOSE j \in long : TRUE].path
                        ELSE archive'[i].path
  BY <1>5, <1>7
<1>10. CASE pax # {}
  <2>1. PICK chosen : chosen = CHOOSE j \in pax : TRUE
    OBVIOUS
  <2>2. chosen \in before
    BY <1>8, <1>10, <2>1
  <2> QED
    BY <1>3, <1>6, <1>9, <1>10, <2>1, <2>2
<1>11. CASE pax = {} /\ long # {}
  <2>1. PICK chosen : chosen = CHOOSE j \in long : TRUE
    OBVIOUS
  <2>2. chosen \in before
    BY <1>8, <1>11, <2>1
  <2> QED
    BY <1>3, <1>6, <1>9, <1>11, <2>1, <2>2
<1>12. CASE pax = {} /\ long = {}
  BY <1>4, <1>6, <1>9, <1>12
<1> QED
  BY <1>10, <1>11, <1>12

LEMMA PathKept ==
  ASSUME archive \in Seq(Headers), NEW h \in Headers, archive' = Append(archive, h),
         NEW i \in DOMAIN archive
  PROVE  M!PathGiven(i)' = M!PathGiven(i) /\ (M!MakesFile(i)' <=> M!MakesFile(i))
<1>1. M!NameGiven(i)' = M!NameGiven(i) /\ archive'[i] = archive[i]
  BY NameKept
<1> QED
  BY <1>1 DEF M!PathGiven, M!MakesFile, M!Normalized, M!EndsInSlash

LEMMA ExtendsTyped ==
  ASSUME archive \in Seq(Headers)
  PROVE  Extends \subseteq 1..Len(archive)
BY DEF Extends

(* What extends the header after the last, when one more is read.          *)
LEMMA NextExtends ==
  ASSUME archive \in Seq(Headers), NEW h \in Headers, archive' = Append(archive, h),
         NEW n, n = Len(archive) + 1
  PROVE  /\ M!Extending(n)' = Extends
         /\ Extends' = IF h.type \in {"0", "5"} THEN {} ELSE Extends \union {n}
         /\ Len(archive') = n /\ archive'[n] = h /\ n \in DOMAIN archive' /\ n \notin Extends
         /\ \A j \in Extends : archive'[j] = archive[j] /\ j \in DOMAIN archive
         /\ DOMAIN archive' = DOMAIN archive \union {n}
<1>1. /\ Len(archive) \in Nat /\ DOMAIN archive = 1..Len(archive) /\ n \in Nat
      /\ Len(archive') = n /\ DOMAIN archive' = 1..n /\ archive'[n] = h
      /\ \A j \in 1..Len(archive) : archive'[j] = archive[j]
  OBVIOUS
<1>2. \A k \in 1..Len(archive) : M!Contained(k)' <=> M!Contained(k)
  BY <1>1, ContainedKept
<1>3. M!Contained(n)' <=> h.type \in {"0", "5"}
  BY <1>1 DEF M!Contained
<1>4. Extends = {j \in 1..Len(archive) : \A k \in j..Len(archive) : ~M!Contained(k)}
  BY <1>1 DEF Extends
<1>5. M!Extending(n)' = {j \in 1..n - 1 : \A k \in j..n - 1 : ~M!Contained(k)'}
  BY DEF M!Extending
<1>6. 1..n - 1 = 1..Len(archive) /\ n - 1 = Len(archive)
  BY <1>1
<1>7. M!Extending(n)' = Extends
  BY <1>1, <1>2, <1>4, <1>5, <1>6
<1>8. Extends' = {j \in 1..n : \A k \in j..n : ~M!Contained(k)'}
  BY <1>1 DEF Extends
<1>9. CASE h.type \in {"0", "5"}
  <2>1. \A j \in 1..n : n \in j..n
    BY <1>1
  <2>2. Extends' = {}
    BY <1>3, <1>8, <1>9, <2>1
  <2> QED
    BY <1>1, <1>4, <1>7, <1>9, <2>2
<1>10. CASE h.type \notin {"0", "5"}
  <2>1. ~M!Contained(n)'
    BY <1>3, <1>10
  <2>2. ASSUME NEW j \in 1..n
        PROVE  j \in Extends' <=> j \in Extends \union {n}
    <3>1. j \in Extends' <=> \A k \in j..n : ~M!Contained(k)'
      BY <1>8
    <3>2. CASE j = n
      <4>1. \A k \in j..n : k = n
        BY <1>1, <3>2
      <4> QED
        BY <2>1, <3>1, <3>2, <4>1
    <3>3. CASE j # n
      <4>1. /\ j \in 1..Len(archive) /\ j..n = (j..Len(archive)) \union {n}
            /\ \A k \in j..Len(archive) : k \in 1..Len(archive)
        BY <1>1, <3>3
      <4>2. j \in Extends <=> \A k \in j..Len(archive) : ~M!Contained(k)
        BY <1>4, <4>1
      <4> QED
        BY <1>2, <2>1, <3>1, <3>3, <4>1, <4>2
    <3> QED
      BY <3>2, <3>3
  <2>3. Extends' \subseteq 1..n /\ Extends \union {n} \subseteq 1..n
    BY <1>1, <1>4, <1>8
  <2>4. Extends' = Extends \union {n}
    BY <2>2, <2>3
  <2> QED
    BY <1>1, <1>4, <1>7, <1>10, <2>4
<1> QED
  BY <1>9, <1>10

LEMMA NameFrom ==
  ASSUME NEW n, NEW before, M!Extending(n)' = before, NEW pax, NEW long,
         pax = {j \in before : archive'[j].type = "x" /\ archive'[j].path # None},
         long = {j \in before : archive'[j].type = "L"}
  PROVE  M!NameGiven(n)' = IF pax # {} THEN archive'[CHOOSE j \in pax : TRUE].path
                           ELSE IF long # {} THEN archive'[CHOOSE j \in long : TRUE].path
                           ELSE archive'[n].path
<1> DEFINE these == {j \in before : archive'[j].type = "x" /\ archive'[j].path # None}
           those == {j \in before : archive'[j].type = "L"}
<1>1. M!NameGiven(n)' = IF these # {} THEN archive'[CHOOSE j \in these : TRUE].path
                        ELSE IF those # {} THEN archive'[CHOOSE j \in those : TRUE].path
                        ELSE archive'[n].path
  BY DEF M!NameGiven
<1>2. these = pax /\ those = long
  OBVIOUS
<1> HIDE DEF these, those
<1> QED
  BY <1>1, <1>2

(* The name tar gives the next entry is the one that is inspected.         *)
LEMMA NameOfNext ==
  ASSUME M!MaterializerAssumption, archive \in Seq(Headers), PendingSound,
         NEW h \in Headers, archive' = Append(archive, h),
         NEW n, n = Len(archive) + 1
  PROVE  M!NameGiven(n)' = M!NameOf(h)
<1>7. PICK before : before = Extends
  OBVIOUS
<1> DEFINE pax == {j \in before : archive'[j].type = "x" /\ archive'[j].path # None}
           long == {j \in before : archive'[j].type = "L"}
<1>8. M!Extending(n)' = before
  BY <1>7, NextExtends
<1>1. /\ M!Extending(n)' = Extends /\ archive'[n] = h
      /\ \A j \in Extends : archive'[j] = archive[j] /\ j \in DOMAIN archive
  BY NextExtends
<1>2. M!NameGiven(n)' = IF pax # {} THEN archive'[CHOOSE j \in pax : TRUE].path
                        ELSE IF long # {} THEN archive'[CHOOSE j \in long : TRUE].path
                        ELSE archive'[n].path
  BY <1>8, NameFrom
<1>3. pax = {j \in Extends : archive[j].type = "x" /\ archive[j].path # None}
  BY <1>1, <1>7
<1>4. long = {j \in Extends : archive[j].type = "L"}
  BY <1>1, <1>7
<1> HIDE DEF pax, long
<1>5. CASE pending.pax # None /\ pending.pax.path # None
  <2>1. PICK j \in Extends : /\ archive[j] = pending.pax /\ archive[j].type = "x"
                             /\ \A k \in Extends : archive[k].type = "x" => k = j
    BY <1>5 DEF PendingSound
  <2>2. pax = {j}
    BY <1>3, <1>5, <2>1
  <2>3. (CHOOSE k \in pax : TRUE) = j
    BY <2>2
  <2> QED
    BY <1>1, <1>2, <1>5, <2>1, <2>2, <2>3 DEF M!NameOf
<1>6. CASE ~(pending.pax # None /\ pending.pax.path # None)
  <2>1. pax = {}
    BY <1>3, <1>6 DEF PendingSound
  <2>2. CASE pending.path # None
    <3>1. PICK j \in Extends : /\ archive[j].path = pending.path /\ archive[j].type = "L"
                               /\ \A k \in Extends : archive[k].type = "L" => k = j
      BY <2>2 DEF PendingSound
    <3>2. long = {j}
      BY <1>4, <3>1
    <3>3. (CHOOSE k \in long : TRUE) = j
      BY <3>2
    <3> QED
      BY <1>1, <1>2, <1>6, <2>1, <2>2, <3>1, <3>2, <3>3 DEF M!NameOf
  <2>3. CASE pending.path = None
    <3>1. long = {}
      BY <1>4, <2>3 DEF PendingSound
    <3> QED
      BY <1>1, <1>2, <1>6, <2>1, <2>3, <3>1 DEF M!NameOf
  <2> QED
    BY <2>2, <2>3
<1> QED
  BY <1>5, <1>6

(* The name and the size an entry is inspected under.                      *)
LEMMA NameTyped ==
  ASSUME M!MaterializerAssumption, archive \in Seq(Headers), PendingSound,
         NEW h \in Headers, h.type \in {"0", "5"}
  PROVE  /\ M!NameOf(h) \in Seq(STRING) /\ M!SizeOf(h) \in Nat
         /\ \A i \in DOMAIN M!NameOf(h) : M!NameOf(h)[i] # None
<1>1. /\ h.path \in Seq(STRING) /\ h.size \in Nat /\ h.path # None
      /\ \A i \in DOMAIN h.path : h.path[i] # None
  BY HeaderParts
<1>2. M!SizeOf(h) \in Nat
  <2>1. pending.pax # None => pending.pax.size \in Nat \union {None}
    BY HeaderParts DEF PendingSound
  <2> QED
    BY <1>1, <2>1 DEF M!SizeOf
<1>3. CASE pending.pax # None /\ pending.pax.path # None
  <2>1. PICK g \in Headers : g = pending.pax
    BY <1>3 DEF PendingSound
  <2>2. /\ g.path \in Seq(STRING) /\ \A i \in DOMAIN g.path : g.path[i] # None
        /\ M!NameOf(h) = g.path
    BY <1>3, <2>1, HeaderParts DEF M!NameOf
  <2> QED
    BY <1>2, <2>2
<1>4. CASE ~(pending.pax # None /\ pending.pax.path # None) /\ pending.path # None
  <2>1. PICK j \in Extends : archive[j].path = pending.path /\ archive[j].type = "L"
    BY <1>4 DEF PendingSound
  <2>2. PICK g \in Headers : g = archive[j]
    BY <2>1 DEF Extends
  <2>3. /\ g.path \in Seq(STRING) /\ \A i \in DOMAIN g.path : g.path[i] # None
        /\ M!NameOf(h) = g.path
    BY <1>4, <2>1, <2>2, HeaderParts DEF M!NameOf
  <2> QED
    BY <1>2, <2>3
<1>5. CASE ~(pending.pax # None /\ pending.pax.path # None) /\ pending.path = None
  BY <1>1, <1>2, <1>5 DEF M!NameOf
<1> QED
  BY <1>3, <1>4, <1>5

LEMMA NormalizedTyped ==
  ASSUME NEW name \in Seq(STRING), \A i \in DOMAIN name : name[i] # None
  PROVE  /\ M!Normalized(name) \in Seq(STRING)
         /\ \A i \in DOMAIN M!Normalized(name) : M!Normalized(name)[i] # None
<1>1. CASE M!EndsInSlash(name)
  <2> DEFINE m == Len(name)
  <2>1. m > 0
    BY <1>1, Zenon DEF M!EndsInSlash
  <2>2. PICK n \in Nat : n = m - 1
    BY <2>1
  <2>3. M!Normalized(name) = SubSeq(name, 1, n)
    BY <1>1, <2>2 DEF M!Normalized
  <2>4. \A i \in 1..n : i \in DOMAIN name /\ name[i] \in STRING /\ name[i] # None
    BY <2>2
  <2>5. SubSeq(name, 1, n) = [i \in 1..n |-> name[i]]
    BY <2>2
  <2>6. SubSeq(name, 1, n) \in Seq(STRING)
    BY <2>1, <2>4, <2>5
  <2>7. DOMAIN SubSeq(name, 1, n) = 1..n
    BY <2>5
  <2> QED
    BY <2>3, <2>4, <2>5, <2>6, <2>7
<1>2. CASE ~M!EndsInSlash(name)
  BY <1>2 DEF M!Normalized
<1> QED
  BY <1>1, <1>2

(* An entry that is not refused.                                           *)
LEMMA EntryAccepted ==
  ASSUME M!MaterializerAssumption, NEW h, M!EntryRefusal(h) = None,
         NEW q, q = M!Normalized(M!NameOf(h))
  PROVE  /\ ~M!Escapes(q) /\ ~M!Unsupported(q)
         /\ root # None => q[1] = root
         /\ h.type = "0" => ~(bytes + M!SizeOf(h) > MaxBytes)
         /\ M!Relative(q) \notin DOMAIN paths
         /\ M!Relative(q) # <<>> => ~(Cardinality(DOMAIN paths) >= MaxEntries)
<1>1. None \notin {"invalid_archive", "unsupported_source", "archive_limits_exceeded"}
  BY DEF M!MaterializerAssumption
<1> DEFINE number == M!Cardinality(DOMAIN paths)
<1>2. (IF pending.pax # None /\ pending.pax.link THEN "invalid_archive"
       ELSE IF M!Escapes(q) THEN "invalid_archive"
       ELSE IF M!Unsupported(q) THEN "unsupported_source"
       ELSE IF root # None /\ q[1] # root THEN "invalid_archive"
       ELSE IF h.type = "5" /\ M!SizeOf(h) # 0 THEN "invalid_archive"
       ELSE IF h.type = "0" /\ (M!SizeOf(h) > MaxFile \/ bytes + M!SizeOf(h) > MaxBytes)
            THEN "archive_limits_exceeded"
       ELSE IF M!Relative(q) \in DOMAIN paths THEN "invalid_archive"
       ELSE IF M!Relative(q) # <<>> /\ number >= MaxEntries THEN "archive_limits_exceeded"
       ELSE None) = None
  BY DEF M!EntryRefusal
<1>3. number = Cardinality(DOMAIN paths)
  BY DEF M!Cardinality, Cardinality
<1> HIDE DEF number
<1> QED
  BY <1>1, <1>2, <1>3

LEMMA NameInspectedKept ==
  ASSUME NEW q, NameInspected(q), root' = root
  PROVE  NameInspected(q)'
BY DEF NameInspected, M!Escapes, M!Unsupported, M!Relative

LEMMA EntryReadSound ==
  ASSUME M!MaterializerAssumption, ArchiveSound, step = "inspect",
         NEW h \in Headers, M!Entry(h), M!EntryRefusal(h) = None
  PROVE  ArchiveSound'
<1>1. /\ archive \in Seq(Headers) /\ PendingSound /\ EntriesSound
      /\ IsFiniteSet(DOMAIN paths) /\ Cardinality(DOMAIN paths) <= MaxEntries
      /\ bytes \in 0..MaxBytes /\ MaxBytes \in Nat /\ MaxEntries \in Nat /\ MaxHeaders \in Nat
      /\ \A p \in DOMAIN paths : paths[p] \in {"0", "5"}
  BY DEF ArchiveSound, Inspecting, M!MaterializerAssumption
<1>2. PICK q : q = M!Normalized(M!NameOf(h))
  OBVIOUS
<1>3. PICK rest : rest = M!Relative(q)
  OBVIOUS
<1>4. PICK n : n = Len(archive) + 1
  OBVIOUS
<1>5. /\ archive' = Append(archive, h) /\ Len(archive) < MaxHeaders /\ h.type \in {"0", "5"}
      /\ pending' = M!NoPending /\ root' = q[1] /\ UNCHANGED step
      /\ bytes' = IF h.type = "0" THEN bytes + M!SizeOf(h) ELSE bytes
      /\ paths' = IF rest = <<>> THEN paths
                  ELSE [p \in DOMAIN paths \union {rest} |->
                          IF p = rest THEN h.type ELSE paths[p]]
  BY <1>2, <1>3 DEF M!Entry, M!Read
<1>6. /\ q \in Seq(STRING) /\ M!SizeOf(h) \in Nat
      /\ \A i \in DOMAIN q : q[i] # None
  BY <1>1, <1>2, <1>5, NameTyped, NormalizedTyped
<1>7. /\ ~M!Escapes(q) /\ ~M!Unsupported(q)
      /\ root # None => q[1] = root
      /\ h.type = "0" => ~(bytes + M!SizeOf(h) > MaxBytes)
      /\ rest \notin DOMAIN paths
      /\ rest # <<>> => ~(Cardinality(DOMAIN paths) >= MaxEntries)
  BY <1>2, <1>3, EntryAccepted
<1>8. q[1] # None /\ (Len(q) > 1 <=> rest # <<>>)
  <2>1. q # <<>>
    BY <1>7 DEF M!Escapes
  <2> QED
    BY <1>3, <1>6, <2>1 DEF M!Relative
<1>9. /\ Extends' = {} /\ Len(archive') = n /\ archive'[n] = h
      /\ DOMAIN archive' = DOMAIN archive \union {n}
  BY <1>1, <1>4, <1>5, NextExtends
<1>10. M!PathGiven(n)' = q
  <2>1. M!NameGiven(n)' = M!NameOf(h)
    BY <1>1, <1>4, <1>5, NameOfNext
  <2> QED
    BY <1>2, <2>1 DEF M!PathGiven, M!Normalized, M!EndsInSlash
<1>11. NameInspected(q)'
  BY <1>5, <1>6, <1>7 DEF NameInspected, M!Escapes, M!Unsupported, M!Relative
<1>12. /\ DOMAIN paths \subseteq DOMAIN paths'
       /\ \A p \in DOMAIN paths : paths'[p] = paths[p]
       /\ rest # <<>> => rest \in DOMAIN paths' /\ paths'[rest] = h.type
       /\ \A p \in DOMAIN paths' : p \in DOMAIN paths \/ (rest # <<>> /\ p = rest)
  BY <1>5, <1>7
<1>13. PendingSound'
  BY <1>5, <1>9 DEF PendingSound, M!NoPending
<1>14. ASSUME NEW i \in DOMAIN archive, M!Contained(i)
       PROVE  /\ M!Contained(i)' /\ M!PathGiven(i)' = M!PathGiven(i)
              /\ archive'[i] = archive[i] /\ NameInspected(M!PathGiven(i))
              /\ NameInspected(M!PathGiven(i))'
  <2>1. PICK name : name = M!PathGiven(i)
    OBVIOUS
  <2>2. M!PathGiven(i)' = name
    BY <1>1, <1>5, <2>1, PathKept
  <2>3. root # None /\ NameInspected(name)
    BY <1>1, <1>14, <2>1 DEF EntriesSound
  <2>4. root' = root
    BY <1>5, <1>7, <2>3
  <2>5. NameInspected(name)'
    BY <2>3, <2>4, NameInspectedKept
  <2>6. NameInspected(M!PathGiven(i))'
    BY <2>2, <2>5 DEF NameInspected, M!Escapes, M!Unsupported, M!Relative
  <2> QED
    BY <1>1, <1>5, <1>14, <2>1, <2>2, <2>3, <2>6, ContainedKept
<1>15. M!Contained(n)' /\ NameInspected(M!PathGiven(n))'
  BY <1>5, <1>9, <1>10, <1>11
     DEF M!Contained, NameInspected, M!Escapes, M!Unsupported, M!Relative
<1>16. ASSUME NEW i \in DOMAIN archive', M!Contained(i)'
       PROVE  /\ NameInspected(M!PathGiven(i))'
              /\ archive'[i].type = "0" /\ Len(M!PathGiven(i)') > 1 =>
                   /\ M!Relative(M!PathGiven(i)') \in DOMAIN paths'
                   /\ paths'[M!Relative(M!PathGiven(i)')] = "0"
  <2>1. CASE i = n
    BY <1>3, <1>8, <1>9, <1>10, <1>12, <1>15, <2>1
  <2>2. CASE i \in DOMAIN archive
    <3>1. M!Contained(i)
      BY <1>1, <1>5, <1>16, <2>2, ContainedKept
    <3>2. /\ M!PathGiven(i)' = M!PathGiven(i) /\ NameInspected(M!PathGiven(i))'
          /\ archive'[i] = archive[i]
      BY <1>14, <2>2, <3>1
    <3> QED
      BY <1>1, <1>12, <2>2, <3>1, <3>2 DEF EntriesSound
  <2> QED
    BY <1>9, <2>1, <2>2
<1>17. ASSUME NEW p \in DOMAIN paths', paths'[p] = "0"
       PROVE  \E i \in DOMAIN archive' :
                /\ archive'[i].type = "0" /\ Len(M!PathGiven(i)') > 1
                /\ M!Relative(M!PathGiven(i)') = p
  <2>1. CASE p \in DOMAIN paths
    <3>1. PICK i \in DOMAIN archive :
            /\ archive[i].type = "0" /\ Len(M!PathGiven(i)) > 1
            /\ M!Relative(M!PathGiven(i)) = p
      BY <1>1, <1>12, <1>17, <2>1 DEF EntriesSound
    <3>2. M!Contained(i)
      BY <3>1 DEF M!Contained
    <3> QED
      BY <1>9, <1>14, <3>1, <3>2
  <2>2. CASE rest # <<>> /\ p = rest
    BY <1>3, <1>8, <1>9, <1>10, <1>12, <1>17, <2>2
  <2> QED
    BY <1>12, <2>1, <2>2
<1>18. EntriesSound'
  BY <1>5, <1>8, <1>16, <1>17 DEF EntriesSound, M!Relative
<1>19. IsFiniteSet(DOMAIN paths') /\ Cardinality(DOMAIN paths') <= MaxEntries
  <2>1. CASE rest = <<>>
    BY <1>1, <1>5, <2>1
  <2>2. CASE rest # <<>>
    <3>1. PICK before : before = DOMAIN paths
      OBVIOUS
    <3>2. DOMAIN paths' = before \union {rest}
      BY <1>5, <2>2, <3>1
    <3>3. Cardinality(before) \in Nat /\ Cardinality(before) < MaxEntries
      BY <1>1, <1>7, <2>2, <3>1, FS_CardinalityType
    <3>4. /\ IsFiniteSet(before \union {rest})
          /\ Cardinality(before \union {rest}) = Cardinality(before) + 1
      BY <1>1, <1>7, <3>1, FS_AddElement
    <3> QED
      BY <1>1, <3>2, <3>3, <3>4
  <2> QED
    BY <2>1, <2>2
<1>20. bytes' \in 0..MaxBytes
  BY <1>1, <1>5, <1>6, <1>7
<1>21. \A p \in DOMAIN paths' : paths'[p] \in {"0", "5"}
  BY <1>1, <1>5, <1>12
<1>22. archive' \in Seq(Headers) /\ Len(archive') <= MaxHeaders
  BY <1>1, <1>5
<1> QED
  BY <1>13, <1>18, <1>19, <1>20, <1>21, <1>22 DEF ArchiveSound

(* A header that ends the inspection, and one that extends the next entry. *)
LEMMA InspectionFails ==
  ASSUME M!MaterializerAssumption, ArchiveSound, step = "inspect",
         NEW h \in Headers, M!Read(h), UNCHANGED <<paths, bytes>>,
         step' \notin Inspecting
  PROVE  ArchiveSound'
BY DEF ArchiveSound, M!Read, M!MaterializerAssumption, Inspecting

LEMMA ExtendedHeaderSound ==
  ASSUME M!MaterializerAssumption, ArchiveSound, NEW h \in Headers, M!ExtendedHeader(h)
  PROVE  ArchiveSound'
<1>1. /\ archive \in Seq(Headers) /\ PendingSound /\ EntriesSound /\ step = "inspect"
      /\ archive' = Append(archive, h) /\ h.type \in {"x", "g", "L"} /\ M!Read(h)
      /\ UNCHANGED <<paths, root, bytes>>
  BY DEF ArchiveSound, M!ExtendedHeader, M!Read, Inspecting
<1>2. CASE step' # step
  <2>1. step' \notin Inspecting
    BY <1>1, <1>2 DEF M!ExtendedHeader, M!Fail, Inspecting
  <2> QED
    BY <1>1, <2>1, InspectionFails
<1>3. CASE step' = step
  <2>1. PICK n : n = Len(archive) + 1
    OBVIOUS
  <2>2. /\ Extends' = Extends \union {n} /\ archive'[n] = h /\ n \in DOMAIN archive'
        /\ \A j \in Extends : archive'[j] = archive[j] /\ j \in DOMAIN archive
        /\ DOMAIN archive' = DOMAIN archive \union {n} /\ n \notin Extends
    BY <1>1, <2>1, NextExtends
  <2>3. PICK one \in [path : {None} \union Seq(STRING), pax : {None} \union Headers] :
          one = pending
    BY <1>1 DEF PendingSound
  <2>4. /\ h.type = "x" => one.pax = None /\ pending' = [one EXCEPT !.pax = h]
        /\ h.type = "L" => one.path = None /\ pending' = [one EXCEPT !.path = h.path]
        /\ h.type = "g" => pending' = one
    BY <1>1, <1>3, <2>3 DEF M!ExtendedHeader, M!Fail
  <2>5. PendingSound'
    <3>1. h # None /\ (h.type = "L" => h.path \in Seq(STRING) /\ h.path # None)
      BY HeaderParts
    <3>2. CASE h.type = "x"
      <4>1. /\ pending' \in [path : {None} \union Seq(STRING), pax : {None} \union Headers]
            /\ pending'.pax = h /\ pending'.path = one.path /\ one.pax = None
        BY <2>4, <3>2
      <4> QED
        BY <1>1, <2>2, <2>3, <3>1, <3>2, <4>1 DEF PendingSound
    <3>3. CASE h.type = "L"
      <4>1. /\ pending' \in [path : {None} \union Seq(STRING), pax : {None} \union Headers]
            /\ pending'.path = h.path /\ pending'.pax = one.pax /\ one.path = None
        BY <2>4, <3>1, <3>3
      <4>2. \E j \in Extends' : /\ archive'[j].path = pending'.path /\ archive'[j].type = "L"
                                /\ \A k \in Extends' : archive'[k].type = "L" => k = j
        BY <1>1, <2>2, <2>3, <3>3, <4>1 DEF PendingSound
      <4>3. pending'.pax = None => \A j \in Extends' : archive'[j].type # "x"
        BY <1>1, <2>2, <2>3, <3>3, <4>1 DEF PendingSound
      <4>4. pending'.pax # None =>
              \E j \in Extends' : /\ archive'[j] = pending'.pax /\ archive'[j].type = "x"
                                  /\ \A k \in Extends' : archive'[k].type = "x" => k = j
        BY <1>1, <2>2, <2>3, <3>3, <4>1 DEF PendingSound
      <4> QED
        BY <3>1, <3>3, <4>1, <4>2, <4>3, <4>4 DEF PendingSound
    <3>4. CASE h.type = "g"
      <4>1. pending' = pending
        BY <2>3, <2>4, <3>4
      <4>2. pending.path = None => \A j \in Extends' : archive'[j].type # "L"
        BY <1>1, <2>2, <3>4 DEF PendingSound
      <4>3. pending.pax = None => \A j \in Extends' : archive'[j].type # "x"
        BY <1>1, <2>2, <3>4 DEF PendingSound
      <4>4. pending.pax # None =>
              \E j \in Extends' : /\ archive'[j] = pending.pax /\ archive'[j].type = "x"
                                  /\ \A k \in Extends' : archive'[k].type = "x" => k = j
        BY <1>1, <2>2, <3>4 DEF PendingSound
      <4>5. pending.path # None =>
              \E j \in Extends' : /\ archive'[j].path = pending.path /\ archive'[j].type = "L"
                                  /\ \A k \in Extends' : archive'[k].type = "L" => k = j
        BY <1>1, <2>2, <3>4 DEF PendingSound
      <4> QED
        BY <1>1, <4>1, <4>2, <4>3, <4>4, <4>5 DEF PendingSound
    <3> QED
      BY <1>1, <3>2, <3>3, <3>4
  <2>6. ~M!Contained(n)'
    BY <1>1, <2>2 DEF M!Contained
  <2>7. ASSUME NEW i \in DOMAIN archive
        PROVE  /\ M!Contained(i)' <=> M!Contained(i)
               /\ M!PathGiven(i)' = M!PathGiven(i) /\ archive'[i] = archive[i]
    BY <1>1, PathKept, ContainedKept
  <2>8. EntriesSound'
    <3>1. root' = None => \A i \in DOMAIN archive' : ~M!Contained(i)'
      BY <1>1, <2>2, <2>6, <2>7 DEF EntriesSound
    <3>2. ASSUME NEW i \in DOMAIN archive', M!Contained(i)'
          PROVE  /\ NameInspected(M!PathGiven(i))'
                 /\ archive'[i].type = "0" /\ Len(M!PathGiven(i)') > 1 =>
                      /\ M!Relative(M!PathGiven(i)') \in DOMAIN paths'
                      /\ paths'[M!Relative(M!PathGiven(i)')] = "0"
      <4>1. i \in DOMAIN archive /\ M!Contained(i)
        BY <2>2, <2>6, <2>7, <3>2
      <4>2. PICK name : name = M!PathGiven(i)
        OBVIOUS
      <4>3. NameInspected(name)'
        BY <1>1, <4>1, <4>2, NameInspectedKept DEF EntriesSound
      <4>4. M!PathGiven(i)' = name
        BY <2>7, <4>1, <4>2
      <4>5. NameInspected(M!PathGiven(i))'
        BY <4>3, <4>4 DEF NameInspected, M!Escapes, M!Unsupported, M!Relative
      <4> QED
        BY <1>1, <2>7, <4>1, <4>5 DEF EntriesSound
    <3>3. ASSUME NEW p \in DOMAIN paths', paths'[p] = "0"
          PROVE  \E i \in DOMAIN archive' :
                   /\ archive'[i].type = "0" /\ Len(M!PathGiven(i)') > 1
                   /\ M!Relative(M!PathGiven(i)') = p
      BY <1>1, <2>2, <2>7, <3>3 DEF EntriesSound
    <3> QED
      BY <3>1, <3>2, <3>3 DEF EntriesSound, M!Relative
  <2> QED
    BY <1>1, <1>3, <2>5, <2>8
       DEF ArchiveSound, M!Read, M!MaterializerAssumption, Inspecting
<1> QED
  BY <1>2, <1>3

(* Whatever follows the last header leaves the inspection as it is.        *)
LEMMA InspectionKept ==
  ASSUME ArchiveSound, UNCHANGED M!inspection,
         step' \in {"start", "inspect"} => step \in {"start", "inspect"},
         step' \in Inspecting => step \in Inspecting
  PROVE  ArchiveSound'
<1>1. UNCHANGED <<archive, pending, paths, root, bytes>>
  BY DEF M!inspection
<1>2. PendingSound => PendingSound'
  BY <1>1 DEF PendingSound, Extends, M!Contained
<1>3. ASSUME NEW i PROVE M!PathGiven(i)' = M!PathGiven(i)
  BY <1>1 DEF M!PathGiven, M!Normalized, M!EndsInSlash, M!NameGiven, M!Extending,
              M!Contained
<1>4. ASSUME NEW i, NameInspected(M!PathGiven(i)) PROVE NameInspected(M!PathGiven(i))'
  <2>1. PICK name : name = M!PathGiven(i)
    OBVIOUS
  <2>2. NameInspected(name)'
    BY <1>1, <1>4, <2>1, NameInspectedKept
  <2>3. M!PathGiven(i)' = name
    BY <1>3, <2>1
  <2> QED
    BY <2>2, <2>3 DEF NameInspected, M!Escapes, M!Unsupported, M!Relative
<1>5. EntriesSound => EntriesSound'
  BY <1>1, <1>3, <1>4 DEF EntriesSound, M!Contained, M!Relative
<1> QED
  BY <1>1, <1>2, <1>5 DEF ArchiveSound, Inspecting

(* Tar writes what was inspected.                                          *)
LEMMA ExtractedInspected ==
  ASSUME ArchiveSound, EntriesSound
  PROVE  /\ M!SourceFiles \subseteq {p \in DOMAIN paths : paths[p] = "0"}
         /\ \A p \in DOMAIN paths \ M!SourceFiles :
              paths[p] = "0" => \E q \in M!DirectoriesMade : p = M!Relative(q)
         /\ \A q \in M!FilesExtracted \union M!DirectoriesMade :
              ~M!Escapes(q) /\ ~M!Unsupported(q) /\ q[1] = root
<1>1. ASSUME NEW q \in M!FilesExtracted
      PROVE  \E i \in DOMAIN archive : M!MakesFile(i) /\ q = M!PathGiven(i) /\ Len(q) > 1
  BY DEF M!FilesExtracted
<1>2. ASSUME NEW q \in M!FilesExtracted
      PROVE  /\ ~M!Escapes(q) /\ ~M!Unsupported(q) /\ q[1] = root
             /\ M!Relative(q) \in DOMAIN paths /\ paths[M!Relative(q)] = "0"
  <2>1. PICK i \in DOMAIN archive : M!MakesFile(i) /\ q = M!PathGiven(i) /\ Len(q) > 1
    BY <1>1
  <2>2. archive[i].type = "0" /\ M!Contained(i)
    BY <2>1 DEF M!MakesFile, M!Contained
  <2> QED
    BY <2>1, <2>2 DEF EntriesSound, NameInspected
<1>3. ASSUME NEW q \in M!DirectoriesMade
      PROVE  ~M!Escapes(q) /\ ~M!Unsupported(q) /\ q[1] = root
  <2>1. PICK i \in DOMAIN archive : M!Contained(i) /\ q = M!PathGiven(i)
    BY DEF M!DirectoriesMade
  <2> QED
    BY <2>1 DEF EntriesSound, NameInspected
<1>4. ASSUME NEW p \in DOMAIN paths \ M!SourceFiles, paths[p] = "0"
      PROVE  \E q \in M!DirectoriesMade : p = M!Relative(q)
  <2>1. PICK i \in DOMAIN archive :
          /\ archive[i].type = "0" /\ Len(M!PathGiven(i)) > 1
          /\ M!Relative(M!PathGiven(i)) = p
    BY <1>4 DEF EntriesSound
  <2>2. ~M!MakesFile(i)
    <3> SUFFICES ASSUME M!MakesFile(i) PROVE FALSE
      OBVIOUS
    <3>1. M!PathGiven(i) \in M!FilesExtracted
      BY <2>1 DEF M!FilesExtracted
    <3> QED
      BY <1>4, <2>1, <3>1 DEF M!SourceFiles
  <2>3. M!PathGiven(i) \in M!DirectoriesMade
    BY <2>1, <2>2 DEF M!DirectoriesMade, M!Contained
  <2> QED
    BY <2>1, <2>3
<1> QED
  BY <1>2, <1>3, <1>4 DEF M!SourceFiles

(* What each step of materialize knows of the sandbox.                     *)
Inventoried == {"mutate", "lock", "verify", "download", "materialized"}
Extracted == {"parse", "inventory"} \union Inventoried
Inspected == {"upload", "extract"} \union Extracted

TreeSound ==
  /\ uploaded \in BOOLEAN
  /\ step \in Inspected => ~M!FileAsParent
  /\ step \in {"extract"} \union Extracted => uploaded
  /\ step \in {"parse", "inventory", "mutate"} =>
       /\ DOMAIN tree = M!SourceFiles
       /\ \A p \in M!SourceFiles \ {M!Manifest} : tree[p] = "as archived"
       /\ M!Manifest \in M!SourceFiles => tree[M!Manifest] \in M!Manifests
  /\ step \in {"inventory"} \union Inventoried =>
       M!Manifest \in M!SourceFiles /\ original \in M!Manifests
  /\ step \in Inventoried =>
       /\ DOMAIN baseline = M!SourceFiles
       /\ \A p \in M!SourceFiles \ {M!Manifest} : baseline[p] = "as archived"
  /\ step = "lock" => M!Manifest \in DOMAIN tree
  /\ step \in {"verify", "download", "materialized"} =>
       {M!Manifest, M!Lock} \subseteq DOMAIN tree /\ tree[M!Manifest] \in M!Manifests
  /\ step \in {"download", "materialized"} => M!Unexpected = {}
  /\ step = "materialized" => M!AsOperated

MaterializerSound == ArchiveSound /\ TreeSound

LEMMA FilesKept ==
  ASSUME UNCHANGED M!inspection
  PROVE  M!SourceFiles' = M!SourceFiles /\ (M!FileAsParent' <=> M!FileAsParent)
<1>1. UNCHANGED <<archive, paths>>
  BY DEF M!inspection
<1>2. \A i : M!PathGiven(i)' = M!PathGiven(i) /\ (M!MakesFile(i)' <=> M!MakesFile(i))
  BY <1>1 DEF M!PathGiven, M!MakesFile, M!Normalized, M!EndsInSlash, M!NameGiven, M!Extending,
              M!Contained
<1>3. M!FilesExtracted' = M!FilesExtracted
  BY <1>1, <1>2 DEF M!FilesExtracted
<1> QED
  BY <1>1, <1>3 DEF M!SourceFiles, M!Relative, M!FileAsParent

(* A step that has failed is the last.                                     *)
LEMMA StepFails ==
  ASSUME MaterializerSound, UNCHANGED <<M!inspection, M!sandbox>>,
         step' \notin Inspecting, step' \notin Inspected
  PROVE  MaterializerSound'
<1>1. ArchiveSound'
  BY InspectionKept DEF MaterializerSound, Inspecting
<1>2. TreeSound'
  BY DEF MaterializerSound, TreeSound, M!sandbox, Inspected, Extracted, Inventoried
<1> QED
  BY <1>1, <1>2 DEF MaterializerSound

LEMMA HeaderReadSound ==
  ASSUME M!MaterializerAssumption, MaterializerSound, NEW h \in Headers,
         M!RejectHeader(h) \/ M!ExtendedHeader(h) \/ M!Entry(h)
  PROVE  MaterializerSound'
<1>1. step = "inspect" /\ UNCHANGED M!sandbox /\ M!Read(h) /\ ArchiveSound /\ TreeSound
  BY DEF M!RejectHeader, M!ExtendedHeader, M!Entry, M!Read, MaterializerSound
<1>2. CASE M!RejectHeader(h)
  <2>1. step' = "invalid_archive" /\ UNCHANGED <<paths, bytes>>
    BY <1>2 DEF M!RejectHeader, M!Fail
  <2>2. ArchiveSound'
    BY <1>1, <2>1, InspectionFails DEF Inspecting
  <2> QED
    BY <1>1, <2>1, <2>2 DEF MaterializerSound, TreeSound, M!sandbox, Inspected, Extracted,
                            Inventoried
<1>3. CASE M!ExtendedHeader(h)
  <2>1. ArchiveSound'
    BY <1>1, <1>3, ExtendedHeaderSound
  <2>2. step' \in {"inspect", "invalid_archive", "archive_limits_exceeded"}
    BY <1>1, <1>3 DEF M!ExtendedHeader, M!Fail
  <2> QED
    BY <1>1, <2>1, <2>2 DEF MaterializerSound, TreeSound, M!sandbox, Inspected, Extracted,
                            Inventoried
<1>4. CASE M!Entry(h) /\ M!EntryRefusal(h) = None
  <2>1. ArchiveSound'
    BY <1>1, <1>4, EntryReadSound
  <2>2. step' = "inspect"
    BY <1>1, <1>4 DEF M!Entry
  <2> QED
    BY <1>1, <2>1, <2>2 DEF MaterializerSound, TreeSound, M!sandbox, Inspected, Extracted,
                            Inventoried
<1>5. CASE M!Entry(h) /\ M!EntryRefusal(h) # None
  <2>1. /\ step' \in {"invalid_archive", "unsupported_source", "archive_limits_exceeded"}
        /\ UNCHANGED <<paths, bytes>>
    BY <1>5 DEF M!Entry, M!Fail, M!EntryRefusal
  <2>2. ArchiveSound'
    BY <1>1, <2>1, InspectionFails DEF Inspecting
  <2> QED
    BY <1>1, <2>1, <2>2 DEF MaterializerSound, TreeSound, M!sandbox, Inspected, Extracted,
                            Inventoried
<1> QED
  BY <1>2, <1>3, <1>4, <1>5

LEMMA MaterializerStarts ==
  ASSUME M!MaterializerAssumption, M!Init
  PROVE  MaterializerSound
<1> USE DEF M!Init
<1>1. DOMAIN paths = {} /\ DOMAIN archive = {} /\ Len(archive) = 0 /\ archive \in Seq(Headers)
  BY DEF M!NoFiles
<1>2. Extends = {}
  BY <1>1 DEF Extends
<1>3. PendingSound
  BY <1>2 DEF PendingSound, M!NoPending
<1>4. EntriesSound
  BY <1>1 DEF EntriesSound
<1>5. IsFiniteSet(DOMAIN paths) /\ Cardinality(DOMAIN paths) = 0
  BY <1>1, FS_EmptySet
<1>6. ArchiveSound
  BY <1>1, <1>3, <1>4, <1>5 DEF ArchiveSound, M!MaterializerAssumption
<1>7. TreeSound
  BY DEF TreeSound, Inspected, Extracted, Inventoried
<1> QED
  BY <1>6, <1>7 DEF MaterializerSound

LEMMA InspectionEnds ==
  ASSUME MaterializerSound,
         \/ \E s \in {"inspect", "archive_too_large", "archive_digest_mismatch"} : M!Start(s)
         \/ \E code \in {"invalid_archive", "archive_limits_exceeded"} : M!ReaderFails(code)
         \/ M!EndOfArchive \/ M!CommandFails
  PROVE  MaterializerSound'
<1>1. ArchiveSound /\ TreeSound
  BY DEF MaterializerSound
<1>2. CASE \E s \in {"inspect", "archive_too_large", "archive_digest_mismatch"} : M!Start(s)
  <2>1. /\ UNCHANGED <<M!inspection, M!sandbox>> /\ step = "start"
        /\ step' \in {"inspect", "archive_too_large", "archive_digest_mismatch"}
    BY <1>2 DEF M!Start, M!Fail
  <2>2. ArchiveSound'
    BY <1>1, <2>1, InspectionKept DEF Inspecting
  <2> QED
    BY <1>1, <2>1, <2>2 DEF MaterializerSound, TreeSound, M!sandbox, Inspected, Extracted,
                            Inventoried
<1>3. CASE \E code \in {"invalid_archive", "archive_limits_exceeded"} : M!ReaderFails(code)
  BY <1>3, StepFails DEF M!ReaderFails, M!Fail, Inspecting, Inspected, Extracted, Inventoried
<1>4. CASE M!CommandFails
  BY <1>4, StepFails DEF M!CommandFails, M!Fail, Inspecting, Inspected, Extracted, Inventoried
<1>5. CASE M!EndOfArchive /\ step' # "upload"
  BY <1>5, StepFails DEF M!EndOfArchive, Inspecting, Inspected, Extracted, Inventoried
<1>6. CASE M!EndOfArchive /\ step' = "upload"
  <2>1. /\ UNCHANGED <<M!inspection, M!sandbox>> /\ step = "inspect"
        /\ ~M!FileAsParent
    BY <1>6 DEF M!EndOfArchive
  <2>2. ArchiveSound'
    BY <1>1, <1>6, <2>1, InspectionKept DEF Inspecting
  <2>3. M!SourceFiles' = M!SourceFiles /\ (M!FileAsParent' <=> M!FileAsParent)
    BY <2>1, FilesKept
  <2>4. TreeSound'
    BY <1>1, <1>6, <2>1, <2>3 DEF TreeSound, M!sandbox, Inspected, Extracted, Inventoried,
                                  M!Manifest
  <2> QED
    BY <2>2, <2>4 DEF MaterializerSound
<1> QED
  BY <1>2, <1>3, <1>4, <1>5, <1>6

(* The archive is uploaded and extracted, the manifest parsed, and every   *)
(* file written down.                                                      *)
LEMMA SourceMade ==
  ASSUME MaterializerSound,
         \/ \E b \in BOOLEAN : M!Upload(b) \/ M!ParseManifest(b)
         \/ \E m \in M!Manifests : M!Extract(m)
         \/ M!TakeInventory
  PROVE  MaterializerSound'
<1>1. ArchiveSound /\ TreeSound /\ UNCHANGED M!inspection
  BY DEF MaterializerSound, M!Upload, M!ParseManifest, M!Extract, M!TakeInventory
<1>2. M!SourceFiles' = M!SourceFiles /\ (M!FileAsParent' <=> M!FileAsParent)
  BY <1>1, FilesKept
<1>3. CASE \E b \in BOOLEAN : M!Upload(b)
  <2>1. PICK b \in BOOLEAN : M!Upload(b)
    BY <1>3
  <2>2. /\ step = "upload" /\ uploaded' = b /\ UNCHANGED <<tree, baseline, original>>
        /\ b => step' = "extract"
        /\ ~b => step' = "archive_digest_mismatch"
    BY <2>1 DEF M!Upload, M!Fail
  <2>3. ArchiveSound'
    BY <1>1, <2>2, InspectionKept DEF Inspecting
  <2>4. TreeSound'
    BY <1>1, <1>2, <2>2 DEF TreeSound, Inspected, Extracted, Inventoried, M!Manifest
  <2> QED
    BY <2>3, <2>4 DEF MaterializerSound
<1>4. CASE \E m \in M!Manifests : M!Extract(m)
  <2>1. PICK m \in M!Manifests : M!Extract(m)
    BY <1>4
  <2>2. /\ step = "extract" /\ step' = "parse" /\ UNCHANGED <<uploaded, baseline, original>>
        /\ tree' = [p \in M!SourceFiles |-> IF p = M!Manifest THEN m ELSE "as archived"]
    BY <2>1 DEF M!Extract
  <2>3. ArchiveSound'
    BY <1>1, <2>2, InspectionKept DEF Inspecting
  <2>4. ~M!FileAsParent /\ uploaded
    BY <1>1, <2>2 DEF TreeSound, Inspected
  <2>5. /\ DOMAIN tree' = M!SourceFiles
        /\ \A p \in M!SourceFiles \ {M!Manifest} : tree'[p] = "as archived"
        /\ M!Manifest \in M!SourceFiles => tree'[M!Manifest] \in M!Manifests
    BY <2>2
  <2>6. TreeSound'
    BY <1>1, <1>2, <2>2, <2>4, <2>5
       DEF TreeSound, Inspected, Extracted, Inventoried, M!Manifest, M!Manifests
  <2> QED
    BY <2>3, <2>6 DEF MaterializerSound
<1>5. CASE \E b \in BOOLEAN : M!ParseManifest(b)
  <2>1. PICK b \in BOOLEAN : M!ParseManifest(b)
    BY <1>5
  <2>2. /\ step = "parse" /\ original' = tree[M!Manifest] /\ M!Manifest \in DOMAIN tree
        /\ UNCHANGED <<uploaded, tree, baseline>>
        /\ step' \in {"inventory", "unsupported_source"}
    BY <2>1 DEF M!ParseManifest, M!Fail
  <2>3. ArchiveSound'
    BY <1>1, <2>2, InspectionKept DEF Inspecting
  <2>4. TreeSound'
    BY <1>1, <1>2, <2>2 DEF TreeSound, Inspected, Extracted, Inventoried, M!Manifest, M!Manifests
  <2> QED
    BY <2>3, <2>4 DEF MaterializerSound
<1>6. CASE M!TakeInventory
  <2>1. /\ step = "inventory" /\ step' = "mutate" /\ baseline' = tree
        /\ UNCHANGED <<uploaded, tree, original>>
    BY <1>6 DEF M!TakeInventory, M!Inventory
  <2>2. ArchiveSound'
    BY <1>1, <2>1, InspectionKept DEF Inspecting
  <2>3. TreeSound'
    BY <1>1, <1>2, <2>1 DEF TreeSound, Inspected, Extracted, Inventoried, M!Manifest, M!Manifests
  <2> QED
    BY <2>2, <2>3 DEF MaterializerSound
<1> QED
  BY <1>3, <1>4, <1>5, <1>6

(* The dependency is set, npm does what it does, and the tree is compared. *)
LEMMA ResultMade ==
  ASSUME M!MaterializerAssumption, MaterializerSound,
         \/ M!Mutate \/ M!VerifyTree \/ M!Download
         \/ \E m \in M!Manifests, l \in M!Locks :
              M!NpmLockOnly(m, l)
              \/ \E others \in SUBSET (DOMAIN tree \union {<<"added">>}) :
                   M!NpmLock(m, l, others \ {M!Manifest, M!Lock})
  PROVE  MaterializerSound'
<1>1. ArchiveSound /\ TreeSound /\ UNCHANGED M!inspection
  BY DEF MaterializerSound, M!Mutate, M!VerifyTree, M!Download, M!NpmLock, M!NpmLockOnly
<1>2. M!SourceFiles' = M!SourceFiles /\ (M!FileAsParent' <=> M!FileAsParent)
  BY <1>1, FilesKept
<1>3. CASE M!Mutate
  <2>1. /\ step = "mutate" /\ step' = "lock" /\ UNCHANGED <<uploaded, baseline, original>>
        /\ DOMAIN tree' = DOMAIN tree
    BY <1>3 DEF M!Mutate
  <2>2. ArchiveSound'
    BY <1>1, <2>1, InspectionKept DEF Inspecting
  <2>3. M!Manifest \in DOMAIN tree'
    BY <1>1, <2>1 DEF TreeSound, Inspected, Extracted, Inventoried
  <2>4. TreeSound'
    BY <1>1, <1>2, <2>1, <2>3
       DEF TreeSound, Inspected, Extracted, Inventoried, M!Manifest, M!Manifests
  <2> QED
    BY <2>2, <2>4 DEF MaterializerSound
<1>4. CASE \E m \in M!Manifests, l \in M!Locks :
             M!NpmLockOnly(m, l)
             \/ \E others \in SUBSET (DOMAIN tree \union {<<"added">>}) :
                  M!NpmLock(m, l, others \ {M!Manifest, M!Lock})
  <2>1. PICK m \in M!Manifests, l \in M!Locks :
          M!NpmLockOnly(m, l)
          \/ \E others \in SUBSET (DOMAIN tree \union {<<"added">>}) :
               M!NpmLock(m, l, others \ {M!Manifest, M!Lock})
    BY <1>4
  <2>2. /\ step = "lock" /\ step' = "verify" /\ UNCHANGED <<uploaded, baseline, original>>
    BY <2>1 DEF M!NpmLock, M!NpmLockOnly
  <2>3. {M!Manifest, M!Lock} \subseteq DOMAIN tree' /\ tree'[M!Manifest] = m
    <3>1. CASE M!NpmLockOnly(m, l)
      <4>1. /\ tree' = [p \in DOMAIN tree \union {M!Lock} |->
                          IF p = M!Manifest THEN m ELSE IF p = M!Lock THEN l ELSE tree[p]]
        BY <3>1 DEF M!NpmLockOnly
      <4>2. M!Manifest \in DOMAIN tree
        BY <1>1, <2>2 DEF TreeSound
      <4> QED
        BY <4>1, <4>2
    <3>2. CASE ~M!NpmLockOnly(m, l)
      <4>1. PICK others : M!NpmLock(m, l, others)
        BY <2>1, <3>2
      <4>2. tree' = [p \in {M!Manifest, M!Lock} \union others |->
                       IF p = M!Manifest THEN m ELSE IF p = M!Lock THEN l ELSE "changed"]
        BY <4>1 DEF M!NpmLock
      <4> QED
        BY <4>2
    <3> QED
      BY <3>1, <3>2
  <2>4. ArchiveSound'
    BY <1>1, <2>2, InspectionKept DEF Inspecting
  <2>5. TreeSound'
    BY <1>1, <1>2, <2>2, <2>3
       DEF TreeSound, Inspected, Extracted, Inventoried, M!Manifest, M!Lock, M!Manifests
  <2> QED
    BY <2>4, <2>5 DEF MaterializerSound
<1>5. CASE M!VerifyTree
  <2>1. /\ step = "verify" /\ UNCHANGED M!sandbox
        /\ \/ step' = "download" /\ M!Unexpected = {}
           \/ step' = "unexpected_workspace_change"
    BY <1>5 DEF M!VerifyTree, M!Fail
  <2>2. ArchiveSound'
    BY <1>1, <2>1, InspectionKept DEF Inspecting
  <2>3. TreeSound'
    BY <1>1, <1>2, <2>1 DEF TreeSound, Inspected, Extracted, Inventoried, M!Manifest, M!Lock,
                            M!Manifests, M!sandbox, M!Unexpected
  <2> QED
    BY <2>2, <2>3 DEF MaterializerSound
<1>6. CASE M!Download
  <2>1. /\ step = "download" /\ UNCHANGED M!sandbox
        /\ \/ step' = "materialized" /\ M!AsOperated
           \/ step' = "invalid_materialized_output"
    BY <1>6 DEF M!Download, M!Fail
  <2>2. ArchiveSound'
    BY <1>1, <2>1, InspectionKept DEF Inspecting
  <2>3. TreeSound'
    BY <1>1, <1>2, <2>1 DEF TreeSound, Inspected, Extracted, Inventoried, M!Manifest, M!Lock,
                            M!Manifests, M!sandbox, M!Unexpected, M!AsOperated
  <2> QED
    BY <2>2, <2>3 DEF MaterializerSound
<1> QED
  BY <1>3, <1>4, <1>5, <1>6

(* What is inspected is what tar extracts, and every step knows what the   *)
(* steps before it left (services/npm-validation-materializer.ts).         *)
THEOREM MaterializerSoundAlways ==
  ASSUME M!MaterializerAssumption
  PROVE  M!Spec => []MaterializerSound
<1>1. M!Init => MaterializerSound
  BY MaterializerStarts
<1>2. MaterializerSound /\ [M!Next]_M!vars => MaterializerSound'
  <2> SUFFICES ASSUME MaterializerSound, [M!Next]_M!vars PROVE MaterializerSound'
    OBVIOUS
  <2>1. CASE UNCHANGED M!vars
    <3>1. UNCHANGED M!inspection /\ UNCHANGED step /\ UNCHANGED M!sandbox
      BY <2>1 DEF M!vars
    <3>2. ArchiveSound'
      BY <3>1, InspectionKept DEF MaterializerSound
    <3>3. M!SourceFiles' = M!SourceFiles /\ (M!FileAsParent' <=> M!FileAsParent)
      BY <3>1, FilesKept
    <3>4. M!Unexpected' = M!Unexpected /\ (M!AsOperated' <=> M!AsOperated)
      BY <3>1 DEF M!sandbox, M!Unexpected, M!AsOperated, M!Manifest, M!Lock
    <3>5. TreeSound'
      BY <3>1, <3>3, <3>4 DEF MaterializerSound, TreeSound, M!sandbox, Inspected, Extracted,
                              Inventoried, M!Manifest, M!Lock, M!Manifests
    <3> QED
      BY <3>2, <3>5 DEF MaterializerSound
  <2>2. CASE \E h \in Headers : M!RejectHeader(h) \/ M!ExtendedHeader(h) \/ M!Entry(h)
    BY <2>2, HeaderReadSound
  <2>3. CASE \/ \E s \in {"inspect", "archive_too_large", "archive_digest_mismatch"} : M!Start(s)
             \/ \E code \in {"invalid_archive", "archive_limits_exceeded"} : M!ReaderFails(code)
             \/ M!EndOfArchive \/ M!CommandFails
    BY <2>3, InspectionEnds
  <2>4. CASE \/ \E b \in BOOLEAN : M!Upload(b) \/ M!ParseManifest(b)
             \/ \E m \in M!Manifests : M!Extract(m)
             \/ M!TakeInventory
    BY <2>4, SourceMade
  <2>5. CASE \/ M!Mutate \/ M!VerifyTree \/ M!Download
             \/ \E m \in M!Manifests, l \in M!Locks :
                  M!NpmLockOnly(m, l)
                  \/ \E others \in SUBSET (DOMAIN tree \union {<<"added">>}) :
                       M!NpmLock(m, l, others \ {M!Manifest, M!Lock})
    BY <2>5, ResultMade
  <2> QED
    BY <2>1, <2>2, <2>3, <2>4, <2>5 DEF M!Next
<1> QED
  BY <1>1, <1>2, PTL DEF M!Spec

(* Every variable of the materializer keeps its type.                      *)
THEOREM MaterializerTyped ==
  ASSUME M!MaterializerAssumption
  PROVE  M!Spec => []M!TypeOK
<1>1. M!Cardinality(DOMAIN paths) = Cardinality(DOMAIN paths)
  BY DEF M!Cardinality, Cardinality
<1>2. MaterializerSound => M!TypeOK
  BY <1>1 DEF MaterializerSound, ArchiveSound, TreeSound, M!TypeOK
<1> QED
  BY <1>2, MaterializerSoundAlways, PTL

LEMMA InspectedNow ==
  ASSUME MaterializerSound
  PROVE  M!InspectedIsExtracted
<1> SUFFICES ASSUME step = "extract" PROVE M!InspectedIsExtracted
  BY DEF M!InspectedIsExtracted
<1>1. EntriesSound /\ ArchiveSound /\ ~M!FileAsParent
  BY DEF MaterializerSound, ArchiveSound, TreeSound, Inspecting, Inspected
<1> QED
  BY <1>1, ExtractedInspected DEF M!InspectedIsExtracted

LEMMA OnlyTheOperationNow ==
  ASSUME M!MaterializerAssumption, MaterializerSound
  PROVE  M!OnlyTheOperation
<1> SUFFICES ASSUME step = "materialized" PROVE M!OnlyTheOperation
  BY DEF M!OnlyTheOperation
<1>1. /\ uploaded /\ M!Unexpected = {} /\ M!AsOperated
      /\ DOMAIN baseline = M!SourceFiles
      /\ \A p \in M!SourceFiles \ {M!Manifest} : baseline[p] = "as archived"
      /\ original \in M!Manifests /\ tree[M!Manifest] \in M!Manifests
  BY DEF MaterializerSound, TreeSound, Inspected, Extracted, Inventoried
<1>2. tree[M!Manifest] = [original EXCEPT ![Operation.package] = Operation.version]
  <2>1. PICK manifest \in M!Manifests : manifest = tree[M!Manifest]
    BY <1>1
  <2>2. PICK before \in M!Manifests : before = original
    BY <1>1
  <2>3. /\ manifest[Operation.package] = Operation.version
        /\ \A p \in Packages \ {Operation.package} : manifest[p] = before[p]
        /\ Operation.package \in Packages
    BY <1>1, <2>1, <2>2 DEF M!AsOperated, M!MaterializerAssumption
  <2>4. manifest = [before EXCEPT ![Operation.package] = Operation.version]
    BY <2>3 DEF M!Manifests
  <2> QED
    BY <2>1, <2>2, <2>4
<1>3. tree[M!Lock].sound /\ tree[M!Lock].version = Operation.version
  <2>1. tree[M!Lock] = [sound |-> TRUE, version |-> Operation.version]
    BY <1>1 DEF M!AsOperated
  <2>2. tree[M!Lock].sound = TRUE
    BY <2>1
  <2>3. tree[M!Lock].version = Operation.version
    BY <2>1
  <2> QED
    BY <2>2, <2>3
<1>4. ASSUME NEW p \in M!SourceFiles \ {M!Manifest, M!Lock}
      PROVE  p \in DOMAIN tree /\ tree[p] = "as archived"
  <2>1. p \in DOMAIN baseline /\ baseline[p] = "as archived"
    BY <1>1, <1>4
  <2>2. p \notin DOMAIN tree \/ tree[p] # baseline[p] => p \in M!Unexpected
    BY <1>4, <2>1 DEF M!Unexpected
  <2>3. p \notin M!Unexpected
    BY <1>1
  <2> QED
    BY <2>1, <2>2, <2>3
<1>5. ASSUME NEW p \in DOMAIN tree \ {M!Manifest, M!Lock}
      PROVE  p \in M!SourceFiles
  <2>1. p \notin DOMAIN baseline => p \in M!Unexpected
    BY <1>5 DEF M!Unexpected
  <2>2. p \in DOMAIN baseline
    BY <1>1, <2>1
  <2> QED
    BY <1>1, <2>2
<1>6. DOMAIN tree \ {M!Manifest, M!Lock} = M!SourceFiles \ {M!Manifest, M!Lock}
  BY <1>4, <1>5
<1> QED
  BY <1>1, <1>2, <1>3, <1>4, <1>6 DEF M!OnlyTheOperation

(* What tar writes is what was inspected, and the tree that is returned    *)
(* differs from what it wrote by the operation alone                       *)
(* (npm-validation-materializer.ts).                                       *)
THEOREM OnlyTheOperationAlways ==
  ASSUME M!MaterializerAssumption
  PROVE  M!Spec => [](M!InspectedIsExtracted /\ M!OnlyTheOperation)
BY InspectedNow, OnlyTheOperationNow, MaterializerSoundAlways, PTL

-----------------------------------------------------------------------------
(***************************************************************************)
(* The services side by side.  Each theorem takes what it says of a        *)
(* service from the invariant of that service.                             *)
(***************************************************************************)

(* Every record and row of the eight services has its type.                *)
THEOREM ControlTyped == Spec => []TypeOK
<1>1. TransitionsSound => T!TypeOK
  BY TransitionsTyped
<1>2. LedgerSound => L!TypeOK
  BY LedgerTypes
<1>3. ConfigurationSound => E!TypeOK
  BY ConfigurationTyped
<1>4. ReconciliationSound => R!TypeOK
  BY DEF ReconciliationSound
<1>5. GenerationSound => G!TypeOK
  BY DEF GenerationSound
<1>6. RegistrySound => P!TypeOK
  BY DEF RegistrySound
<1>7. T!Spec => []TransitionsSound
  BY ControlAssumption, TransitionsSoundAlways
<1>8. L!Spec => []LedgerSound
  BY ControlAssumption, LedgerSoundAlways
<1>9. E!Spec => []ConfigurationSound
  BY ControlAssumption, ConfigurationSoundAlways
<1>10. G!Spec => []GenerationSound
  BY ControlAssumption, GenerationSoundAlways
<1>11. M!Spec => []M!TypeOK
  BY ControlAssumption, MaterializerTyped
<1>12. V!Spec => []V!TypeOK
  BY ControlAssumption, VerificationTyped
<1>13. R!Spec => []ReconciliationSound
  BY ReconciliationSoundAlways
<1>14. P!Spec => []RegistrySound
  BY RegistrySoundAlways
<1> QED
  BY <1>1, <1>2, <1>3, <1>4, <1>5, <1>6, <1>7, <1>8, <1>9, <1>10, <1>11, <1>12, <1>13,
     <1>14, PTL DEF Spec, TypeOK

(* A call that is repeated is told what happened                           *)
(* (domain/state-transitions/service.ts, domain/external-operations,       *)
(* configuration staling), however the calls of others are interleaved     *)
(* with it.                                                                *)
THEOREM ControlAnswersTrue == Spec => []AnswersTrue
<1>1. TransitionsSound => T!AnswersTrue
  BY TransitionsAnswerTrue
<1>2. LedgerSound => L!OneBindingPerKey
  BY LedgerAnswers
<1>3. ConfigurationSound => E!AnswersTrue
  BY CandidateAnswersTrue
<1>4. T!Spec => []TransitionsSound
  BY ControlAssumption, TransitionsSoundAlways
<1>5. L!Spec => []LedgerSound
  BY ControlAssumption, LedgerSoundAlways
<1>6. E!Spec => []ConfigurationSound
  BY ControlAssumption, ConfigurationSoundAlways
<1> QED
  BY <1>1, <1>2, <1>3, <1>4, <1>5, <1>6, PTL DEF Spec, AnswersTrue

(* No edit of the configuration is lost, and nothing stands on what was    *)
(* replaced.                                                               *)
THEOREM ControlEditsHold == Spec => []EditsHold
<1>1. ConfigurationSound => E!EditsBuildOnEachOther /\ E!NothingStandsOnReplaced
  BY ConfigurationEditsHold
<1>2. E!Spec => []ConfigurationSound
  BY ControlAssumption, ConfigurationSoundAlways
<1> QED
  BY <1>1, <1>2, PTL DEF Spec, EditsHold

(* What is generated was guarded and paid for as granted, and the one      *)
(* active version passed the gate as it is.                                *)
THEOREM ControlGuarded == Spec => []GuardedAndEvaluated
<1>1. GenerationSound => G!ValidatedIsGuarded /\ G!AnsweredIsSettled /\ G!PostsBounded
  BY ControlAssumption, GenerationGuarded
<1>2. RegistrySound => P!ActiveIsEvaluated
  BY DEF RegistrySound
<1>3. G!Spec => []GenerationSound
  BY ControlAssumption, GenerationSoundAlways
<1> QED
  BY <1>1, <1>2, <1>3, RegistrySoundAlways, PTL DEF Spec, GuardedAndEvaluated

(* A checkpoint replaces the findings that were read, a request follows    *)
(* every finding that is done, and the retirement of a version is final.   *)
THEOREM ControlNothingUndone == Spec => NothingIsUndone
<1> DEFINE Sound == ReconciliationSound /\ RegistrySound
           Kept == R!ReplacesRead /\ R!RequestsFollow' /\ P!KeepsRetired
<1>1. Sound /\ [R!Next]_R!vars /\ [P!Next]_P!vars => [Kept]_<<R!vars, P!vars>>
  BY ControlAssumption, ReconciliationMoves, RegistryMoves DEF ReconciliationSound
<1>2. Spec => []Sound
  BY ReconciliationSoundAlways, RegistrySoundAlways, PTL DEF Spec
<1>3. Spec => [][R!Next]_R!vars /\ [][P!Next]_P!vars
  BY PTL DEF Spec, R!Spec, P!Spec
<1> HIDE DEF Sound
<1> QED
  BY <1>1, <1>2, <1>3, PTL DEF NothingIsUndone

(* What tar extracts is what was inspected, and a result differs from the  *)
(* archive by the operation alone.                                         *)
THEOREM ControlOnlyTheOperation == Spec => []OnlyTheOperation
<1>1. M!Spec => [](M!InspectedIsExtracted /\ M!OnlyTheOperation)
  BY ControlAssumption, OnlyTheOperationAlways
<1> QED
  BY <1>1, PTL DEF Spec, OnlyTheOperation

(* A verified candidate has earned it, and a failed one has failed.        *)
THEOREM ControlVerifiedIsEarned == Spec => []VerifiedIsEarned
<1>1. V!Spec => []V!VerifiedIsEarned
  BY ControlAssumption, VerifiedEarnedAlways
<1> QED
  BY <1>1, PTL DEF Spec, VerifiedIsEarned
=============================================================================
