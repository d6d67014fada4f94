------------------------- MODULE DnsInterceptProofs -------------------------
(***************************************************************************)
(* What is proved of DnsIntercept for every set of questions, any number   *)
(* of queries and replies: its types, what the pending table holds, and    *)
(* that the direct socket is in step until a query times out.              *)
(***************************************************************************)
EXTENDS DnsIntercept, SequenceTheorems, TLAPS

Verdict == [of : Asked, verdict : Verdicts]
Answer  == [via : {"direct", "clean"}, for : 0..MaxQueries, of : Asked,
            verdict : Verdicts, from : Endpoints, to : Endpoints]

\* A query is being handled only if there is one, and a direct answer is for a query.
InHand == /\ stage # "idle" => Len(asked) # 0
          /\ \A n \in 1..Len(answers) : answers[n].via = "direct" => answers[n].for \in Asked

TypeInv == TypeOK /\ InHand

(***************************************************************************)
(* Until a query is given up, the only datagram on its way is the answer   *)
(* to the query in hand, once.  A query is given up when it is done with.  *)
(***************************************************************************)
OnlyInHand ==
    expired = {} =>
        /\ stage # "waiting" => resolver = {} /\ inbox = <<>>
        /\ stage = "waiting" =>
              \/ resolver = {Current} /\ inbox = <<>>
              \/ resolver = {} /\ Len(inbox) = 1 /\ inbox[1].of = Current
ExpiredBefore == stage # "idle" => \A j \in expired : j < Current

StepInv == OnlyInHand /\ ExpiredBefore /\ InStepUntilTimeout

\* The A/IN queries of an id, however many they are, have a last one.
HasLatest == \A id \in Ids :
                SameId(id) # {} => \E i \in SameId(id) : \A j \in SameId(id) : j \leq i

-----------------------------------------------------------------------------
(* Types. *)

LEMMA Shapes ==
    /\ \A q \in Questions : /\ q.id \in Ids /\ q.client \in Endpoints /\ q.server \in Endpoints
                            /\ AddressesOf(q) \in [client : Endpoints, server : Endpoints]
    /\ DnsRemote \in Endpoints
  BY DEF Ids, Endpoints, AddressesOf

LEMMA TypeInit == Init => TypeInv
  BY DnsAssumption DEF DnsAssumption, Init, TypeInv, TypeOK, InHand, Asked

\* What was in range stays in range when a query is taken.
LEMMA AskedGrows ==
    ASSUME NEW q, asked \in Seq(Questions), q \in Questions, asked' = Append(asked, q)
    PROVE  /\ asked' \in Seq(Questions) /\ Len(asked') = Len(asked) + 1 /\ Len(asked) \in Nat
           /\ asked'[Len(asked')] = q /\ \A i \in Asked : asked'[i] = asked[i]
           /\ Asked' = Asked \cup {Len(asked')} /\ Len(asked') \notin Asked
<1>1. /\ asked' \in Seq(Questions) /\ Len(asked') = Len(asked) + 1 /\ Len(asked) \in Nat
      /\ asked'[Len(asked')] = q /\ \A i \in 1..Len(asked) : asked'[i] = asked[i]
  OBVIOUS
<1>2. Asked' = Asked \cup {Len(asked')} /\ Len(asked') \notin Asked
  BY <1>1 DEF Asked
<1> QED
  BY <1>1, <1>2 DEF Asked

\* What try_intercept appends when it answers locally.
LEMMA LocalStep ==
    ASSUME TypeInv, AnswerLocally
    PROVE  /\ answers' \in Seq(Answer) /\ Len(answers') = Len(answers) + 1
           /\ Len(answers) \in Nat /\ \A n \in 1..Len(answers) : answers'[n] = answers[n]
           /\ answers'[Len(answers')].via = "direct"
           /\ answers'[Len(answers')].for = Current
           /\ answers'[Len(answers')].of = inbox[1].of
           /\ answers'[Len(answers')].verdict = inbox[1].verdict
           /\ TakesLocal(asked[Current], inbox[1])
           /\ Current \in Asked /\ asked[Current] \in Questions
           /\ Len(inbox) # 0 /\ Tail(inbox) \in Seq(Verdict)
<1> DEFINE q == asked[Current]
           r == [via |-> "direct", for |-> Current, of |-> inbox[1].of,
                 verdict |-> inbox[1].verdict, from |-> q.server, to |-> q.client]
<1>1. Current \in Asked /\ Current \in 0..MaxQueries /\ q \in Questions
  BY DnsAssumption DEF DnsAssumption, TypeInv, AnswerLocally, InHand, TypeOK, Asked, Current
<1>2. inbox \in Seq(Verdict) /\ inbox # <<>> /\ answers \in Seq(Answer)
  BY DEF TypeInv, AnswerLocally, TypeOK, Verdict, Answer
<1>3. inbox[1] \in Verdict /\ Tail(inbox) \in Seq(Verdict) /\ Head(inbox) = inbox[1]
      /\ Len(inbox) # 0
  <2> HIDE DEF Verdict
  <2> QED
    BY <1>2
<1>4. r \in Answer
  BY <1>1, <1>3, Shapes DEF Answer, Verdict
<1>5. answers' = Append(answers, r) /\ TakesLocal(q, inbox[1])
  BY <1>3 DEF AnswerLocally
<1>6. r.via = "direct" /\ r.for = Current /\ r.of = inbox[1].of /\ r.verdict = inbox[1].verdict
  OBVIOUS
<1> HIDE DEF r, q
<1>7. answers' \in Seq(Answer) /\ Len(answers') = Len(answers) + 1 /\ Len(answers) \in Nat
      /\ answers'[Len(answers')] = r /\ \A n \in 1..Len(answers) : answers'[n] = answers[n]
  BY <1>2, <1>4, <1>5
<1> QED
  BY <1>1, <1>3, <1>5, <1>6, <1>7 DEF q

\* What the egress task appends.  The packet comes from the clean resolver and goes to
\* the client, whose address is another one: Pairs looks at the wrong end, and no reply
\* is ever paired.
LEMMA ReplyStep ==
    ASSUME TypeInv, NEW i \in Asked, EgressReply(i)
    PROVE  /\ answers' \in Seq(Answer) /\ Len(answers') = Len(answers) + 1
           /\ Len(answers) \in Nat /\ \A n \in 1..Len(answers) : answers'[n] = answers[n]
           /\ answers'[Len(answers')].via = "clean" /\ pending' = pending
<1> DEFINE packet == [src |-> DnsRemote, dst |-> asked[i].client, id |-> asked[i].id]
           reply == [via |-> "clean", for |-> 0, of |-> i, verdict |-> "foreign",
                     from |-> DnsRemote, to |-> asked[i].client]
<1>1. asked[i] \in Questions
  BY DEF TypeInv, TypeOK, Asked
<1>2. ~Pairs(packet)
  BY <1>1, DnsAssumption DEF DnsAssumption, Pairs
<1>3. answers' = Append(answers, reply) /\ pending' = pending
  BY <1>2 DEF EgressReply
<1>4. reply \in Answer
  BY <1>1, Shapes, DnsAssumption DEF DnsAssumption, Answer, Verdicts
<1>5. reply.via = "clean" /\ answers \in Seq(Answer)
  BY DEF TypeInv, TypeOK, Answer
<1> HIDE DEF reply
<1> QED
  BY <1>3, <1>4, <1>5

LEMMA TypeStep == TypeInv /\ [Next]_vars => TypeInv'
<1> SUFFICES ASSUME TypeInv, [Next]_vars PROVE TypeInv'
  OBVIOUS
<1> USE DnsAssumption DEF DnsAssumption, TypeInv
<1>a. TypeOK /\ InHand
  OBVIOUS
<1>1. ASSUME NEW q \in Questions, TakeQuery(q) PROVE TypeInv'
  <2>1. /\ asked' \in Seq(Questions) /\ Len(asked') = Len(asked) + 1 /\ Len(asked) \in Nat
        /\ Asked' = Asked \cup {Len(asked')}
    BY <1>a, <1>1, AskedGrows DEF TakeQuery, TypeOK
  <2>2. Asked \subseteq Asked'
    BY <2>1
  <2>3. inbox' \in Seq(Verdict') /\ answers' \in Seq(Answer')
    <3>1. Verdict \subseteq Verdict' /\ Answer \subseteq Answer'
      BY <2>2 DEF Verdict, Answer
    <3>2. inbox \in Seq(Verdict) /\ answers \in Seq(Answer)
      BY <1>a DEF TypeOK, Verdict, Answer
    <3>3. UNCHANGED <<inbox, answers>>
      BY <1>1 DEF TakeQuery
    <3> HIDE DEF Verdict, Answer
    <3>4. inbox \in Seq(Verdict') /\ answers \in Seq(Answer')
      BY <3>1, <3>2, SeqMonotonic
    <3> QED
      BY <3>3, <3>4
  <2>4. pending' \in [Ids -> {None} \cup [client : Endpoints, server : Endpoints]]
    BY <1>a, <1>1, Shapes DEF TakeQuery, CopySent, CopyFails, NoCopy, TypeOK
  <2>5. copies' \subseteq Asked' /\ resolver' \subseteq Asked' /\ expired' \subseteq Asked'
    BY <1>a, <1>1, <2>1, <2>2 DEF TakeQuery, CopySent, CopyFails, NoCopy, TypeOK
  <2>6. stage' = "asking" /\ replies' \in 0..MaxReplies /\ Len(asked') \leq MaxQueries
    BY <1>a, <1>1, <2>1 DEF TakeQuery, TypeOK
  <2>7. TypeOK'
    BY <2>1, <2>3, <2>4, <2>5, <2>6 DEF TypeOK, Verdict, Answer
  <2>8. InHand'
    BY <1>a, <1>1, <2>1, <2>2 DEF TakeQuery, InHand
  <2> QED
    BY <2>7, <2>8
<1>2. CASE AskDirect
  <2>1. Current \in Asked
    BY <1>a, <1>2 DEF AskDirect, InHand, TypeOK, Asked, Current
  <2>2. TypeOK'
    BY <1>a, <1>2, <2>1 DEF AskDirect, TypeOK, Asked
  <2> QED
    BY <1>a, <1>2, <2>2 DEF AskDirect, InHand, Asked
<1>3. CASE AskFails
  BY <1>a, <1>3 DEF AskFails, TypeOK, InHand, Asked
<1>4. CASE DirectTimeout
  <2>1. Current \in Asked
    BY <1>a, <1>4 DEF DirectTimeout, InHand, TypeOK, Asked, Current
  <2> QED
    BY <1>a, <1>4, <2>1 DEF DirectTimeout, TypeOK, InHand, Asked
<1>5. CASE AnswerLocally
  <2>1. answers' \in Seq(Answer) /\ Tail(inbox) \in Seq(Verdict) /\ Current \in Asked
        /\ Len(answers') = Len(answers) + 1 /\ Len(answers) \in Nat
        /\ answers'[Len(answers')].for = Current
        /\ \A n \in 1..Len(answers) : answers'[n] = answers[n]
    BY <1>5, LocalStep
  <2>2. pending' = ClearPending(asked[Current]) /\ inbox' = Tail(inbox)
        /\ stage' = "idle" /\ UNCHANGED <<asked, resolver, copies, replies, expired>>
    BY <1>5 DEF AnswerLocally
  <2>3. pending' \in [Ids -> {None} \cup [client : Endpoints, server : Endpoints]]
    BY <1>a, <2>2 DEF ClearPending, TypeOK
  <2>4. TypeOK'
    BY <1>a, <2>1, <2>2, <2>3 DEF TypeOK, Asked, Answer, Verdict
  <2>5. \A n \in 1..Len(answers') : n \in 1..Len(answers) \/ n = Len(answers')
    BY <2>1
  <2>6. InHand'
    BY <1>a, <2>1, <2>2, <2>5 DEF InHand, Asked
  <2> QED
    BY <2>4, <2>6
<1>6. CASE LeaveToTunnel
  <2>1. Tail(inbox) \in Seq(Verdict)
    BY <1>a, <1>6 DEF LeaveToTunnel, TypeOK, Verdict
  <2> QED
    BY <1>a, <1>6, <2>1 DEF LeaveToTunnel, TypeOK, InHand, Asked, Verdict
<1>7. ASSUME NEW i \in Asked, ResolverAnswers(i) PROVE TypeInv'
  <2>1. PICK v \in Verdicts : inbox' = Append(inbox, [of |-> i, verdict |-> v])
    BY <1>7 DEF ResolverAnswers
  <2>2. inbox' \in Seq(Verdict)
    BY <1>a, <2>1 DEF TypeOK, Verdict
  <2> QED
    BY <1>a, <1>7, <2>2 DEF ResolverAnswers, TypeOK, InHand, Asked, Verdict
<1>8. ASSUME NEW i \in Asked, EgressReply(i) PROVE TypeInv'
  <2>1. answers' \in Seq(Answer) /\ Len(answers') = Len(answers) + 1 /\ Len(answers) \in Nat
        /\ answers'[Len(answers')].via = "clean" /\ pending' = pending
        /\ \A n \in 1..Len(answers) : answers'[n] = answers[n]
    BY <1>8, ReplyStep
  <2>2. /\ replies' = replies + 1 /\ replies < MaxReplies
        /\ UNCHANGED <<asked, stage, resolver, inbox, copies, expired>>
    BY <1>8 DEF EgressReply
  <2>3. TypeOK'
    BY <1>a, <2>1, <2>2 DEF TypeOK, Asked, Answer
  <2>4. \A n \in 1..Len(answers') : n \in 1..Len(answers) \/ n = Len(answers')
    BY <2>1
  <2>5. ASSUME NEW n \in 1..Len(answers'), answers'[n].via = "direct"
        PROVE  answers'[n].for \in Asked'
    <3>1. n # Len(answers')
      BY <2>1, <2>5
    <3>2. n \in 1..Len(answers) /\ answers'[n] = answers[n]
      BY <2>1, <2>4, <2>5, <3>1
    <3> QED
      BY <1>a, <2>2, <2>5, <3>2 DEF InHand, Asked
  <2>6. InHand'
    BY <1>a, <2>2, <2>5 DEF InHand
  <2> QED
    BY <2>3, <2>6
<1>9. CASE UNCHANGED vars
  BY <1>a, <1>9 DEF vars, TypeOK, InHand, Asked
<1> QED
  BY <1>1, <1>2, <1>3, <1>4, <1>5, <1>6, <1>7, <1>8, <1>9 DEF Next, QueryDirect

(***************************************************************************)
(* The variables keep their types: whatever the two tasks write, in        *)
(* whatever order, an answer is of a query that was asked, and a pending   *)
(* id holds the addresses of a query (dns_intercept.rs:110).               *)
(***************************************************************************)
THEOREM TypesHold == Spec => []TypeOK
<1>1. TypeInv => TypeOK
  BY DEF TypeInv
<1> QED
  BY <1>1, TypeInit, TypeStep, PTL DEF Spec

-----------------------------------------------------------------------------
(* What the client is told. *)

\* A step other than the two that append leaves the answers alone, and the queries they
\* are for as they were asked.
LEMMA AnswersStay ==
    ASSUME TypeInv, [Next]_vars, ~AnswerLocally, \A i \in Asked : ~EgressReply(i)
    PROVE  answers' = answers /\ \A i \in Asked : asked'[i] = asked[i]
<1>1. ASSUME NEW q \in Questions, TakeQuery(q)
      PROVE  answers' = answers /\ \A i \in Asked : asked'[i] = asked[i]
  <2>1. asked \in Seq(Questions)
    BY DEF TypeInv, TypeOK
  <2> QED
    BY <1>1, <2>1, AskedGrows DEF TakeQuery
<1> QED
  BY <1>1 DEF Next, QueryDirect, AskDirect, AskFails, DirectTimeout, LeaveToTunnel,
     ResolverAnswers, vars

-----------------------------------------------------------------------------
(* The direct socket. *)

LEMMA OnlyInHandStep ==
    ASSUME TypeInv, OnlyInHand, ExpiredBefore, [Next]_vars
    PROVE  OnlyInHand' /\ ExpiredBefore'
<1>a. /\ asked \in Seq(Questions) /\ Len(asked) \in Nat /\ expired \subseteq Asked
      /\ resolver \subseteq Asked /\ inbox \in Seq(Verdict) /\ Asked = 1..Current
      /\ stage # "idle" => Len(asked) # 0
  BY DEF TypeInv, TypeOK, InHand, Verdict, Asked, Current
<1> USE DEF OnlyInHand, ExpiredBefore
<1>1. ASSUME NEW q \in Questions, TakeQuery(q) PROVE OnlyInHand' /\ ExpiredBefore'
  <2>1. Current' = Current + 1 /\ Current \in Nat
    BY <1>a, <1>1, AskedGrows DEF TakeQuery, Current
  <2> QED
    BY <1>a, <1>1, <2>1 DEF TakeQuery
<1>2. CASE AskDirect
  BY <1>a, <1>2 DEF AskDirect, Current
<1>3. CASE AskFails
  BY <1>a, <1>3 DEF AskFails, Current
<1>4. CASE DirectTimeout
  BY <1>a, <1>4 DEF DirectTimeout, Current
<1>5. CASE AnswerLocally \/ LeaveToTunnel
  <2>1. stage = "waiting" /\ inbox # <<>> /\ inbox' = Tail(inbox) /\ stage' = "idle"
        /\ UNCHANGED <<resolver, expired>>
    BY <1>5 DEF AnswerLocally, LeaveToTunnel
  <2>2. Len(inbox) = 1 => Tail(inbox) = <<>>
    <3> HIDE DEF Verdict
    <3>1. Tail(inbox) \in Seq(Verdict) /\ (Len(inbox) = 1 => Len(Tail(inbox)) = 0)
      BY <1>a, <2>1
    <3> QED
      BY <3>1, EmptySeq
  <2> QED
    BY <2>1, <2>2
<1>6. ASSUME NEW i \in Asked, ResolverAnswers(i) PROVE OnlyInHand' /\ ExpiredBefore'
  <2>1. PICK v \in Verdicts : inbox' = Append(inbox, [of |-> i, verdict |-> v])
    BY <1>6 DEF ResolverAnswers
  <2>2. i \in resolver /\ resolver' = resolver \ {i} /\ UNCHANGED <<asked, stage, expired>>
    BY <1>6 DEF ResolverAnswers
  <2>3. inbox = <<>> => Len(inbox') = 1 /\ inbox'[1].of = i
    BY <2>1
  <2> QED
    BY <2>2, <2>3 DEF Current
<1>7. ASSUME NEW i \in Asked, EgressReply(i) PROVE OnlyInHand' /\ ExpiredBefore'
  BY <1>7 DEF EgressReply, Current
<1>8. CASE UNCHANGED vars
  BY <1>8 DEF vars, Current
<1> QED
  BY <1>1, <1>2, <1>3, <1>4, <1>5, <1>6, <1>7, <1>8 DEF Next, QueryDirect

LEMMA InStepStep == TypeInv /\ StepInv /\ [Next]_vars => StepInv'
<1> SUFFICES ASSUME TypeInv, StepInv, [Next]_vars PROVE StepInv'
  OBVIOUS
<1>a. OnlyInHand /\ ExpiredBefore /\ InStepUntilTimeout
  BY DEF StepInv
<1>b. expired \subseteq expired'
  BY DEF Next, QueryDirect, TakeQuery, AskDirect, AskFails, DirectTimeout, AnswerLocally,
     LeaveToTunnel, ResolverAnswers, EgressReply, vars
<1>1. InStepUntilTimeout'
  <2>1. CASE AnswerLocally
    <3>1. /\ Len(answers') = Len(answers) + 1 /\ Len(answers) \in Nat
          /\ \A n \in 1..Len(answers) : answers'[n] = answers[n]
          /\ answers'[Len(answers')].for = Current
          /\ answers'[Len(answers')].of = inbox[1].of /\ Len(inbox) # 0
      BY <2>1, LocalStep
    <3>2. \A n \in 1..Len(answers') : n \in 1..Len(answers) \/ n = Len(answers')
      BY <3>1
    <3>3. stage = "waiting" /\ inbox # <<>>
      BY <2>1 DEF AnswerLocally
    <3>4. expired # {} => \E j \in expired : j < Current
      BY <1>a, <3>3 DEF ExpiredBefore
    <3>5. expired = {} => inbox[1].of = Current
      BY <1>a, <3>3 DEF OnlyInHand
    <3> QED
      BY <1>a, <1>b, <3>1, <3>2, <3>4, <3>5 DEF InStepUntilTimeout
  <2>2. ASSUME NEW i \in Asked, EgressReply(i) PROVE InStepUntilTimeout'
    <3>1. /\ Len(answers') = Len(answers) + 1 /\ Len(answers) \in Nat
          /\ \A n \in 1..Len(answers) : answers'[n] = answers[n]
          /\ answers'[Len(answers')].via = "clean"
      BY <2>2, ReplyStep
    <3>2. \A n \in 1..Len(answers') : n \in 1..Len(answers) \/ n = Len(answers')
      BY <3>1
    <3> QED
      BY <1>a, <1>b, <3>1, <3>2 DEF InStepUntilTimeout
  <2>3. CASE ~AnswerLocally /\ \A i \in Asked : ~EgressReply(i)
    BY <1>a, <1>b, <2>3, AnswersStay DEF InStepUntilTimeout
  <2> QED
    BY <2>1, <2>2, <2>3
<1> QED
  BY <1>a, <1>1, OnlyInHandStep DEF StepInv

(***************************************************************************)
(* Only a query that timed out can put the direct socket out of step, and  *)
(* only for later queries: without one, every local answer is the answer   *)
(* to the query it is given to (query_direct, dns_intercept.rs:263-275).   *)
(***************************************************************************)
THEOREM InStep == Spec => []InStepUntilTimeout
<1>1. Init => StepInv
  BY DEF Init, StepInv, OnlyInHand, ExpiredBefore, InStepUntilTimeout
<1>2. StepInv => InStepUntilTimeout
  BY DEF StepInv
<1> QED
  BY <1>1, <1>2, TypeInit, TypeStep, InStepStep, PTL DEF Spec

-----------------------------------------------------------------------------
(* The pending table. *)

Wanted(id) == IF SameId(id) = {} THEN None
              ELSE LET i == Latest(SameId(id)) IN
                   IF i \in copies /\ ~Local(i) THEN AddressesOf(asked[i]) ELSE None

PendingInv == HasLatest /\ PendingExact

\* The latest of a set that has a greatest element is that element.
LEMMA LatestIs ==
    ASSUME NEW S, S \subseteq Nat, NEW m \in S, \A j \in S : j \leq m
    PROVE  Latest(S) = m
<1>1. Latest(S) \in S /\ \A j \in S : j \leq Latest(S)
  BY DEF Latest
<1>2. Latest(S) \leq m /\ m \leq Latest(S) /\ Latest(S) \in Nat /\ m \in Nat
  BY <1>1
<1> QED
  BY <1>2

LEMMA LatestIn ==
    ASSUME TypeInv, HasLatest, NEW id \in Ids, SameId(id) # {}
    PROVE  Latest(SameId(id)) \in SameId(id)
<1>1. SameId(id) \subseteq Nat
  BY DEF SameId, Asked, TypeInv, TypeOK
<1>2. PICK m \in SameId(id) : \A j \in SameId(id) : j \leq m
  BY DEF HasLatest
<1> QED
  BY <1>1, <1>2, LatestIs

\* A step that asks nothing, answers nothing locally and makes no copy.
LEMMA PendingKept ==
    ASSUME TypeInv, PendingInv, UNCHANGED <<asked, pending, copies>>,
           \A i \in Asked : Local(i)' <=> Local(i)
    PROVE  PendingInv'
<1>1. \A id \in Ids : SameId(id)' = SameId(id) /\ SameId(id) \subseteq Asked
  BY DEF SameId, Asked
<1>2. HasLatest'
  BY <1>1 DEF PendingInv, HasLatest
<1>3. \A id \in Ids : Wanted(id)' = Wanted(id)
  <2> SUFFICES ASSUME NEW id \in Ids, SameId(id) # {} PROVE Wanted(id)' = Wanted(id)
    BY <1>1 DEF Wanted
  <2>1. Latest(SameId(id)) \in Asked /\ Latest(SameId(id)') = Latest(SameId(id))
    BY <1>1, LatestIn DEF PendingInv
  <2> QED
    BY <1>1, <2>1 DEF Wanted
<1> QED
  BY <1>2, <1>3 DEF PendingInv, PendingExact, Wanted

LEMMA PendingTake ==
    ASSUME TypeInv, PendingInv, NEW q \in Questions, TakeQuery(q)
    PROVE  PendingInv'
<1> DEFINE n == Len(asked')
<1>1. /\ n = Len(asked) + 1 /\ Len(asked) \in Nat /\ asked'[n] = q
      /\ \A i \in Asked : asked'[i] = asked[i]
      /\ Asked' = Asked \cup {n} /\ n \notin Asked /\ Asked = 1..Len(asked)
  BY AskedGrows DEF TakeQuery, TypeInv, TypeOK, Asked
<1>2. answers' = answers /\ \A i : Local(i)' <=> Local(i)
  BY DEF TakeQuery, Local
<1>3. ~Local(n)
  BY <1>1 DEF Local, TypeInv, InHand
<1>4. q.id \in Ids
  BY Shapes
<1> HIDE DEF n
<1>5. ASSUME q.kind = "A" PROVE SameId(q.id)' = SameId(q.id) \cup {n}
  BY <1>1, <1>5 DEF SameId
<1>6. ASSUME NEW id \in Ids, q.kind # "A" \/ id # q.id PROVE SameId(id)' = SameId(id)
  BY <1>1, <1>6 DEF SameId
<1>7. \A id \in Ids : SameId(id) \subseteq Asked
  BY DEF SameId
<1>8. ASSUME NEW id \in Ids, q.kind # "A" \/ id # q.id
      PROVE  /\ SameId(id)' # {} => \E i \in SameId(id)' : \A j \in SameId(id)' : j \leq i
             /\ pending'[id] = Wanted(id)'
  <2>1. SameId(id)' = SameId(id)
    BY <1>6, <1>8
  <2>2. pending'[id] = pending[id]
    BY <1>8 DEF TakeQuery, CopySent, CopyFails, NoCopy, TypeInv, TypeOK
  <2>3. \A i \in Asked : i \in copies' <=> i \in copies
    BY <1>1 DEF TakeQuery, CopySent, CopyFails, NoCopy, n
  <2>4. SameId(id) # {} => Latest(SameId(id)) \in Asked
    BY <1>7, LatestIn DEF PendingInv
  <2>5. Wanted(id)' = Wanted(id)
    <3>1. Latest(SameId(id))' = Latest(SameId(id))
      BY <2>1
    <3>2. CASE SameId(id) = {}
      BY <2>1, <3>2 DEF Wanted
    <3>3. ASSUME NEW k \in Asked, k = Latest(SameId(id)), SameId(id) # {}
          PROVE  Wanted(id)' = Wanted(id)
      <4>1. Latest(SameId(id))' = k /\ SameId(id)' # {}
        BY <2>1, <3>1, <3>3
      <4>2. (k \in copies' <=> k \in copies) /\ asked'[k] = asked[k] /\ (Local(k)' <=> Local(k))
        BY <1>1, <1>2, <2>3
      <4>3. Wanted(id)' = IF k \in copies' /\ ~Local(k)' THEN AddressesOf(asked'[k]) ELSE None
        BY <4>1 DEF Wanted
      <4>4. Wanted(id) = IF k \in copies /\ ~Local(k) THEN AddressesOf(asked[k]) ELSE None
        BY <3>3 DEF Wanted
      <4> QED
        BY <4>2, <4>3, <4>4
    <3> QED
      BY <2>4, <3>2, <3>3
  <2> QED
    BY <2>1, <2>2, <2>5 DEF PendingInv, HasLatest, PendingExact, Wanted
<1>9. ASSUME q.kind = "A"
      PROVE  /\ \E i \in SameId(q.id)' : \A j \in SameId(q.id)' : j \leq i
             /\ pending'[q.id] = Wanted(q.id)'
  <2> DEFINE S == SameId(q.id)'
  <2>1. n \in S /\ (\A j \in S : j \leq n) /\ S \subseteq Nat /\ S # {}
    BY <1>1, <1>4, <1>5, <1>7, <1>9
  <2> HIDE DEF S
  <2>2. Latest(S) = n
    BY <2>1, LatestIs
  <2>3. Wanted(q.id)' = IF n \in copies' THEN AddressesOf(q) ELSE None
    <3>1. Latest(SameId(q.id))' = n
      BY <2>2 DEF S, Latest
    <3> QED
      BY <1>1, <1>2, <1>3, <2>1, <3>1 DEF Wanted, S, AddressesOf
  <2>4. pending'[q.id] = IF n \in copies' THEN AddressesOf(q) ELSE None
    <3>1. n \notin copies
      BY <1>1 DEF TypeInv, TypeOK
    <3>2. CopySent(q) \/ CopyFails(q)
      BY <1>9 DEF TakeQuery
    <3> QED
      BY <1>4, <3>1, <3>2 DEF CopySent, CopyFails, TypeInv, TypeOK, n
  <2> QED
    BY <2>1, <2>3, <2>4 DEF S
<1> QED
  BY <1>8, <1>9 DEF PendingInv, HasLatest, PendingExact, Wanted

LEMMA PendingLocal ==
    ASSUME TypeInv, PendingInv, AnswerLocally
    PROVE  PendingInv'
<1> DEFINE q == asked[Current]
<1>1. /\ Len(answers') = Len(answers) + 1 /\ Len(answers) \in Nat
      /\ \A m \in 1..Len(answers) : answers'[m] = answers[m]
      /\ answers'[Len(answers')].for = Current /\ answers'[Len(answers')].via = "direct"
      /\ Current \in Asked /\ q \in Questions
  BY LocalStep
<1>2. /\ pending' = (IF q.kind = "A" THEN [pending EXCEPT ![q.id] = None] ELSE pending)
      /\ asked' = asked /\ copies' = copies
  BY DEF AnswerLocally, ClearPending
<1>3. \A i : Local(i)' <=> Local(i) \/ i = Current
  <2>1. \A m \in 1..Len(answers') : m \in 1..Len(answers) \/ m = Len(answers')
    BY <1>1
  <2>2. Len(answers') \in 1..Len(answers') /\ \A m \in 1..Len(answers) : m \in 1..Len(answers')
    BY <1>1
  <2> QED
    BY <1>1, <2>1, <2>2 DEF Local
<1>4. \A id \in Ids : SameId(id)' = SameId(id) /\ SameId(id) \subseteq Asked
  BY <1>2 DEF SameId, Asked
<1>5. Asked \subseteq Nat /\ \A i \in Asked : i \leq Current
  BY DEF Asked, Current, TypeInv, TypeOK
<1>6. HasLatest'
  BY <1>4 DEF PendingInv, HasLatest
<1>7. q.id \in Ids
  BY <1>1, Shapes
<1>8. ASSUME NEW id \in Ids, q.kind # "A" \/ id # q.id PROVE pending'[id] = Wanted(id)'
  <2>1. Current \notin SameId(id)
    BY <1>8 DEF SameId
  <2>2. SameId(id) # {} => Latest(SameId(id)) \in SameId(id)
    BY LatestIn DEF PendingInv
  <2>3. Wanted(id)' = Wanted(id)
    <3>1. Latest(SameId(id))' = Latest(SameId(id)) /\ SameId(id)' = SameId(id)
      BY <1>4
    <3> QED
      BY <1>2, <1>3, <2>1, <2>2, <3>1 DEF Wanted
  <2>4. pending'[id] = pending[id]
    BY <1>2, <1>7, <1>8 DEF TypeInv, TypeOK
  <2> QED
    BY <2>3, <2>4 DEF PendingInv, PendingExact, Wanted
<1>9. ASSUME NEW id \in Ids, q.kind = "A", id = q.id PROVE pending'[id] = Wanted(id)'
  <2>1. Current \in SameId(id) /\ SameId(id) \subseteq Nat
        /\ \A j \in SameId(id) : j \leq Current
    BY <1>1, <1>4, <1>5, <1>9 DEF SameId
  <2>2. Latest(SameId(id)) = Current
    BY <2>1, LatestIs
  <2>3. Latest(SameId(id))' = Current /\ SameId(id)' = SameId(id)
    BY <1>4, <2>2
  <2>4. Wanted(id)' = None
    BY <1>2, <1>3, <2>3 DEF Wanted
  <2> QED
    BY <1>2, <1>9, <2>4 DEF TypeInv, TypeOK
<1> QED
  BY <1>6, <1>8, <1>9 DEF PendingInv, PendingExact, Wanted

LEMMA PendingStep == TypeInv /\ PendingInv /\ [Next]_vars => PendingInv'
<1> SUFFICES ASSUME TypeInv, PendingInv, [Next]_vars PROVE PendingInv'
  OBVIOUS
<1>1. CASE AskDirect \/ AskFails \/ DirectTimeout \/ LeaveToTunnel
  BY <1>1, PendingKept DEF AskDirect, AskFails, DirectTimeout, LeaveToTunnel, Local
<1>2. ASSUME NEW i \in Asked, ResolverAnswers(i) PROVE PendingInv'
  BY <1>2, PendingKept DEF ResolverAnswers, Local
<1>3. ASSUME NEW i \in Asked, EgressReply(i) PROVE PendingInv'
  <2>1. /\ Len(answers') = Len(answers) + 1 /\ Len(answers) \in Nat
        /\ \A m \in 1..Len(answers) : answers'[m] = answers[m]
        /\ answers'[Len(answers')].via = "clean" /\ pending' = pending
    BY <1>3, ReplyStep
  <2>2. \A m \in 1..Len(answers') : m \in 1..Len(answers) \/ m = Len(answers')
    BY <2>1
  <2>3. \A m \in 1..Len(answers) : m \in 1..Len(answers')
    BY <2>1
  <2>4. \A j \in Asked : Local(j)' <=> Local(j)
    BY <2>1, <2>2, <2>3 DEF Local
  <2>5. UNCHANGED <<asked, copies>>
    BY <1>3 DEF EgressReply
  <2> QED
    BY <2>1, <2>4, <2>5, PendingKept
<1>4. CASE UNCHANGED vars
  BY <1>4, PendingKept DEF vars, Local
<1> QED
  BY <1>1, <1>2, <1>3, <1>4, PendingTake, PendingLocal DEF Next, QueryDirect

(***************************************************************************)
(* The table holds, for each id, the addresses of the last A/IN query that *)
(* used it, just while a clean copy of that query is out and its client has*)
(* no local answer; however ids are reused and whichever sends fail        *)
(* (send_clean_tunneled, clear_pending; dns_intercept.rs:280-330).         *)
(***************************************************************************)
THEOREM PendingIsExact == Spec => []PendingExact
<1>1. Init => PendingInv
  <2> SUFFICES ASSUME Init PROVE PendingInv
    OBVIOUS
  <2>1. \A id : SameId(id) = {}
    BY DEF Init, SameId, Asked
  <2> QED
    BY <2>1 DEF Init, PendingInv, HasLatest, PendingExact
<1>2. PendingInv => PendingExact
  BY DEF PendingInv
<1> QED
  BY <1>1, <1>2, TypeInit, TypeStep, PendingStep, PTL DEF Spec
=============================================================================
