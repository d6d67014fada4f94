---------------------------- MODULE DnsIntercept ----------------------------
(***************************************************************************)
(* The chinadns interceptor (dns_intercept.rs).  The ingress task hands it *)
(* the DNS queries of the clients one at a time.  Every query is asked of  *)
(* the domestic resolver over one unconnected socket; an A/IN query is     *)
(* also copied to the clean resolver through the tunnel, and the egress    *)
(* task meets the reply.  Both tasks emit answers to the clients.          *)
(*                                                                         *)
(* External: the two resolvers and the network in between, which lose      *)
(* datagrams (nothing forces them on) and delay them without bound; the    *)
(* clean path also reorders and repeats them.                              *)
(***************************************************************************)
EXTENDS Naturals, Sequences

CONSTANTS
    Questions,    \* the queries clients make: [client, server, id, kind]
    DnsRemote,    \* dns_remote, an endpoint [ip, port]
    MaxQueries,   \* queries ingested
    MaxReplies    \* clean replies that come back through the tunnel

DnsPort == 53
Ids == {q.id : q \in Questions}
Endpoints == {q.client : q \in Questions} \cup {q.server : q \in Questions} \cup {DnsRemote}
Verdicts == {"domestic", "foreign", "empty"}

\* Clients ask port 53 of a server, from a port and an address of their own.
ASSUME DnsAssumption ==
    /\ \A q \in Questions :
          /\ q = [client |-> q.client, server |-> q.server, id |-> q.id, kind |-> q.kind]
          /\ q.kind \in {"A", "other"}
          /\ q.server.port = DnsPort
          /\ q.client.ip # DnsRemote.ip
    /\ MaxQueries \in Nat
    /\ MaxReplies \in Nat

\* No entry for an id: no server listens on port 0.
Nowhere == [ip |-> "none", port |-> 0]
None == [client |-> Nowhere, server |-> Nowhere]

VARIABLES
    asked,     \* the queries taken so far
    stage,     \* where try_intercept is with the last of them
    pending,   \* pending[id]: the addressing recorded for a clean reply, or None
    resolver,  \* the queries the domestic resolver has yet to answer
    inbox,     \* the receive buffer of the direct socket
    copies,    \* the queries whose clean copy was handed to the tunnel socket
    replies,   \* how many clean replies the tunnel has brought back
    expired,   \* the queries that were given up after LOCAL_QUERY_TIMEOUT
    answers    \* everything emitted to the clients, in order

vars == <<asked, stage, pending, resolver, inbox, copies, replies, expired, answers>>

Asked == 1..Len(asked)
Current == Len(asked)

TypeOK ==
    /\ asked \in Seq(Questions)
    /\ Len(asked) \leq MaxQueries
    /\ stage \in {"idle", "asking", "waiting"}
    /\ pending \in [Ids -> {None} \cup [client : Endpoints, server : Endpoints]]
    /\ resolver \subseteq Asked
    /\ inbox \in Seq([of : Asked, verdict : Verdicts])
    /\ copies \subseteq Asked
    /\ replies \in 0..MaxReplies
    /\ expired \subseteq Asked
    /\ answers \in Seq([via : {"direct", "clean"}, for : 0..MaxQueries, of : Asked,
                        verdict : Verdicts, from : Endpoints, to : Endpoints])

Init ==
    /\ asked = <<>>
    /\ stage = "idle"
    /\ pending = [id \in Ids |-> None]
    /\ resolver = {}
    /\ inbox = <<>>
    /\ copies = {}
    /\ replies = 0
    /\ expired = {}
    /\ answers = <<>>

-----------------------------------------------------------------------------
(***************************************************************************)
(* try_intercept, in the ingress task.                                     *)
(***************************************************************************)
\* Faulty variant of AddressesOf: the server's address is not recorded.
ClientOnly(q) == [client |-> q.client]

AddressesOf(q) == [client |-> q.client, server |-> q.server]

\* send_clean_tunneled: the id is recorded, then the copy is encrypted and sent by a
\* detached task; if it cannot be encrypted the record is taken back.
CopySent(q) ==
    /\ pending' = [pending EXCEPT ![q.id] = AddressesOf(q)]
    /\ copies' = copies \cup {Len(asked')}

CopyFails(q) ==
    /\ pending' = [pending EXCEPT ![q.id] = None]
    /\ UNCHANGED copies

\* A query that is not A/IN is relayed to the domestic resolver only.
NoCopy == UNCHANGED <<pending, copies>>

TakeQuery(q) ==
    /\ stage = "idle"
    /\ Len(asked) < MaxQueries
    /\ asked' = Append(asked, q)
    /\ stage' = "asking"
    /\ \/ q.kind = "A" /\ (CopySent(q) \/ CopyFails(q))
       \/ q.kind # "A" /\ NoCopy
    /\ UNCHANGED <<resolver, inbox, replies, expired, answers>>

\* query_direct: send_to, then recv_from until LOCAL_QUERY_TIMEOUT.
AskDirect ==
    /\ stage = "asking"
    /\ stage' = "waiting"
    /\ resolver' = resolver \cup {Current}
    /\ UNCHANGED <<asked, pending, inbox, copies, replies, expired, answers>>

\* Faulty variant: given up after the query has left.
AskFailsLate ==
    /\ stage = "asking"
    /\ stage' = "idle"
    /\ resolver' = resolver \cup {Current}
    /\ UNCHANGED <<asked, pending, inbox, copies, replies, expired, answers>>

AskFails ==
    /\ stage = "asking"
    /\ stage' = "idle"
    /\ UNCHANGED <<asked, pending, resolver, inbox, copies, replies, expired, answers>>

\* Faulty variant: recv_from without a timeout.
NeverTimesOut == FALSE

DirectTimeout ==
    /\ stage = "waiting"
    /\ inbox = <<>>
    /\ stage' = "idle"
    /\ expired' = expired \cup {Current}
    /\ UNCHANGED <<asked, pending, resolver, inbox, copies, replies, answers>>

\* The first datagram in the buffer is the answer, whatever it answers.
TakesLocal(q, a) == q.kind # "A" \/ a.verdict # "foreign"

\* Faulty variant of ClearPending: a relayed query clears its id as well.
ClearPendingAlways(q) == [pending EXCEPT ![q.id] = None]

\* clear_pending, on the A/IN path only.
ClearPending(q) == IF q.kind = "A" THEN [pending EXCEPT ![q.id] = None] ELSE pending

\* Relayed, or domestic (its first A record is in chnroute, or it has none): the local
\* answer is returned and a clean reply is no longer wanted.
AnswerLocally ==
    /\ stage = "waiting"
    /\ inbox # <<>>
    /\ LET q == asked[Current]
           a == Head(inbox) IN
       /\ TakesLocal(q, a)
       /\ pending' = ClearPending(q)
       /\ answers' = Append(answers, [via |-> "direct", for |-> Current, of |-> a.of,
                                      verdict |-> a.verdict,
                                      from |-> q.server, to |-> q.client])
    /\ inbox' = Tail(inbox)
    /\ stage' = "idle"
    /\ UNCHANGED <<asked, resolver, copies, replies, expired>>

\* Foreign: left to the clean reply.
LeaveToTunnel ==
    /\ stage = "waiting"
    /\ inbox # <<>>
    /\ ~TakesLocal(asked[Current], Head(inbox))
    /\ inbox' = Tail(inbox)
    /\ stage' = "idle"
    /\ UNCHANGED <<asked, pending, resolver, copies, replies, expired, answers>>

-----------------------------------------------------------------------------
(***************************************************************************)
(* The resolvers (external) and the egress task.                           *)
(***************************************************************************)
ResolverAnswers(i) ==
    /\ i \in resolver
    /\ \E v \in Verdicts : inbox' = Append(inbox, [of |-> i, verdict |-> v])
    /\ resolver' = resolver \ {i}
    /\ UNCHANGED <<asked, stage, pending, copies, replies, expired, answers>>

\* parse_udp_dns_query and try_handle_tunneled_reply: what makes a tunneled packet the
\* reply to a pending query.  parse_udp_dns_query takes the port and the address that
\* it calls the server's from the destination of the packet.
Pairs(packet) ==
    /\ packet.dst.port = DnsPort
    /\ packet.dst.ip = DnsRemote.ip
    /\ pending[packet.id] # None

\* A reply of the clean resolver comes out of the tunnel: paired with its query and
\* readdressed, or else handed to the client as it is.
EgressReply(i) ==
    /\ i \in copies
    /\ replies < MaxReplies
    /\ replies' = replies + 1
    /\ LET packet == [src |-> DnsRemote, dst |-> asked[i].client, id |-> asked[i].id]
           owner  == pending[packet.id]
           reply(from, to) == [via |-> "clean", for |-> 0, of |-> i, verdict |-> "foreign",
                               from |-> from, to |-> to] IN
       IF Pairs(packet)
       THEN /\ answers' = Append(answers, reply(owner.server, owner.client))
            /\ pending' = [pending EXCEPT ![packet.id] = None]
       ELSE /\ answers' = Append(answers, reply(packet.src, packet.dst))
            /\ UNCHANGED pending
    /\ UNCHANGED <<asked, stage, resolver, inbox, copies, expired>>

QueryDirect == AskDirect \/ AskFails \/ DirectTimeout \/ AnswerLocally \/ LeaveToTunnel

Next ==
    \/ \E q \in Questions : TakeQuery(q)
    \/ QueryDirect
    \/ \E i \in Asked : ResolverAnswers(i) \/ EgressReply(i)

Spec == Init /\ [][Next]_vars

\* The ingress task is polled: send_to completes, recv_from yields a buffered datagram,
\* and the timer of an empty one fires.
FairSpec == Spec /\ WF_vars(QueryDirect)

-----------------------------------------------------------------------------
(***************************************************************************)
(* Properties.                                                             *)
(***************************************************************************)
Local(i) == \E n \in 1..Len(answers) : answers[n].via = "direct" /\ answers[n].for = i

SameId(id) == {i \in Asked : asked[i].kind = "A" /\ asked[i].id = id}
Latest(S) == CHOOSE i \in S : \A j \in S : j \leq i

\* What the pending table holds, across reused ids, failed copies, timeouts and the two
\* tasks that write it: an id is pending exactly for the last A/IN query that used it, if
\* that query was copied to the tunnel and the client has had no local answer to it.
PendingExact ==
    \A id \in Ids :
        pending[id] =
            IF SameId(id) = {} THEN None
            ELSE LET i == Latest(SameId(id)) IN
                 IF i \in copies /\ ~Local(i) THEN AddressesOf(asked[i]) ELSE None

\* While no query has timed out, an answer from the direct socket is the answer to the
\* query it is given to: only a late answer can put the socket out of step.
InStepUntilTimeout ==
    \A n \in 1..Len(answers) :
        LET a == answers[n] IN
        a.via = "direct" /\ a.of # a.for => \E j \in expired : j < a.for

\* The ingress task is done with every query it takes (a dead resolver does not stall it).
QueryFinishes == stage # "idle" ~> stage = "idle"

\* The next two are what comments of the code promise and runs refute.

\* query_direct: the datagram received is "the reply" to the message sent, so that a
\* client gets the answer to the question it asked (or asked again).
AnswersItsQuestion ==
    \A n \in 1..Len(answers) :
        LET a == answers[n] IN a.via = "direct" => asked[a.of] = asked[a.for]

\* try_handle_tunneled_reply: a clean answer is addressed "from the client's intended
\* DNS server (the one it queried) back to the client".
CleanReplyReaddressed ==
    \A n \in 1..Len(answers) :
        LET a == answers[n] IN a.via = "clean" => a.from = asked[a.of].server
=============================================================================
