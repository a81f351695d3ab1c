----------------------------- MODULE Calculator -----------------------------
(***************************************************************************)
(* NetCalculator: a server that forks a child for each connection, and a   *)
(* client that sends a request, reads once, and asserts that it has read   *)
(* an answer.  A package is the length of its content, a newline, the      *)
(* content and another newline; TCP may cut the stream anywhere.           *)
(*                                                                         *)
(* Children share nothing, so one connection is modelled.  A stream is a   *)
(* sequence of tokens: a number, a newline, or the JSON text of a request  *)
(* or response, which ends in a newline of its own (Json::FastWriter).     *)
(***************************************************************************)
EXTENDS Integers, Sequences

CONSTANTS Requests,     \* what the client may ask: records with x, y and op
          Rounds,       \* how often it asks (cnt)
          Eager         \* may a client send the next request before it reads?
                        \* ClientCal.cc does not; lines 51-58, commented out, do

RoundsAssumption == Rounds \in Nat \ {0} /\ Eager \in BOOLEAN

VARIABLES child, client,          \* what either process does next
          upstream, downstream,   \* what is on its way
          inbuffer, outcome,      \* the inbuffer_stream of the child, of the client
          asked, answered, got    \* history: requests, responses written, read

vars == <<child, client, upstream, downstream, inbuffer, outcome, asked, answered, got>>

Init == /\ child = "none" /\ client = "away"
        /\ upstream = << >> /\ downstream = << >>
        /\ inbuffer = << >> /\ outcome = << >>
        /\ asked = << >> /\ answered = << >> /\ got = << >>

-----------------------------------------------------------------------------
(* Protocol.hpp *)
protocol_sep == [token |-> "newline"]
Number(n)    == [token |-> "number", value |-> n]
Serialize(r) == <<[token |-> "json", value |-> r], protocol_sep>>

Deserialize(content) == content[1].value

Encode(content) == <<Number(Len(content)), protocol_sep>> \o content \o <<protocol_sep>>

Separators(package) == {p \in DOMAIN package : package[p] = protocol_sep}
FirstSep(package)   == CHOOSE p \in Separators(package) :
                         \A q \in Separators(package) : p <= q
TotalLen(package)   == FirstSep(package) + package[1].value + 1

CanDecode(package) == Separators(package) # {} /\ Len(package) >= TotalLen(package)
Content(package)   == SubSeq(package, FirstSep(package) + 1, TotalLen(package) - 1)

(* Mutant: the package is not erased. *)
NotErased(package) == package

Erased(package)    == SubSeq(package, TotalLen(package) + 1, Len(package))

(* ServerCal.hpp; case '%' runs on into default. *)
DIV_ZERO   == 1
MODE_ZERO  == 2
OTHER_OPER == 3

Code(req) == CASE req.op \in {"+", "-", "*"} -> 0
               [] req.op = "/"               -> IF req.y = 0 THEN DIV_ZERO ELSE 0
               [] OTHER                      -> OTHER_OPER

Result(req) == CASE req.op = "+" -> req.x + req.y
                 [] req.op = "-" -> req.x - req.y
                 [] req.op = "*" -> req.x * req.y
                 [] req.op = "/" /\ req.y # 0 -> req.x \div req.y
                 [] req.op = "%" /\ req.y # 0 -> req.x % req.y
                 [] OTHER -> 0

CalculatorHelper(req) == [result |-> Result(req), code |-> Code(req)]

-----------------------------------------------------------------------------
(* The parent: accept, and a child for the connection.  If fork fails the  *)
(* parent only closes it.                                                  *)
Accept == /\ child = "none" /\ client # "away"
          /\ child' \in {"reading", "refused"}
          /\ UNCHANGED <<client, upstream, downstream, inbuffer, outcome, asked, answered, got>>

(* The child.  Some of what has come is appended to inbuffer_stream ... *)
Read == /\ child = "reading" /\ child' = "answering"
        /\ \E n \in 1 .. Len(upstream) :
             /\ inbuffer' = inbuffer \o SubSeq(upstream, 1, n)
             /\ upstream' = SubSeq(upstream, n + 1, Len(upstream))
        /\ UNCHANGED <<client, downstream, outcome, asked, answered, got>>

(* ... and every whole package in it is answered. *)
Answer == LET resp == CalculatorHelper(Deserialize(Content(inbuffer)))
          IN  /\ child = "answering" /\ CanDecode(inbuffer)
              /\ inbuffer' = Erased(inbuffer)
              /\ downstream' = downstream \o Encode(Serialize(resp))
              /\ answered' = Append(answered, resp)
              /\ UNCHANGED <<client, upstream, outcome, asked, got>>

(* Mutant: one answer for each read. *)
CalculatorOnce ==
  \/ Answer /\ child' = "reading"
  \/ /\ child = "answering" /\ ~CanDecode(inbuffer) /\ child' = "reading"
     /\ UNCHANGED <<client, upstream, downstream, inbuffer, outcome, asked, answered, got>>

Calculator ==
  \/ Answer /\ UNCHANGED child
  \/ /\ child = "answering" /\ ~CanDecode(inbuffer) /\ child' = "reading"
     /\ UNCHANGED <<client, upstream, downstream, inbuffer, outcome, asked, answered, got>>

(* read returns 0, or fails because the client left answers unread. *)
Exit == /\ child = "reading" /\ client \in {"closed", "aborted", "killed"}
        /\ child' = "exited"
        /\ UNCHANGED <<client, upstream, downstream, inbuffer, outcome, asked, answered, got>>

-----------------------------------------------------------------------------
(* The client *)
Connect == /\ client = "away" /\ client' = "write"
           /\ UNCHANGED <<child, upstream, downstream, inbuffer, outcome, asked, answered, got>>

(* On a connection the server has closed, a later write raises SIGPIPE. *)
Write == /\ client = "write" \/ (Eager /\ client = "read")
         /\ Len(asked) < Rounds
         /\ client' = "read" \/ (child = "refused" /\ client' = "killed")
         /\ \E req \in Requests : /\ upstream' = upstream \o Encode(Serialize(req))
                                  /\ asked' = Append(asked, req)
         /\ UNCHANGED <<child, downstream, inbuffer, outcome, answered, got>>

(* One read, one Decode, and the assert of line 67. *)
ReadAnswer ==
  /\ client = "read"
  /\ \E n \in 1 .. Len(downstream) :
       LET stream == outcome \o SubSeq(downstream, 1, n)
       IN  /\ downstream' = SubSeq(downstream, n + 1, Len(downstream))
           /\ IF CanDecode(stream)
              THEN /\ client' = "write" /\ outcome' = Erased(stream)
                   /\ got' = Append(got, Deserialize(Content(stream)))
              ELSE client' = "aborted" /\ outcome' = stream /\ UNCHANGED got
  /\ UNCHANGED <<child, upstream, inbuffer, asked, answered>>

(* read returns 0, and the loop goes on. *)
ReadNothing == /\ client = "read" /\ child = "refused" /\ client' = "write"
               /\ UNCHANGED <<child, upstream, downstream, inbuffer, outcome, asked, answered, got>>

Close == /\ client = "write" /\ Len(asked) = Rounds /\ client' = "closed"
         /\ UNCHANGED <<child, upstream, downstream, inbuffer, outcome, asked, answered, got>>

-----------------------------------------------------------------------------
Server == Accept \/ Read \/ Calculator \/ Exit
Client == Connect \/ Write \/ ReadAnswer \/ ReadNothing \/ Close

(* The parent waits for the next connection. *)
Idle == child \in {"exited", "refused"} /\ UNCHANGED vars

Next == Server \/ Client \/ Idle

Spec == Init /\ [][Next]_vars

(* The server's processes run; the client may stop anywhere. *)
FairSpec == Spec /\ WF_vars(Server)

-----------------------------------------------------------------------------
(* Lines 44-51 of TcpServer.hpp: however the stream is cut, the answers    *)
(* are those to the requests, in their order and each once, and what the   *)
(* client takes for answers are the first of them.                         *)
AnswersInOrder ==
  /\ Len(answered) <= Len(asked) /\ Len(got) <= Len(answered)
  /\ \A k \in DOMAIN answered : answered[k] = CalculatorHelper(asked[k])
  /\ \A k \in DOMAIN got : got[k] = answered[k]

(* Every request is answered, also when several came with one read, unless *)
(* there was no child for the client or it has left.                       *)
EveryRequestIsAnswered ==
  \A n \in 1 .. Rounds :
    Len(asked) >= n ~> \/ Len(answered) >= n \/ child = "refused"
                       \/ client \in {"closed", "aborted", "killed"}

(* ClientCal.cc:67, assert(r): what was read is a whole answer. *)
AssertDecoded == client # "aborted"

(* Protocol.hpp:148: a code of 0 says that the result can be trusted, any  *)
(* other names the reason why not.                                         *)
CodesTellTheTruth ==
  \A k \in DOMAIN answered :
    LET req == asked[k]
    IN  answered[k].code = CASE req.op \in {"+", "-", "*"} -> 0
                             [] req.op = "/" -> IF req.y = 0 THEN DIV_ZERO ELSE 0
                             [] req.op = "%" -> IF req.y = 0 THEN MODE_ZERO ELSE 0
                             [] OTHER        -> OTHER_OPER
=============================================================================
