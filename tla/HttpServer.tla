----------------------------- MODULE HttpServer -----------------------------
(***************************************************************************)
(* HTTPV1: a detached thread for each connection, which receives once,     *)
(* answers and closes.  The thread gets a ThreadData on the heap, which    *)
(* names the connection by its descriptor.                                 *)
(*                                                                         *)
(* ReadHtmlContent makes a string of the file's length, filled with zero   *)
(* bytes; the line that would read the file is commented out (128).        *)
(***************************************************************************)
EXTENDS Sockets

CONSTANTS Urls,        \* what may be asked for
          Files,       \* the URLs for which wwwroot has a file
          Nothing      \* no URL, and no page

VARIABLES thread,      \* what the thread of each connection does next
          tds,         \* the sockfd of the ThreadData of each thread
          asked,       \* the URL each thread has parsed
          page,        \* the body each client was sent last
          up           \* the process lives

http == <<thread, tds, asked, page, up>>
vars == <<net, http>>

Init == /\ NetInit
        /\ thread = [c \in Conns |-> "none"]
        /\ tds = [c \in Conns |-> Nothing]
        /\ asked = [c \in Conns |-> Nothing]
        /\ page = [c \in Conns |-> Nothing]
        /\ up = TRUE

Goto(c, from, to) == thread[c] = from /\ thread' = [thread EXCEPT ![c] = to]

-----------------------------------------------------------------------------
(* Mutant: one ThreadData for all threads. *)
AcceptLinkShared ==
  /\ Accept
  /\ \E place \in {"recv", "lost"} : Goto(Head(backlog), "none", place)
  /\ tds' = [c \in Conns |-> NextFd]
  /\ UNCHANGED <<asked, page, up>>

(* Start.  The result of pthread_create is not tested: without a thread    *)
(* the connection stays open, and nobody serves it.                        *)
AcceptLink == /\ Accept
              /\ LET c == Head(backlog)
                 IN  /\ tds' = [tds EXCEPT ![c] = NextFd]
                     /\ \E place \in {"recv", "lost"} : Goto(c, "none", place)
              /\ UNCHANGED <<asked, page, up>>

AcceptError == AcceptFails /\ UNCHANGED http

-----------------------------------------------------------------------------
(* HandlerHttp, for the thread made for connection c. *)
Sockfd(c) == tds[c]

(* Deserialize and Prase.  What recv returned may lack the first "\r\n";   *)
(* then there is no req_header[0], and what is read instead of it crashes  *)
(* the process or is taken for a request.                                  *)
Parse(c) == \/ /\ \E url \in Urls : asked' = [asked EXCEPT ![c] = url]
               /\ UNCHANGED up
            \/ up' = FALSE /\ UNCHANGED asked

Recv(c) == \/ Goto(c, "recv", "send") /\ ReadData(Sockfd(c)) /\ Parse(c)
           \/ /\ Goto(c, "recv", "close") /\ AtEnd(Sockfd(c))
              /\ UNCHANGED <<net, asked, up>>

ReadHtmlContent(url) == IF url \in Files THEN "zeros" ELSE "404"

(* The response is a 200 in both cases. *)
Respond(c) == /\ Goto(c, "send", "close")
              /\ page' = [page EXCEPT ![fds[Sockfd(c)]] = ReadHtmlContent(asked[c])]
              /\ UNCHANGED <<net, tds, asked, up>>

CloseAndDelete(c) == /\ Goto(c, "close", "none")
                     /\ Close(Sockfd(c))
                     /\ tds' = [tds EXCEPT ![c] = Nothing]
                     /\ asked' = [asked EXCEPT ![c] = Nothing]
                     /\ UNCHANGED <<page, up>>

ThreadRun(c) == \/ Recv(c) /\ UNCHANGED <<tds, page>>
                \/ Respond(c) \/ CloseAndDelete(c)

-----------------------------------------------------------------------------
Users == \E c \in Conns : Client(c) /\ UNCHANGED http

(* The process is gone. *)
Ended == ~up /\ UNCHANGED vars

Next == \/ up /\ (AcceptLink \/ AcceptError)
        \/ up /\ \E c \in Conns : ThreadRun(c)
        \/ Users \/ Ended

Spec == Init /\ [][Next]_vars

-----------------------------------------------------------------------------
(* The type invariant. *)
TypeOK == /\ NetTypeOK
          /\ thread \in [Conns -> {"none", "recv", "send", "close", "lost"}]
          /\ tds \in [Conns -> Fds \cup {Nothing}]
          /\ asked \in [Conns -> Urls \cup {Nothing}]
          /\ page \in [Conns -> {Nothing, "zeros", "404"}]
          /\ up \in BOOLEAN

(* Lines 187-189: a thread only ever receives from, answers and closes the *)
(* connection it was made for, although the numbers of closed descriptors  *)
(* are given to others while it runs.                                      *)
ServesItsOwn ==
  \A c \in Conns : thread[c] \in {"recv", "send", "close"} => fds[Sockfd(c)] = c

(* Lines 120 and 130: files are read byte by byte, pictures too.  What is  *)
(* sent for a file that exists is its content.                             *)
BodyIsTheFile == \A c \in Conns : page[c] # "zeros"
=============================================================================
