------------------------------ MODULE UdpChat ------------------------------
(***************************************************************************)
(* NetWork/UDP: a chat room.  The server learns a user from the first      *)
(* datagram of its host and sends every message to all users; each client  *)
(* has one thread that sends and one that receives.  Datagrams get lost,   *)
(* overtake each other and come twice, and a client that is started again  *)
(* has a port of its own.                                                  *)
(*                                                                         *)
(* A message is known by its sender, which Handler puts in front of it.    *)
(***************************************************************************)
CONSTANTS Addresses,     \* of client programs: records with an ip and a port
          NoAddress

Ips == {a.ip : a \in Addresses}

AddressesAssumption == NoAddress \notin Addresses

VARIABLES running,       \* the addresses where a client runs
          user_list,     \* for each ip, the address it was first heard from
          upward,        \* datagrams to the server, by sender
          downward       \* datagrams to clients: whom to, and whose message

vars == <<running, user_list, upward, downward>>

Init == /\ running = {}
        /\ user_list = [ip \in Ips |-> NoAddress]
        /\ upward = {} /\ downward = {}

Users == {user_list[ip] : ip \in Ips} \ {NoAddress}

-----------------------------------------------------------------------------
(* UdpClient.cc *)
Start(a) == /\ a \notin running /\ running' = running \cup {a}
            /\ UNCHANGED <<user_list, upward, downward>>

Leave(a) == /\ a \in running /\ running' = running \ {a}
            /\ UNCHANGED <<user_list, upward, downward>>

send_message(a) == /\ a \in running /\ upward' = upward \cup {a}
                   /\ UNCHANGED <<running, user_list, downward>>

resv_message(a, from) == /\ a \in running /\ <<a, from>> \in downward
                         /\ downward' = downward \ {<<a, from>>}
                         /\ UNCHANGED <<running, user_list, upward>>

-----------------------------------------------------------------------------
(* UdpServer.hpp *)
UserCheck(a) == user_list' = IF user_list[a.ip] = NoAddress
                             THEN [user_list EXCEPT ![a.ip] = a] ELSE user_list

(* Mutant: the sender is answered, as in lines 88-90. *)
Echo(a) == downward' = downward \cup {<<user_list'[a.ip], a>>}

Broadcast(a) == downward' = downward \cup {<<u, a>> : u \in {user_list'[ip] : ip \in Ips} \ {NoAddress}}

(* One turn of Run.  What it sends travels for any time, so it makes no    *)
(* difference that the calls of sendto are one step. *)
Run(a) == /\ a \in upward
          /\ UserCheck(a) /\ Broadcast(a)
          /\ upward' = upward \ {a}
          /\ UNCHANGED running

(* The network: loss.  A second copy that comes later is one more step of  *)
(* its sender; one that comes to a client changes nothing more there.      *)
Lose == \/ \E a \in upward : upward' = upward \ {a} /\ UNCHANGED downward
        \/ \E d \in downward : downward' = downward \ {d} /\ UNCHANGED upward

-----------------------------------------------------------------------------
Next == \/ \E a \in Addresses : \/ Start(a) \/ Leave(a) \/ send_message(a) \/ Run(a)
                                \/ \E b \in Addresses : resv_message(a, b)
        \/ Lose /\ UNCHANGED <<running, user_list>>

Spec == Init /\ [][Next]_vars

(* A user who stays goes on typing, the server and the receiving threads   *)
(* run, and the network does not lose every datagram of the same kind.     *)
FairSpec == /\ Spec
            /\ \A a \in Addresses : /\ WF_vars(send_message(a))
                                    /\ SF_vars(Run(a))
                                    /\ \A b \in Addresses : SF_vars(resv_message(a, b))

-----------------------------------------------------------------------------
(* The type invariant. *)
TypeOK == /\ running \in SUBSET Addresses /\ upward \in SUBSET Addresses
          /\ user_list \in [Ips -> Addresses \cup {NoAddress}]
          /\ \A ip \in Ips : user_list[ip] # NoAddress => user_list[ip].ip = ip
          /\ downward \in SUBSET (Users \X Addresses)

(* Lines 62-67: everybody who is a user hears everybody who goes on        *)
(* talking, users or not, itself included.                                 *)
UsersHearEveryone ==
  \A a, b \in Addresses :
    <>[](a \in Users /\ a \in running /\ b \in running)
      => []<><<resv_message(a, b)>>_vars

(* UdpClient.cc:98: which port a client has does not matter.  Whoever says *)
(* something hears it, so it must be among the users then.                 *)
TalkersAreUsers ==
  [][\A a \in Addresses : Run(a) => \E ip \in Ips : user_list'[ip] = a]_vars
=============================================================================
