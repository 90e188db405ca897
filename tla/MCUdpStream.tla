----------------------------- MODULE MCUdpStream -----------------------------
(***************************************************************************)
(* Instances of UdpStream for TLC.  The two directions meet only in the    *)
(* counterparty: in a behaviour the owner only reads, with no fault and    *)
(* three datagrams or with faults and two, or writes three buffers, with   *)
(* one datagram to tell it the counterparty.  p1 hashes to the first       *)
(* socket: the sockets are alike.                                          *)
(***************************************************************************)
EXTENDS UdpStream

CONSTANTS p1, p2

VARIABLE use

MCInit ==
    /\ Init /\ use \in {"reads", "faults", "writes"}
    /\ hash[p1] = 0 /\ counterparty \in {NoPeer, p1}
    /\ use = "writes" => mode = "Error" /\ hash[p2] = 0
    /\ use = "faults" => mode # "Accept" /\ counterparty = NoPeer

\* The step is not one of the kernel's refusals, errors and empty datagrams.
Faultless ==
    /\ attempts' = attempts \/ attempts \in Sending'
    /\ \A s \in Attempts : \A i \in DOMAIN kernel'[s] : kernel'[s][i].what = "data"
    /\ \A s \in Attempts : rxItem'[s] = rxItem[s] \/ rxItem'[s].what # "error" \/ rxItem'[s].from # NoPeer

MCNext ==
    /\ Next /\ UNCHANGED use
    /\ use # "faults" => Faultless /\ (phase = "binding" => arrived' = arrived)
    /\ use # "writes" => offered' = 0
    /\ arrived'[p1] <= IF use = "reads" THEN 2 ELSE 1
    /\ arrived'[p2] <= IF use = "writes" THEN 0 ELSE 1

MCSpec ==
    /\ MCInit /\ [][MCNext]_<<vars, use>>
    /\ WF_vars(Build) /\ WF_vars(PollRead)
    /\ \A s \in Attempts : WF_vars(RxTask(s)) /\ WF_vars(TxTask(s))
=============================================================================
