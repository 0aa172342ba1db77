--------------------------- MODULE MCLinuxCapture ---------------------------
(***************************************************************************)
(* LinuxCapture on small instances.                                        *)
(***************************************************************************)
EXTENDS LinuxCapture

CONSTANTS k1, k2, uuid1, uuid2

\* uuid1 sorts before uuid2.
MCProfiles == <<uuid1, uuid2>>

\* A managed station with two connections, the primary sorting first; one with
\* a single connection, that NetworkManager may join by the other; an access
\* point NetworkManager leaves alone, with its link down.
MCHomes ==
  {[type |-> "managed", up |-> TRUE, freq |-> "home", managed |-> TRUE,
    conns |-> {uuid1, uuid2}, primary |-> uuid1],
   [type |-> "managed", up |-> TRUE, freq |-> "home", managed |-> TRUE,
    conns |-> {uuid2}, primary |-> uuid2],
   [type |-> "AP", up |-> FALSE, freq |-> "home", managed |-> FALSE,
    conns |-> {}, primary |-> NoConn]}

\* iw names the channel of a monitor with its link up, of a station while it is
\* connected, and of an access point.
MCRadio ==
  {s \in InterfaceState :
     s.type = "AP" \/ (s.up /\ (s.type = "managed" => s.conns # {}))}
=============================================================================
