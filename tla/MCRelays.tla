------------------------------ MODULE MCRelays ------------------------------
(* Small instances of Relays for TLC. *)
EXTENDS Relays

\* The mains fails and comes back.
MainsOnly == {0, 1}

\* Devices with an antenna fault, or with none.
AntennaFails == {Antenna}
NoneFails == {}

\* The user tries the relay of the antenna, or that of the power supply as well.
OneButton == {2}
TwoButtons == {2, 4}

\* The cables stay as they are.
NoCable == {0}

\* One cable, enabled or not.
OneCable == {0, 1}
=============================================================================
