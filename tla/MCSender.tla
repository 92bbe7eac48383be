------------------------------ MODULE MCSender ------------------------------
(* Small instances of Sender for TLC. *)
EXTENDS Sender

\* A mail and an SMS, or an SMS alone.
SomeAddresses == {Relays, {"sms"}}
=============================================================================
