----------------------------- MODULE MCContacts -----------------------------
(***************************************************************************)
(* Instances of Contacts: handlers, an add-contact and a                   *)
(* start-conversation for one number.                                      *)
(***************************************************************************)
EXTENDS Contacts

CONSTANTS h1, h2, adder, starter

=============================================================================
