--------------------------- MODULE DeliveryLedger ---------------------------
(***************************************************************************)
(* What the store promises to the bridge, without tokens, claims or rows:  *)
(* a ledger of confirmed deliveries in which every attempt appears at most *)
(* once and two confirmations of one key are at least Window apart.        *)
(* CompleteManualOutgoing confirms two keys in one transaction, hence a    *)
(* step records a set of attempts.                                         *)
(***************************************************************************)
EXTENDS Integers

CONSTANTS Keys, Attempts, KeyOf, Window

VARIABLES clock,   \* the database's now()
          ledger   \* the confirmed deliveries

Entry(a) == [key |-> KeyOf[a], token |-> a, at |-> clock]

Open(a) ==
    /\ \A e \in ledger : e.token # a
    /\ \A e \in ledger : e.key = KeyOf[a] => e.at + Window <= clock

LedgerInit ==
    /\ clock = 0
    /\ ledger = {}

Record(D) ==
    /\ D # {}
    /\ \A a \in D : Open(a)
    /\ \A a, b \in D : KeyOf[a] = KeyOf[b] => a = b
    /\ ledger' = ledger \cup {Entry(a) : a \in D}
    /\ clock' = clock

Advance ==
    /\ clock' = clock + 1
    /\ ledger' = ledger

LedgerNext == Advance \/ \E D \in SUBSET Attempts : Record(D)

Ledger == LedgerInit /\ [][LedgerNext]_<<clock, ledger>>

=============================================================================
