------------------------------ MODULE Contacts ------------------------------
(***************************************************************************)
(* How a WhatsApp number becomes a Chatwoot contact bound to the inbox, an *)
(* open conversation and a row of `contact_map`, for one tenant and one    *)
(* JID.  Three programs do it concurrently: the WhatsApp handler           *)
(* (EnsureContactConversation of internal/chatwoot/client.go and what      *)
(* HandleEvogoWebhook does around it), and the commands add-contact and    *)
(* start-conversation.  Every call to Chatwoot is one step, so what one    *)
(* program looked up may be gone when it uses it.                          *)
(*                                                                         *)
(* Chatwoot numbers contacts, refuses a second contact with the same       *)
(* identifier and a second binding of the same source_id, and deletes a    *)
(* contact with its binding and its conversations.                         *)
(***************************************************************************)
EXTENDS Naturals, FiniteSets

CONSTANTS Handlers,     \* WhatsApp handlers, each redelivered until it succeeds
          Adders,       \* runs of add-contact
          Starters,     \* runs of start-conversation
          MaxContacts,  \* bound: contacts ever created
          MaxFaults,    \* bound: calls that fail or whose answer is lost
          MayDelete     \* agents may delete the contact

Programs == Handlers \cup Adders \cup Starters

ASSUME ContactsAssumption ==
    /\ Handlers \cap Adders = {} /\ Handlers \cap Starters = {}
    /\ Adders \cap Starters = {}
    /\ MaxContacts \in Nat \ {0} /\ MaxFaults \in Nat /\ MayDelete \in BOOLEAN

ContactIds == 1..MaxContacts
None == 0

VARIABLES live,     \* Chatwoot: the contact with this identifier, or None
          last,     \* Chatwoot: the number of contacts created
          bound,    \* Chatwoot: contacts whose contact_inbox has this source_id
          open,     \* Chatwoot: open conversations of each contact
          mapped,   \* contact_map: chatwoot_contact_id of this JID, or None
          faults,   \* failed calls so far
          pc,       \* Programs -> the next call, or how the program ended
          contact,  \* Programs -> the contact it works with
          fresh     \* Programs -> its copy of that contact shows the binding

chatwoot == <<live, last, bound, open>>
local == <<contact, fresh>>
vars == <<live, last, bound, open, mapped, faults, pc, contact, fresh>>

Init ==
    /\ live = None /\ last = 0 /\ bound = {}
    /\ open = [c \in ContactIds |-> 0]
    /\ mapped = None /\ faults = 0
    /\ pc = [p \in Programs |-> IF p \in Starters THEN "mapping" ELSE "find"]
    /\ contact = [p \in Programs |-> None]
    /\ fresh = [p \in Programs |-> FALSE]

-----------------------------------------------------------------------------

Goto(p, l) == pc' = [pc EXCEPT ![p] = l]

Fault == faults < MaxFaults /\ faults' = faults + 1

\* How a call that was carried out goes on, or one that was refused.
Answered(p, next, otherwise) ==
    \/ Goto(p, next) /\ UNCHANGED faults
    \/ Goto(p, otherwise) /\ Fault

\* What p does once its contact is bound to the inbox.
AfterBinding(p) ==
    CASE p \in Handlers -> "lookup"
      [] p \in Adders   -> "save"
      [] p \in Starters -> "open"

\* What p does if the contact could not be created: only add-contact looks
\* again whether somebody else did.
AfterRefusal(p) == IF p \in Adders THEN "refetch" ELSE "failed"

\* GetContactByJID of start-conversation.
ReadMapping(p) ==
    /\ pc[p] = "mapping"
    /\ contact' = [contact EXCEPT ![p] = mapped]
    /\ Answered(p, IF mapped = None THEN "failed" ELSE "find", "failed")
    /\ UNCHANGED <<chatwoot, mapped, fresh>>

Take(p) ==
    /\ contact' = [contact EXCEPT ![p] = live]
    /\ fresh' = [fresh EXCEPT ![p] = live \in bound]

\* Mutated form: the identifier is not compared as Chatwoot stored it.
FindContactNeverMatches(p) ==
    /\ pc[p] = "find"
    /\ Answered(p, IF p \in Starters THEN "failed" ELSE "create", "failed")
    /\ UNCHANGED <<chatwoot, mapped, local>>

\* FindContactByIdentifier, the first call of all three; start-conversation
\* wants the contact it has in the map.
FindContact(p) ==
    /\ pc[p] = "find"
    /\ IF live = None
         THEN /\ Answered(p, IF p \in Starters THEN "failed" ELSE "create", "failed")
              /\ UNCHANGED local
         ELSE IF p \in Starters /\ live # contact[p]
                THEN Answered(p, "failed", "failed") /\ UNCHANGED local
                ELSE Answered(p, "bind", "failed") /\ Take(p)
    /\ UNCHANGED <<chatwoot, mapped>>

\* Mutated form: a contact just created is taken for bound.
CreateContactBound(p) ==
    /\ pc[p] = "create"
    /\ \/ /\ live = None /\ last < MaxContacts
          /\ live' = last + 1 /\ last' = last + 1
          /\ contact' = [contact EXCEPT ![p] = last + 1]
          /\ fresh' = [fresh EXCEPT ![p] = TRUE]
          /\ Answered(p, "bind", AfterRefusal(p))
       \/ /\ live # None
          /\ Goto(p, AfterRefusal(p))
          /\ UNCHANGED <<live, last, contact, fresh, faults>>
    /\ UNCHANGED <<bound, open, mapped>>

\* CreateContact: refused if the identifier is taken.
CreateContact(p) ==
    /\ pc[p] = "create"
    /\ \/ /\ live = None /\ last < MaxContacts
          /\ live' = last + 1 /\ last' = last + 1
          /\ contact' = [contact EXCEPT ![p] = last + 1]
          /\ fresh' = [fresh EXCEPT ![p] = FALSE]
          /\ Answered(p, "bind", AfterRefusal(p))
       \/ /\ live # None
          /\ Goto(p, AfterRefusal(p))
          /\ UNCHANGED <<live, last, contact, fresh, faults>>
       \/ /\ Goto(p, AfterRefusal(p)) /\ Fault
          /\ UNCHANGED <<live, last, contact, fresh>>
    /\ UNCHANGED <<bound, open, mapped>>

\* Mutated form: the error of the second search is dropped.
RefetchContactUnchecked(p) ==
    /\ pc[p] = "refetch"
    /\ Answered(p, "bind", "failed") /\ Take(p)
    /\ UNCHANGED <<chatwoot, mapped>>

\* add-contact searches again after a refused creation.
RefetchContact(p) ==
    /\ pc[p] = "refetch"
    /\ IF live = None
         THEN Answered(p, "failed", "failed") /\ UNCHANGED local
         ELSE Answered(p, "bind", "failed") /\ Take(p)
    /\ UNCHANGED <<chatwoot, mapped>>

\* EnsureContactInbox: the copy at hand shows the binding, or it is created.
EnsureContactInbox(p) ==
    /\ pc[p] = "bind"
    /\ \/ /\ fresh[p]
          /\ Goto(p, AfterBinding(p))
          /\ UNCHANGED <<bound, faults>>
       \/ /\ ~fresh[p] /\ contact[p] = live /\ live \notin bound
          /\ bound' = bound \cup {live}
          /\ Answered(p, AfterBinding(p), "rebind")
       \/ /\ ~fresh[p] /\ ~(contact[p] = live /\ live \notin bound)
          /\ Goto(p, "rebind")
          /\ UNCHANGED <<bound, faults>>
       \/ /\ ~fresh[p]
          /\ Goto(p, "rebind") /\ Fault
          /\ UNCHANGED bound
    /\ UNCHANGED <<live, last, open, mapped, local>>

\* Mutated form: the contact found again need not show the binding.
RecheckBindingAnyContact(p) ==
    /\ pc[p] = "rebind"
    /\ Answered(p, IF live # None THEN AfterBinding(p) ELSE "failed", "failed")
    /\ UNCHANGED <<chatwoot, mapped, local>>

\* ... and if that fails, the contact is searched once more: whichever contact
\* has the identifier now, its binding counts, and p keeps the one it had.
RecheckBinding(p) ==
    /\ pc[p] = "rebind"
    /\ Answered(p, IF live # None /\ live \in bound THEN AfterBinding(p)
                                                    ELSE "failed", "failed")
    /\ UNCHANGED <<chatwoot, mapped, local>>

\* FindOpenConversation; a deleted contact has none.
FindOpenConversation(p) ==
    /\ pc[p] = "lookup"
    /\ Answered(p, IF open[contact[p]] > 0 THEN "publish" ELSE "open", "failed")
    /\ UNCHANGED <<chatwoot, mapped, local>>

\* CreateConversation: start-conversation ends with it.
CreateConversation(p) ==
    /\ pc[p] = "open"
    /\ \/ /\ contact[p] = live
          /\ open' = [open EXCEPT ![live] = @ + 1]
          /\ Answered(p, IF p \in Handlers THEN "publish" ELSE "done", "failed")
       \/ contact[p] # live /\ Goto(p, "failed") /\ UNCHANGED <<open, faults>>
       \/ contact[p] = live /\ Goto(p, "failed") /\ Fault /\ UNCHANGED open
    /\ UNCHANGED <<live, last, bound, mapped, local>>

\* CreateIncomingMessage: refused when contact and conversation are gone.
Publish(p) ==
    /\ pc[p] = "publish"
    /\ Answered(p, IF contact[p] = live THEN "save" ELSE "failed", "failed")
    /\ UNCHANGED <<chatwoot, mapped, local>>

\* Store.CreateContact: an upsert whose failure only add-contact reports.
SaveMapping(p) ==
    /\ pc[p] = "save"
    /\ \/ /\ mapped' = contact[p]
          /\ Goto(p, "done")
          /\ UNCHANGED faults
       \/ /\ Fault
          /\ Goto(p, IF p \in Handlers THEN "done" ELSE "failed")
          /\ UNCHANGED mapped
    /\ UNCHANGED <<chatwoot, local>>

\* The webhook answered 5xx is delivered again, its claim released or lapsed.
Redeliver(p) ==
    /\ p \in Handlers /\ pc[p] = "failed"
    /\ Goto(p, "find")
    /\ UNCHANGED <<chatwoot, mapped, faults, local>>

\* An agent resolves a conversation, or deletes the contact.
Resolve(c) ==
    /\ open[c] > 0
    /\ open' = [open EXCEPT ![c] = @ - 1]
    /\ UNCHANGED <<live, last, bound, mapped, faults, pc, local>>

DeleteContact ==
    /\ MayDelete /\ live # None /\ last < MaxContacts
    /\ live' = None
    /\ bound' = bound \ {live}
    /\ open' = [open EXCEPT ![live] = 0]
    /\ UNCHANGED <<last, mapped, faults, pc, local>>

Step(p) ==
    \/ ReadMapping(p) \/ FindContact(p) \/ CreateContact(p) \/ RefetchContact(p)
    \/ EnsureContactInbox(p) \/ RecheckBinding(p) \/ FindOpenConversation(p)
    \/ CreateConversation(p) \/ Publish(p) \/ SaveMapping(p) \/ Redeliver(p)

Next ==
    \/ \E p \in Programs : Step(p)
    \/ \E c \in ContactIds : Resolve(c)
    \/ DeleteContact

Spec == Init /\ [][Next]_vars

\* The scheduler runs every program, and Evolution Go delivers again what was
\* answered 5xx; faults end because MaxFaults bounds them.
FairSpec == Spec /\ \A p \in Programs : WF_vars(Step(p))

-----------------------------------------------------------------------------

TypeOK ==
    /\ live \in ContactIds \cup {None} /\ last \in 0..MaxContacts
    /\ bound \subseteq ContactIds
    /\ open \in [ContactIds -> Nat]
    /\ mapped \in ContactIds \cup {None} /\ faults \in 0..MaxFaults
    /\ pc \in [Programs -> {"mapping", "find", "create", "refetch", "bind", "rebind",
                            "lookup", "open", "publish", "save", "done", "failed"}]
    /\ contact \in [Programs -> ContactIds \cup {None}]
    /\ fresh \in [Programs -> BOOLEAN]

\* An open conversation can be answered: its contact is bound to the inbox
\* with the JID as source_id, by which the Chatwoot handler finds the number,
\* whoever created contact, binding and conversation.
ConversationsAreAnswerable ==
    \A c \in ContactIds : open[c] > 0 => c = live /\ c \in bound

\* The contact map never names a contact that exists without the binding, so
\* what start-conversation accepts was completed by somebody.
MapNamesBoundContact ==
    mapped # None /\ mapped = live => mapped \in bound

\* Handlers that trip over each other, over lost answers or over a deletion
\* get through when they are delivered again.
RetriesConverge == \A h \in Handlers : <>(pc[h] = "done")

\* "não criar uma nova conversa quando houver uma aberta do mesmo contato e
\* inbox" (spec-sync-manual-whatsapp-outgoing.md).
OneOpenConversation == \A c \in ContactIds : open[c] <= 1

=============================================================================
