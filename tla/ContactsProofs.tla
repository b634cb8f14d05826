---------------------------- MODULE ContactsProofs ----------------------------
(***************************************************************************)
(* Theorems about Contacts for every number of handlers and commands, of   *)
(* contacts and of failing calls, with and without agents who delete.      *)
(***************************************************************************)
EXTENDS Contacts, TLAPS

-----------------------------------------------------------------------------
(* The inductive invariant.                                                *)

\* Chatwoot does not use a number again: everything a program or the map may
\* still hold was created before, and only the present contact is bound.
NumbersAreSpent ==
    /\ live <= last /\ mapped <= last
    /\ \A p \in Programs : contact[p] <= last
    /\ bound \subseteq {live} /\ None \notin bound

\* A program past the search works with a contact.
WorksWithContact ==
    \A p \in Programs :
        /\ pc[p] \in {"bind", "rebind", "lookup", "open", "publish", "save"}
              => contact[p] # None
        /\ pc[p] = "mapping" => ~fresh[p]

\* What a program has seen bound is bound as long as it exists: a copy that
\* shows the binding, and a contact with which it got past the binding.
SeenBoundIsBound ==
    \A p \in Programs :
        /\ fresh[p] \/ pc[p] \in {"lookup", "open", "publish", "save"}
        /\ contact[p] = live /\ live # None
        => live \in bound

IInv ==
    /\ TypeOK
    /\ NumbersAreSpent
    /\ WorksWithContact
    /\ SeenBoundIsBound
    /\ ConversationsAreAnswerable
    /\ MapNamesBoundContact

-----------------------------------------------------------------------------
(* Programs go on.                                                         *)

Places == {"mapping", "find", "create", "refetch", "bind", "rebind",
           "lookup", "open", "publish", "save", "done", "failed"}

\* Places at which a program has a contact, and has seen it bound.
HasContact == {"bind", "rebind", "lookup", "open", "publish", "save"}
SawBinding == {"lookup", "open", "publish", "save"}

\* Whether its call was carried out, refused or lost its answer: a program goes
\* to one of two places, and the faults are counted.
LEMMA AnsweredGoes ==
    ASSUME TypeOK, NEW p \in Programs, NEW next, NEW otherwise,
           Answered(p, next, otherwise)
    PROVE  /\ faults' \in 0..MaxFaults
           /\ \E l \in {next, otherwise} : pc' = [pc EXCEPT ![p] = l]
BY ContactsAssumption DEF Answered, Goto, Fault, TypeOK

\* The faults stay below their bound.
LEMMA FaultCounts ==
    ASSUME TypeOK, Fault
    PROVE  faults' \in 0..MaxFaults
BY ContactsAssumption DEF Fault, TypeOK

\* Where a program goes after the binding is read and after a refusal.
LEMMA WhereNext ==
    ASSUME NEW p \in Programs
    PROVE  /\ AfterBinding(p) \in {"lookup", "save", "open"}
           /\ AfterRefusal(p) \in {"refetch", "failed"}
<1>1. CASE p \in Handlers
  BY <1>1, ContactsAssumption DEF AfterBinding, AfterRefusal
<1>2. CASE p \in Adders
  BY <1>2, ContactsAssumption DEF AfterBinding, AfterRefusal
<1>3. CASE p \in Starters
  BY <1>3, ContactsAssumption DEF AfterBinding, AfterRefusal
<1> QED
  BY <1>1, <1>2, <1>3 DEF Programs

\* A step that changes nothing in Chatwoot and nothing in the map keeps the
\* invariant if what its program holds afterwards fits where it is.
LEMMA LocalStep ==
    ASSUME IInv, NEW p \in Programs, NEW l \in Places, NEW c \in ContactIds \cup {None},
           NEW f \in BOOLEAN,
           UNCHANGED <<chatwoot, mapped>>, faults' \in 0..MaxFaults,
           pc' = [pc EXCEPT ![p] = l],
           contact' = [contact EXCEPT ![p] = c],
           fresh' = [fresh EXCEPT ![p] = f],
           c <= last,
           l \in HasContact => c # None,
           l = "mapping" => ~f,
           f \/ l \in SawBinding => (c = live /\ live # None => live \in bound)
    PROVE  IInv'
<1> USE DEF IInv, TypeOK
<1>1. TypeOK'
  BY DEF chatwoot, Places
<1>2. NumbersAreSpent'
  BY DEF chatwoot, NumbersAreSpent
<1>3. WorksWithContact'
  BY DEF WorksWithContact, HasContact
<1>4. SeenBoundIsBound'
  BY DEF chatwoot, SeenBoundIsBound, SawBinding
<1>5. ConversationsAreAnswerable' /\ MapNamesBoundContact'
  BY DEF chatwoot, ConversationsAreAnswerable, MapNamesBoundContact
<1> QED
  BY <1>1, <1>2, <1>3, <1>4, <1>5

\* ... in particular if it goes back or ends, or keeps to its contact.
LEMMA PlaceStep ==
    ASSUME IInv, NEW p \in Programs, NEW l \in Places, l # "mapping",
           UNCHANGED <<chatwoot, mapped, local>>, faults' \in 0..MaxFaults,
           pc' = [pc EXCEPT ![p] = l],
           l \in HasContact => pc[p] \in HasContact,
           l \in SawBinding => (contact[p] = live /\ live # None => live \in bound)
    PROVE  IInv'
<1> USE DEF IInv, TypeOK
<1>1. contact[p] <= last /\ (l \in HasContact => contact[p] # None)
  BY DEF NumbersAreSpent, WorksWithContact, HasContact
<1>2. fresh[p] => (contact[p] = live /\ live # None => live \in bound)
  BY DEF SeenBoundIsBound
<1>3. contact' = [contact EXCEPT ![p] = contact[p]] /\ fresh' = [fresh EXCEPT ![p] = fresh[p]]
  BY DEF local
<1>4. contact[p] \in ContactIds \cup {None} /\ fresh[p] \in BOOLEAN
  OBVIOUS
<1> QED
  BY <1>1, <1>2, <1>3, <1>4, LocalStep

-----------------------------------------------------------------------------
(* The steps that look up.                                                 *)

LEMMA ReadMappingStep ==
    ASSUME IInv, NEW p \in Programs, ReadMapping(p)
    PROVE  IInv'
<1> USE DEF IInv, TypeOK
<1>1. PICK l \in {"failed", "find"} : pc' = [pc EXCEPT ![p] = l]
  BY AnsweredGoes DEF ReadMapping
<1>2. faults' \in 0..MaxFaults
  BY AnsweredGoes DEF ReadMapping
<1>3. ~fresh[p] /\ fresh' = [fresh EXCEPT ![p] = FALSE]
  BY DEF ReadMapping, WorksWithContact
<1>4. mapped <= last /\ mapped \in ContactIds \cup {None}
  BY DEF NumbersAreSpent
<1>5. contact' = [contact EXCEPT ![p] = mapped] /\ UNCHANGED <<chatwoot, mapped>>
  BY DEF ReadMapping
<1>6. l \in Places /\ l \notin HasContact /\ l \notin SawBinding /\ l # "mapping"
  BY DEF Places, HasContact, SawBinding
<1> QED
  BY <1>1, <1>2, <1>3, <1>4, <1>5, <1>6, LocalStep

\* A search that found a contact: its copy shows whether it is bound.
LEMMA TakeStep ==
    ASSUME IInv, NEW p \in Programs, live # None, Take(p),
           Answered(p, "bind", "failed"), UNCHANGED <<chatwoot, mapped>>
    PROVE  IInv'
<1> USE DEF IInv, TypeOK
<1>1. PICK l \in {"bind", "failed"} : pc' = [pc EXCEPT ![p] = l]
  BY AnsweredGoes
<1>2. faults' \in 0..MaxFaults
  BY AnsweredGoes
<1>3. /\ contact' = [contact EXCEPT ![p] = live]
      /\ fresh' = [fresh EXCEPT ![p] = (live \in bound)]
  BY DEF Take
<1>4. live <= last /\ live \in ContactIds \cup {None} /\ (live \in bound) \in BOOLEAN
  BY DEF NumbersAreSpent
<1>5. l \in Places /\ l \notin SawBinding /\ l # "mapping"
  BY DEF Places, SawBinding
<1> QED
  BY <1>1, <1>2, <1>3, <1>4, <1>5, LocalStep

\* A search that found none, or not the one in the map.
LEMMA GiveUpStep ==
    ASSUME IInv, NEW p \in Programs, NEW next \in {"create", "failed"},
           Answered(p, next, "failed"), UNCHANGED <<chatwoot, mapped, local>>
    PROVE  IInv'
<1>1. PICK l \in {"create", "failed"} : pc' = [pc EXCEPT ![p] = l]
  BY AnsweredGoes DEF IInv
<1>2. faults' \in 0..MaxFaults
  BY AnsweredGoes DEF IInv
<1>3. l \in Places /\ l \notin HasContact /\ l \notin SawBinding /\ l # "mapping"
  BY DEF Places, HasContact, SawBinding
<1> QED
  BY <1>1, <1>2, <1>3, PlaceStep

LEMMA FindContactStep ==
    ASSUME IInv, NEW p \in Programs, FindContact(p)
    PROVE  IInv'
<1>1. CASE live = None
  BY <1>1, GiveUpStep DEF FindContact, chatwoot, local
<1>2. CASE live # None /\ p \in Starters /\ live # contact[p]
  BY <1>2, GiveUpStep DEF FindContact, chatwoot, local
<1>3. CASE live # None /\ ~(p \in Starters /\ live # contact[p])
  BY <1>3, TakeStep DEF FindContact
<1> QED
  BY <1>1, <1>2, <1>3

LEMMA RefetchContactStep ==
    ASSUME IInv, NEW p \in Programs, RefetchContact(p)
    PROVE  IInv'
<1>1. CASE live = None
  BY <1>1, GiveUpStep DEF RefetchContact, chatwoot, local
<1>2. CASE live # None
  BY <1>2, TakeStep DEF RefetchContact
<1> QED
  BY <1>1, <1>2

LEMMA RecheckBindingStep ==
    ASSUME IInv, NEW p \in Programs, RecheckBinding(p)
    PROVE  IInv'
<1> USE DEF IInv
<1>1. PICK l \in {AfterBinding(p), "failed"} :
         pc' = [pc EXCEPT ![p] = l] /\ (l # "failed" => live \in bound)
  <2>1. CASE live # None /\ live \in bound
    BY <2>1, AnsweredGoes DEF RecheckBinding
  <2>2. CASE ~(live # None /\ live \in bound)
    BY <2>2, AnsweredGoes DEF RecheckBinding
  <2> QED
    BY <2>1, <2>2
<1>2. faults' \in 0..MaxFaults
  BY AnsweredGoes DEF RecheckBinding
<1>3. pc[p] \in HasContact /\ UNCHANGED <<chatwoot, mapped, local>>
  BY DEF RecheckBinding, HasContact, chatwoot, local
<1>4. l \in Places /\ l # "mapping" /\ (l \in SawBinding => l # "failed")
  BY WhereNext DEF Places, SawBinding
<1> QED
  BY <1>1, <1>2, <1>3, <1>4, PlaceStep

LEMMA FindOpenConversationStep ==
    ASSUME IInv, NEW p \in Programs, FindOpenConversation(p)
    PROVE  IInv'
<1> USE DEF IInv
<1>1. PICK l \in {"publish", "open", "failed"} : pc' = [pc EXCEPT ![p] = l]
  BY AnsweredGoes DEF FindOpenConversation
<1>2. faults' \in 0..MaxFaults
  BY AnsweredGoes DEF FindOpenConversation
<1>3. /\ pc[p] \in HasContact /\ UNCHANGED <<chatwoot, mapped, local>>
      /\ contact[p] = live /\ live # None => live \in bound
  BY DEF FindOpenConversation, HasContact, SeenBoundIsBound, chatwoot, local
<1>4. l \in Places /\ l # "mapping"
  BY DEF Places
<1> QED
  BY <1>1, <1>2, <1>3, <1>4, PlaceStep

LEMMA PublishStep ==
    ASSUME IInv, NEW p \in Programs, Publish(p)
    PROVE  IInv'
<1> USE DEF IInv
<1>1. PICK l \in {"save", "failed"} : pc' = [pc EXCEPT ![p] = l]
  BY AnsweredGoes DEF Publish
<1>2. faults' \in 0..MaxFaults
  BY AnsweredGoes DEF Publish
<1>3. /\ pc[p] \in HasContact /\ UNCHANGED <<chatwoot, mapped, local>>
      /\ contact[p] = live /\ live # None => live \in bound
  BY DEF Publish, HasContact, SeenBoundIsBound, chatwoot, local
<1>4. l \in Places /\ l # "mapping"
  BY DEF Places
<1> QED
  BY <1>1, <1>2, <1>3, <1>4, PlaceStep

LEMMA RedeliverStep ==
    ASSUME IInv, NEW p \in Programs, Redeliver(p)
    PROVE  IInv'
<1>1. pc' = [pc EXCEPT ![p] = "find"] /\ UNCHANGED <<chatwoot, mapped, local>>
  BY DEF Redeliver, Goto, chatwoot, local
<1>2. faults' \in 0..MaxFaults
  BY DEF Redeliver, IInv, TypeOK
<1>3. "find" \in Places /\ "find" \notin HasContact /\ "find" \notin SawBinding
  BY DEF Places, HasContact, SawBinding
<1> QED
  BY <1>1, <1>2, <1>3, PlaceStep

-----------------------------------------------------------------------------
(* The steps that change Chatwoot or the map.                              *)

\* A created contact has a number nobody holds.
LEMMA CreateContactStep ==
    ASSUME IInv, NEW p \in Programs, CreateContact(p)
    PROVE  IInv'
<1> USE DEF IInv, TypeOK
<1>1. pc[p] = "create" /\ UNCHANGED <<bound, open, mapped>>
  BY DEF CreateContact
<1>2. CASE /\ live = None /\ last < MaxContacts
           /\ live' = last + 1 /\ last' = last + 1
           /\ contact' = [contact EXCEPT ![p] = last + 1]
           /\ fresh' = [fresh EXCEPT ![p] = FALSE]
           /\ Answered(p, "bind", AfterRefusal(p))
  <2>1. PICK l \in {"bind", AfterRefusal(p)} : pc' = [pc EXCEPT ![p] = l]
    BY <1>2, AnsweredGoes
  <2>2. faults' \in 0..MaxFaults
    BY <1>2, AnsweredGoes
  <2>3. l \in {"bind", "refetch", "failed"}
    BY WhereNext
  <2>4. last' \in ContactIds /\ last' <= MaxContacts /\ last \in Nat /\ live' = last'
    BY <1>2, ContactsAssumption DEF ContactIds
  <2>5. bound = {} /\ \A c \in ContactIds : open[c] = 0
    <3>1. bound = {}
      BY <1>2 DEF NumbersAreSpent
    <3> QED
      BY <3>1 DEF ConversationsAreAnswerable
  <2>6. TypeOK'
    BY <1>1, <1>2, <2>1, <2>2, <2>3, <2>4
  <2>7. NumbersAreSpent'
    BY <1>1, <1>2, <2>4, <2>5 DEF NumbersAreSpent, None, ContactIds
  <2>8. WorksWithContact'
    BY <1>2, <2>1, <2>3, <2>4 DEF WorksWithContact, None
  <2>9. SeenBoundIsBound'
    <3>1. ASSUME NEW q \in Programs, q # p
          PROVE  contact'[q] # live'
      <4>1. contact[q] <= last /\ contact[q] \in Nat
        BY DEF NumbersAreSpent, ContactIds, None
      <4> QED
        BY <1>2, <3>1, <4>1, <2>4
    <3>2. ~fresh'[p] /\ pc'[p] \notin {"lookup", "open", "publish", "save"}
      BY <1>2, <2>1, <2>3
    <3> QED
      BY <3>1, <3>2 DEF SeenBoundIsBound
  <2>10. ConversationsAreAnswerable'
    BY <1>1, <2>5 DEF ConversationsAreAnswerable
  <2>11. MapNamesBoundContact'
    <3>1. mapped <= last /\ mapped \in Nat
      BY DEF NumbersAreSpent, ContactIds, None
    <3> QED
      BY <1>1, <1>2, <2>4, <3>1 DEF MapNamesBoundContact
  <2> QED
    BY <2>6, <2>7, <2>8, <2>9, <2>10, <2>11
<1>3. CASE /\ Goto(p, AfterRefusal(p)) /\ faults' \in 0..MaxFaults
           /\ UNCHANGED <<live, last, contact, fresh>>
  <2>1. AfterRefusal(p) \in Places /\ AfterRefusal(p) # "mapping"
          /\ AfterRefusal(p) \notin HasContact /\ AfterRefusal(p) \notin SawBinding
    BY WhereNext DEF Places, HasContact, SawBinding
  <2> QED
    BY <1>1, <1>3, <2>1, PlaceStep DEF Goto, chatwoot, local
<1> QED
  BY <1>2, <1>3, FaultCounts DEF CreateContact

\* A binding is never lost to a program that saw one.
LEMMA EnsureContactInboxStep ==
    ASSUME IInv, NEW p \in Programs, EnsureContactInbox(p)
    PROVE  IInv'
<1> USE DEF IInv, TypeOK
<1>1. pc[p] = "bind" /\ UNCHANGED <<live, last, open, mapped, local>>
  BY DEF EnsureContactInbox
<1>2. contact[p] # None
  BY <1>1 DEF WorksWithContact
<1>3. AfterBinding(p) \in {"lookup", "save", "open"}
  BY WhereNext
<1>4. CASE fresh[p] /\ Goto(p, AfterBinding(p)) /\ UNCHANGED <<bound, faults>>
  <2>1. AfterBinding(p) \in Places /\ AfterBinding(p) # "mapping" /\ "bind" \in HasContact
    BY <1>3 DEF Places, HasContact
  <2>2. contact[p] = live /\ live # None => live \in bound
    BY <1>4 DEF SeenBoundIsBound
  <2> QED
    BY <1>1, <1>4, <2>1, <2>2, PlaceStep DEF Goto, chatwoot
<1>5. CASE Goto(p, "rebind") /\ faults' \in 0..MaxFaults /\ UNCHANGED bound
  <2>1. "rebind" \in Places /\ "rebind" \notin SawBinding /\ "bind" \in HasContact
    BY DEF Places, HasContact, SawBinding
  <2> QED
    BY <1>1, <1>5, <2>1, PlaceStep DEF Goto, chatwoot
<1>6. CASE /\ contact[p] = live /\ bound' = bound \cup {live}
           /\ Answered(p, AfterBinding(p), "rebind")
  <2>1. PICK l \in {AfterBinding(p), "rebind"} : pc' = [pc EXCEPT ![p] = l]
    BY <1>6, AnsweredGoes
  <2>2. faults' \in 0..MaxFaults
    BY <1>6, AnsweredGoes
  <2>3. l \in {"lookup", "save", "open", "rebind"}
    BY <1>3
  <2>4. live # None /\ live \in bound'
    BY <1>2, <1>6
  <2>5. TypeOK'
    BY <1>1, <1>6, <2>1, <2>2, <2>3, <2>4 DEF local
  <2>6. NumbersAreSpent'
    BY <1>1, <1>6, <2>4 DEF NumbersAreSpent, local
  <2>7. WorksWithContact'
    BY <1>1, <1>2, <2>1, <2>3 DEF WorksWithContact, local
  <2>8. SeenBoundIsBound' /\ MapNamesBoundContact'
    BY <1>1, <2>4 DEF SeenBoundIsBound, MapNamesBoundContact
  <2>9. ConversationsAreAnswerable'
    BY <1>1, <1>6 DEF ConversationsAreAnswerable
  <2> QED
    BY <2>5, <2>6, <2>7, <2>8, <2>9
<1> QED
  BY <1>4, <1>5, <1>6, FaultCounts DEF EnsureContactInbox

\* A conversation is opened only for a contact that exists and is bound.
LEMMA CreateConversationStep ==
    ASSUME IInv, NEW p \in Programs, CreateConversation(p)
    PROVE  IInv'
<1> USE DEF IInv, TypeOK
<1>1. pc[p] = "open" /\ UNCHANGED <<live, last, bound, mapped, local>>
  BY DEF CreateConversation
<1>2. contact[p] # None /\ (contact[p] = live => live \in bound)
  BY <1>1 DEF WorksWithContact, SeenBoundIsBound
<1>3. CASE /\ contact[p] = live /\ open' = [open EXCEPT ![live] = @ + 1]
           /\ Answered(p, IF p \in Handlers THEN "publish" ELSE "done", "failed")
  <2>1. PICK l \in {"publish", "done", "failed"} : pc' = [pc EXCEPT ![p] = l]
    BY <1>3, AnsweredGoes
  <2>2. faults' \in 0..MaxFaults
    BY <1>3, AnsweredGoes
  <2>3. live \in ContactIds /\ live \in bound
    BY <1>2, <1>3
  <2>4. TypeOK'
    BY <1>1, <1>3, <2>1, <2>2, <2>3 DEF local
  <2>5. NumbersAreSpent' /\ MapNamesBoundContact'
    BY <1>1 DEF NumbersAreSpent, MapNamesBoundContact, local
  <2>6. WorksWithContact' /\ SeenBoundIsBound'
    BY <1>1, <2>1 DEF WorksWithContact, SeenBoundIsBound, local
  <2>7. ConversationsAreAnswerable'
    BY <1>1, <1>3, <2>3 DEF ConversationsAreAnswerable
  <2> QED
    BY <2>4, <2>5, <2>6, <2>7
<1>4. CASE Goto(p, "failed") /\ faults' \in 0..MaxFaults /\ UNCHANGED open
  <2>1. "failed" \in Places /\ "failed" \notin SawBinding /\ "failed" \notin HasContact
    BY DEF Places, HasContact, SawBinding
  <2> QED
    BY <1>1, <1>4, <2>1, PlaceStep DEF Goto, chatwoot
<1> QED
  BY <1>3, <1>4, FaultCounts DEF CreateConversation

LEMMA SaveMappingStep ==
    ASSUME IInv, NEW p \in Programs, SaveMapping(p)
    PROVE  IInv'
<1> USE DEF IInv, TypeOK
<1>1. /\ pc[p] = "save" /\ UNCHANGED <<chatwoot, local>>
      /\ mapped' \in {mapped, contact[p]}
  BY DEF SaveMapping
<1>2. PICK l \in {"done", "failed"} : pc' = [pc EXCEPT ![p] = l]
  BY DEF SaveMapping, Goto
<1>3. faults' \in 0..MaxFaults
  BY FaultCounts DEF SaveMapping
<1>4. TypeOK'
  BY <1>1, <1>2, <1>3 DEF chatwoot, local
<1>5. NumbersAreSpent'
  BY <1>1 DEF NumbersAreSpent, chatwoot, local
<1>6. WorksWithContact' /\ SeenBoundIsBound'
  BY <1>1, <1>2 DEF WorksWithContact, SeenBoundIsBound, chatwoot, local
<1>7. ConversationsAreAnswerable'
  BY <1>1 DEF ConversationsAreAnswerable, chatwoot
<1>8. MapNamesBoundContact'
  BY <1>1 DEF MapNamesBoundContact, SeenBoundIsBound, chatwoot
<1> QED
  BY <1>4, <1>5, <1>6, <1>7, <1>8

LEMMA ResolveStep ==
    ASSUME IInv, NEW c \in ContactIds, Resolve(c)
    PROVE  IInv'
<1> USE DEF IInv, TypeOK
<1>1. \A x \in ContactIds : open'[x] \in Nat /\ open'[x] <= open[x]
  BY DEF Resolve
<1>2. UNCHANGED <<live, last, bound, mapped, faults, pc, local>>
  BY DEF Resolve
<1>3. TypeOK'
  BY <1>1, <1>2 DEF Resolve, local
<1>4. NumbersAreSpent' /\ WorksWithContact' /\ SeenBoundIsBound' /\ MapNamesBoundContact'
  BY <1>2 DEF NumbersAreSpent, WorksWithContact, SeenBoundIsBound, MapNamesBoundContact, local
<1>5. ConversationsAreAnswerable'
  BY <1>1, <1>2 DEF ConversationsAreAnswerable
<1> QED
  BY <1>3, <1>4, <1>5

\* Contact, binding and conversations go together.
LEMMA DeleteContactStep ==
    ASSUME IInv, DeleteContact
    PROVE  IInv'
<1> USE DEF IInv, TypeOK
<1>1. live' = None /\ live \in ContactIds /\ UNCHANGED <<last, mapped, faults, pc, local>>
  BY DEF DeleteContact
<1>2. bound' = {}
  BY DEF DeleteContact, NumbersAreSpent
<1>3. \A c \in ContactIds : open'[c] = 0
  BY DEF DeleteContact, ConversationsAreAnswerable
<1>4. open' = [open EXCEPT ![live] = 0]
  BY DEF DeleteContact
<1>5. TypeOK'
  BY <1>1, <1>2, <1>4 DEF local
<1>6. NumbersAreSpent'
  BY <1>1, <1>2 DEF NumbersAreSpent, None, local
<1>7. WorksWithContact' /\ SeenBoundIsBound' /\ MapNamesBoundContact'
  BY <1>1 DEF WorksWithContact, SeenBoundIsBound, MapNamesBoundContact, local
<1>8. ConversationsAreAnswerable'
  BY <1>3 DEF ConversationsAreAnswerable
<1> QED
  BY <1>5, <1>6, <1>7, <1>8

-----------------------------------------------------------------------------
(* The theorems.                                                           *)

LEMMA InitIInv ==
    Init => IInv
<1> SUFFICES ASSUME Init PROVE IInv
  OBVIOUS
<1>1. TypeOK
  BY ContactsAssumption DEF Init, TypeOK, None
<1>2. NumbersAreSpent /\ WorksWithContact /\ SeenBoundIsBound
  BY DEF Init, NumbersAreSpent, WorksWithContact, SeenBoundIsBound, None
<1>3. ConversationsAreAnswerable /\ MapNamesBoundContact
  BY DEF Init, ConversationsAreAnswerable, MapNamesBoundContact
<1> QED
  BY <1>1, <1>2, <1>3 DEF IInv

LEMMA NextIInv ==
    IInv /\ [Next]_vars => IInv'
<1> SUFFICES ASSUME IInv, [Next]_vars PROVE IInv'
  OBVIOUS
<1>1. ASSUME NEW p \in Programs, Step(p) PROVE IInv'
  BY <1>1, ReadMappingStep, FindContactStep, CreateContactStep, RefetchContactStep,
     EnsureContactInboxStep, RecheckBindingStep, FindOpenConversationStep,
     CreateConversationStep, PublishStep, SaveMappingStep, RedeliverStep DEF Step
<1>2. ASSUME NEW c \in ContactIds, Resolve(c) PROVE IInv'
  BY <1>2, ResolveStep
<1>3. CASE DeleteContact
  BY <1>3, DeleteContactStep
<1>4. CASE UNCHANGED vars
  BY <1>4 DEF vars, IInv, TypeOK, NumbersAreSpent, WorksWithContact, SeenBoundIsBound,
              ConversationsAreAnswerable, MapNamesBoundContact
<1> QED
  BY <1>1, <1>2, <1>3, <1>4 DEF Next

\* The inductive invariant holds for any number of programs and contacts, with
\* failing calls and deletions.
THEOREM Invariant ==
    Spec => []IInv
BY InitIInv, NextIInv, PTL DEF Spec

\* Every variable keeps its type.
THEOREM TypeCorrect ==
    Spec => []TypeOK
<1>1. IInv => TypeOK
  BY DEF IInv
<1> QED
  BY Invariant, <1>1, PTL

\* Whichever of the three programs opened it, and whoever created and bound its
\* contact: an open conversation belongs to the present contact, and the inbox
\* knows that contact's number (EnsureContactInbox before CreateConversation).
THEOREM Answerable ==
    Spec => []ConversationsAreAnswerable
<1>1. IInv => ConversationsAreAnswerable
  BY DEF IInv
<1> QED
  BY Invariant, <1>1, PTL

\* contact_map never names an existing contact that is not bound to the inbox,
\* although it is written last and by programs whose contact may be gone.
THEOREM MapIsBound ==
    Spec => []MapNamesBoundContact
<1>1. IInv => MapNamesBoundContact
  BY DEF IInv
<1> QED
  BY Invariant, <1>1, PTL

=============================================================================
