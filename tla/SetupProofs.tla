----------------------------- MODULE SetupProofs -----------------------------
(***************************************************************************)
(* Theorems about Setup for any tenants, instances and executions of       *)
(* connect setup, overlapping and failing wherever they can: the inbox of  *)
(* a registered tenant is kept, the database locks no webhook out, and a   *)
(* run that reports success leaves the webhooks of both sides let in.      *)
(***************************************************************************)
EXTENDS Setup, FiniteSetTheorems, TLAPS

-----------------------------------------------------------------------------
(* The inductive invariant.                                                *)

\* Runs that have called CreateAPIInbox or can no longer call it.
BeyondInbox == {r \in Runs : pc[r] \notin {"idle", "lookup", "inbox"}}

\* Every inbox but a legacy one was created by a run of its own.
InboxesCounted ==
    \A n \in Names : inboxes[n] <= Cardinality(BeyondInbox) + 1

\* What a run holds at each of its calls.  Rows are never deleted and the
\* inbox of a row never changes, so what Lookup read of it stays true whatever
\* other runs do.
RunsHoldWhatTheyNeed ==
    \A r \in Runs :
        /\ pc[r] \in {"inbox", "create", "configure", "update"}
              => secret[r] # NoSecret
        /\ pc[r] \in {"inbox", "create"} => seen[r] = NoTenant
        /\ pc[r] \in {"create", "configure", "update"} => inbox[r] # NoInbox
        /\ pc[r] = "update" => seen[r] # NoTenant
        /\ pc[r] \in {"configure", "update"} /\ seen[r] # NoTenant
              => /\ tenants[Name(r)] # NoTenant
                 /\ tenants[Name(r)].inbox = inbox[r]

\* While a run that nobody overlapped is under way, no other run under way
\* works on its tenant or with its token.
NobodyNear ==
    \A r \in alone, s \in Runs :
        r # s /\ Active(r) /\ Active(s)
              => Name(r) # Name(s) /\ Token(r) # Token(s)

\* The row that CreateTenant inserts.
CreatedRow(r) == [instance |-> Instance(r), secret |-> secret[r],
                  inbox |-> inbox[r], hmac |-> inbox[r]]

\* What such a run has done is still so at its next call.
OwnWorkStands ==
    \A r \in alone :
        /\ pc[r] = "inbox" => tenants[Name(r)] = NoTenant
        /\ pc[r] = "configure" /\ seen[r] = NoTenant
              => tenants[Name(r)] = CreatedRow(r)
        /\ pc[r] = "update" => webhook[Token(r)] = <<Instance(r), secret[r]>>

IInv ==
    /\ TypeOK
    /\ InboxesCounted
    /\ RunsHoldWhatTheyNeed
    /\ NobodyNear
    /\ OwnWorkStands

-----------------------------------------------------------------------------
(* What a step may touch.                                                  *)

\* A step of r leaves every other run where it is.
OthersStay(r) ==
    \A s \in Runs \ {r} : /\ pc'[s] = pc[s] /\ flags'[s] = flags[s]
                          /\ seen'[s] = seen[s] /\ secret'[s] = secret[s]
                          /\ inbox'[s] = inbox[s]

\* Rows are never deleted and keep their inbox.
RowsStay ==
    \A n \in Names : tenants[n] # NoTenant
                        => /\ tenants'[n] # NoTenant
                           /\ tenants'[n].inbox = tenants[n].inbox

\* A step of r changes the row of its own tenant, and the webhook of the
\* instance whose token it has, at most.
ElsewhereSame(r) ==
    /\ \A n \in Names \ {Name(r)} : tenants'[n] = tenants[n]
    /\ \A i \in Instances \ {Token(r)} : webhook'[i] = webhook[i]

\* What a run knows is in range.
LEMMA RunTypes ==
    ASSUME TypeOK, NEW r \in Runs
    PROVE  /\ Name(r) \in Names /\ Instance(r) \in Instances /\ Token(r) \in Instances
           /\ seen[r] \in Tenants \cup {NoTenant} /\ secret[r] \in Secrets
           /\ inbox[r] \in InboxIds \cup {NoInbox}
           /\ \A n \in Names : tenants[n] \in Tenants \cup {NoTenant}
BY DEF TypeOK, Name, Instance, Token, CommandLines

\* UpdateTenantIntegration replaces three columns of a row and keeps the inbox.
LEMMA UpdatedRow ==
    ASSUME TypeOK, RunsHoldWhatTheyNeed, NEW r \in Runs,
           UpdateTenantIntegration(r), ~InstanceTaken(r)
    PROVE  /\ tenants' = [tenants EXCEPT ![Name(r)] =
                            [instance |-> Instance(r), secret |-> secret[r],
                             inbox |-> inbox[r], hmac |-> inbox[r]]]
           /\ tenants[Name(r)] \in Tenants /\ tenants[Name(r)].inbox = inbox[r]
           /\ inbox[r] \in InboxIds
<1> DEFINE row == tenants[Name(r)]
<1>1. /\ row \in Tenants /\ row.inbox = inbox[r] /\ inbox[r] \in InboxIds
  BY RunTypes DEF RunsHoldWhatTheyNeed, UpdateTenantIntegration
<1>2. tenants' = [tenants EXCEPT ![Name(r)].instance = Instance(r),
                                 ![Name(r)].secret = secret[r],
                                 ![Name(r)].hmac = inbox[r]]
  BY DEF UpdateTenantIntegration
<1> DEFINE new == [row EXCEPT !.instance = Instance(r), !.secret = secret[r],
                              !.hmac = inbox[r]]
<1>3. tenants' = [tenants EXCEPT ![Name(r)] = new]
  <2>1. Name(r) \in DOMAIN tenants
    BY RunTypes DEF TypeOK
  <2> QED
    BY <1>2, <2>1, Zenon
<1>4. new \in [instance : {Instance(r)}, secret : {secret[r]}, inbox : {inbox[r]},
                hmac : {inbox[r]}]
  BY <1>1 DEF Tenants
<1>5. \A t \in [instance : {Instance(r)}, secret : {secret[r]}, inbox : {inbox[r]},
                 hmac : {inbox[r]}] :
         t = [instance |-> Instance(r), secret |-> secret[r], inbox |-> inbox[r],
              hmac |-> inbox[r]]
  OBVIOUS
<1> HIDE DEF new
<1> QED
  BY <1>1, <1>3, <1>4, <1>5

LEMMA TypeStep ==
    ASSUME IInv, NEW r \in Runs, Step(r), InboxesCounted'
    PROVE  TypeOK'
<1> USE DEF IInv
<1>1. /\ Cardinality(Runs) \in Nat
      /\ Cardinality(BeyondInbox') \in Nat
      /\ Cardinality(BeyondInbox') <= Cardinality(Runs)
  <2>1. IsFiniteSet(Runs) /\ BeyondInbox' \in SUBSET Runs
    BY SetupAssumption DEF BeyondInbox
  <2>2. IsFiniteSet(BeyondInbox') /\ Cardinality(BeyondInbox') <= Cardinality(Runs)
    BY <2>1, FS_Subset
  <2> QED
    BY <2>1, <2>2, FS_CardinalityType
<1>2. CASE Start(r)
  BY <1>2 DEF Start, Goto, TypeOK
<1>3. CASE Lookup(r)
  <2>1. tenants[Name(r)] # NoTenant
          => /\ tenants[Name(r)].secret \in Secrets
             /\ tenants[Name(r)].inbox \in InboxIds
    BY RunTypes DEF Tenants
  <2>2. seen' \in [Runs -> Tenants \cup {NoTenant}]
    BY <1>3, RunTypes DEF Lookup, TypeOK
  <2>3. secret' \in [Runs -> Secrets] /\ inbox' \in [Runs -> InboxIds \cup {NoInbox}]
    BY <1>3, <2>1 DEF Lookup, TypeOK, Secrets
  <2> QED
    BY <1>3, <2>2, <2>3 DEF Lookup, Goto, TypeOK
<1>4. CASE CreateAPIInbox(r)
  <2>1. /\ inboxes' \in [Names -> Nat]
        /\ inboxes'[Name(r)] # 0
    BY <1>1, <1>4, RunTypes DEF CreateAPIInbox, TypeOK, InboxIds, NoInbox
  <2>2. \A n \in Names : inboxes'[n] \in InboxIds \cup {NoInbox}
    BY <1>1, <2>1 DEF InboxesCounted, InboxIds, NoInbox
  <2>3. inboxes' \in [Names -> InboxIds \cup {NoInbox}]
    BY <2>1, <2>2
  <2> QED
    BY <1>4, <2>3, RunTypes DEF CreateAPIInbox, Goto, TypeOK
<1>5. CASE CreateTenant(r)
  <2>1. pc[r] = "create" /\ inbox[r] \in InboxIds
    BY <1>5, RunTypes DEF CreateTenant, RunsHoldWhatTheyNeed
  <2>2. CreatedRow(r) \in Tenants
    BY <2>1, RunTypes DEF CreatedRow, Tenants
  <2> QED
    BY <1>5, <2>2 DEF CreateTenant, Goto, TypeOK, CreatedRow
<1>6. CASE Configure(r)
  BY <1>6, RunTypes DEF Configure, Goto, Advise, TypeOK
<1>7. CASE UpdateTenantIntegration(r)
  <2>1. CASE InstanceTaken(r)
    BY <1>7, <2>1, RunTypes DEF UpdateTenantIntegration, Goto, Advise, TypeOK
  <2>2. CASE ~InstanceTaken(r)
    <3>1. tenants' = [tenants EXCEPT ![Name(r)] =
                        [instance |-> Instance(r), secret |-> secret[r],
                         inbox |-> inbox[r], hmac |-> inbox[r]]]
          /\ inbox[r] \in InboxIds
      BY <1>7, <2>2, UpdatedRow
    <3>2. tenants' \in [Names -> Tenants \cup {NoTenant}]
      BY <3>1, RunTypes DEF TypeOK, Tenants
    <3> QED
      BY <1>7, <2>2, <3>2, RunTypes DEF UpdateTenantIntegration, Goto, Advise, TypeOK
  <2> QED
    BY <2>1, <2>2
<1>8. CASE CallFails(r)
  BY <1>8, RunTypes DEF CallFails, Goto, Advise, TypeOK
<1>9. CASE Killed(r)
  BY <1>9 DEF Killed, Goto, TypeOK
<1> QED
  BY <1>2, <1>3, <1>4, <1>5, <1>6, <1>7, <1>8, <1>9 DEF Step

\* A run calls CreateAPIInbox once.
LEMMA CountStep ==
    ASSUME IInv, NEW r \in Runs, Step(r)
    PROVE  InboxesCounted'
<1> USE DEF IInv
<1>1. /\ IsFiniteSet(BeyondInbox) /\ Cardinality(BeyondInbox) \in Nat
      /\ IsFiniteSet(BeyondInbox') /\ Cardinality(BeyondInbox') \in Nat
  BY SetupAssumption, FS_CardinalityType, FS_Subset DEF BeyondInbox
<1>2. CASE CreateAPIInbox(r)
  <2>1. BeyondInbox' = BeyondInbox \cup {r} /\ r \notin BeyondInbox
    BY <1>2 DEF CreateAPIInbox, Goto, BeyondInbox, TypeOK
  <2>2. Cardinality(BeyondInbox') = Cardinality(BeyondInbox) + 1
    BY <1>1, <2>1, FS_AddElement
  <2>3. \A n \in Names : /\ inboxes[n] \in Nat /\ inboxes'[n] \in Nat
                           /\ inboxes'[n] <= inboxes[n] + 1
    <3>1. Cardinality(Runs) \in Nat
      BY SetupAssumption, FS_CardinalityType
    <3> QED
      BY <1>2, <3>1 DEF CreateAPIInbox, TypeOK, InboxIds, NoInbox
  <2> QED
    BY <1>1, <2>2, <2>3 DEF InboxesCounted
<1>3. CASE ~CreateAPIInbox(r)
  <2>1. inboxes' = inboxes
    BY <1>3 DEF Step, Start, Lookup, CreateTenant, Configure, UpdateTenantIntegration,
                CallFails, Killed
  <2>2. BeyondInbox \subseteq BeyondInbox'
    BY <1>3 DEF Step, Start, Lookup, CreateTenant, Configure, UpdateTenantIntegration,
                CallFails, Killed, Goto, BeyondInbox, TypeOK, Active
  <2>3. Cardinality(BeyondInbox) <= Cardinality(BeyondInbox')
    BY <1>1, <2>2, FS_Subset
  <2>4. \A n \in Names : inboxes[n] \in Nat
    BY SetupAssumption, FS_CardinalityType DEF TypeOK, InboxIds, NoInbox
  <2> QED
    BY <1>1, <2>1, <2>3, <2>4 DEF InboxesCounted
<1> QED
  BY <1>2, <1>3

-----------------------------------------------------------------------------
(* The rest of the invariant, from what a step leaves alone.               *)

\* A step of one run leaves the others, and the rows of other names, alone.
LEMMA Frame ==
    ASSUME IInv, NEW r \in Runs, Step(r)
    PROVE  /\ OthersStay(r) /\ RowsStay /\ ElsewhereSame(r)
           /\ ~Start(r) => /\ flags' = flags /\ alone' = alone
                           /\ Active(r) /\ pc'[r] \notin {"idle", "lookup"}
<1> USE DEF IInv
<1>1. OthersStay(r)
  BY DEF Step, Start, Lookup, CreateAPIInbox, CreateTenant, Configure,
         UpdateTenantIntegration, CallFails, Killed, Goto, OthersStay, TypeOK
<1>2. ~Start(r) => /\ flags' = flags /\ alone' = alone
                   /\ Active(r) /\ pc'[r] \notin {"idle", "lookup"}
  BY DEF Step, Lookup, CreateAPIInbox, CreateTenant, Configure,
         UpdateTenantIntegration, CallFails, Killed, Goto, Active, TypeOK
<1>3. RowsStay /\ ElsewhereSame(r)
  <2>1. CASE CreateTenant(r)
    BY <2>1 DEF CreateTenant, RowsStay, ElsewhereSame, TypeOK
  <2>2. CASE Configure(r)
    BY <2>2 DEF Configure, RowsStay, ElsewhereSame, TypeOK
  <2>3. CASE UpdateTenantIntegration(r)
    <3>1. webhook' = webhook
      BY <2>3 DEF UpdateTenantIntegration
    <3>2. CASE InstanceTaken(r)
      BY <2>3, <3>1, <3>2 DEF UpdateTenantIntegration, RowsStay, ElsewhereSame
    <3>3. CASE ~InstanceTaken(r)
      <4> DEFINE new == [instance |-> Instance(r), secret |-> secret[r],
                         inbox |-> inbox[r], hmac |-> inbox[r]]
      <4>1. /\ tenants' = [tenants EXCEPT ![Name(r)] = new]
            /\ tenants[Name(r)].inbox = inbox[r] /\ inbox[r] \in InboxIds
        BY <2>3, <3>3, UpdatedRow
      <4>2. new \in Tenants /\ new # NoTenant
        BY <4>1, RunTypes, SetupAssumption DEF Tenants
      <4>3. new.inbox = inbox[r]
        OBVIOUS
      <4> HIDE DEF new
      <4> QED
        BY <3>1, <4>1, <4>2, <4>3 DEF RowsStay, ElsewhereSame, TypeOK
    <3> QED
      BY <3>2, <3>3
  <2>4. CASE ~(CreateTenant(r) \/ Configure(r) \/ UpdateTenantIntegration(r))
    BY <2>4 DEF Step, Start, Lookup, CreateAPIInbox, CallFails, Killed, RowsStay,
                ElsewhereSame
  <2> QED
    BY <2>1, <2>2, <2>3, <2>4
<1> QED
  BY <1>1, <1>2, <1>3

LEMMA HoldStep ==
    ASSUME IInv, NEW r \in Runs, Step(r)
    PROVE  RunsHoldWhatTheyNeed'
<1> USE DEF IInv
<1> SUFFICES ASSUME NEW s \in Runs
             PROVE  /\ pc'[s] \in {"inbox", "create", "configure", "update"}
                          => secret'[s] # NoSecret
                    /\ pc'[s] \in {"inbox", "create"} => seen'[s] = NoTenant
                    /\ pc'[s] \in {"create", "configure", "update"}
                          => inbox'[s] # NoInbox
                    /\ pc'[s] = "update" => seen'[s] # NoTenant
                    /\ pc'[s] \in {"configure", "update"} /\ seen'[s] # NoTenant
                          => /\ tenants'[flags'[s].name] # NoTenant
                             /\ tenants'[flags'[s].name].inbox = inbox'[s]
  BY DEF RunsHoldWhatTheyNeed, Name
<1>1. CASE s # r
  BY <1>1, Frame, RunTypes DEF OthersStay, RowsStay, RunsHoldWhatTheyNeed, Name
<1>2. CASE s = r
  <2> USE <1>2
  <2>1. CASE Start(r)
    BY <2>1 DEF Start, Goto, TypeOK
  <2>2. CASE Lookup(r)
    <3>1. tenants[Name(r)] # NoTenant => tenants[Name(r)].inbox \in InboxIds
      BY RunTypes DEF Tenants
    <3>2. tenants[Name(r)] # NoTenant => tenants[Name(r)].inbox # NoInbox
      BY <3>1, SetupAssumption, FS_CardinalityType DEF InboxIds, NoInbox
    <3>3. /\ seen'[r] = tenants[Name(r)] /\ secret'[r] # NoSecret
          /\ inbox'[r] = IF tenants[Name(r)] = NoTenant THEN NoInbox
                                                        ELSE tenants[Name(r)].inbox
          /\ pc'[r] = IF tenants[Name(r)] = NoTenant THEN "inbox" ELSE "configure"
          /\ tenants' = tenants /\ flags' = flags
      BY <2>2, SetupAssumption DEF Lookup, Goto, TypeOK
    <3> QED
      BY <3>2, <3>3 DEF Name
  <2>3. CASE CreateAPIInbox(r)
    <3>1. inbox'[r] # NoInbox
      BY <2>3, RunTypes, SetupAssumption, FS_CardinalityType
         DEF CreateAPIInbox, TypeOK, InboxIds, NoInbox
    <3> QED
      BY <2>3, <3>1 DEF CreateAPIInbox, Goto, TypeOK, RunsHoldWhatTheyNeed
  <2>4. CASE CreateTenant(r)
    BY <2>4 DEF CreateTenant, Goto, TypeOK, RunsHoldWhatTheyNeed
  <2>5. CASE Configure(r)
    BY <2>5 DEF Configure, Goto, TypeOK, RunsHoldWhatTheyNeed, Name
  <2>6. CASE UpdateTenantIntegration(r) \/ CallFails(r) \/ Killed(r)
    BY <2>6 DEF UpdateTenantIntegration, CallFails, Killed, Goto, TypeOK
  <2> QED
    BY <2>1, <2>2, <2>3, <2>4, <2>5, <2>6 DEF Step
<1> QED
  BY <1>1, <1>2

LEMMA NearStep ==
    ASSUME IInv, NEW r \in Runs, Step(r)
    PROVE  NobodyNear'
<1> USE DEF IInv
<1> SUFFICES ASSUME NEW a \in alone', NEW s \in Runs, a # s, Active(a)', Active(s)'
             PROVE  /\ flags'[a].name # flags'[s].name
                    /\ flags'[a].token # flags'[s].token
  BY DEF NobodyNear, Name, Token
<1>1. CASE ~Start(r)
  <2>1. alone' = alone /\ flags' = flags /\ a \in Runs
    BY <1>1, Frame DEF TypeOK
  <2>2. Active(a) /\ Active(s)
    BY <1>1, <2>1, Frame DEF OthersStay, Active
  <2> QED
    BY <2>1, <2>2 DEF NobodyNear, Name, Token
<1>2. CASE Start(r)
  <2>1. PICK f \in CommandLines :
           LET related == {q \in Runs : /\ Active(q)
                                        /\ \/ Name(q) = f.name
                                           \/ Instance(q) = f.instance
                                           \/ Token(q) = f.token}
           IN /\ flags' = [flags EXCEPT ![r] = f]
              /\ alone' = alone \ (IF related = {} THEN {} ELSE related \cup {r})
    BY <1>2 DEF Start
  <2> DEFINE related == {q \in Runs : /\ Active(q)
                                      /\ \/ Name(q) = f.name
                                         \/ Instance(q) = f.instance
                                         \/ Token(q) = f.token}
  <2>2. /\ a \in alone /\ a \in Runs /\ a \notin related
        /\ a = r => related = {}
    BY <2>1 DEF TypeOK
  <2>3. flags'[r] = f /\ \A q \in Runs \ {r} : flags'[q] = flags[q]
    BY <2>1 DEF TypeOK
  <2>4. \A q \in Runs \ {r} : Active(q)' => Active(q)
    BY Frame DEF OthersStay, Active
  <2>5. CASE a = r
    BY <2>2, <2>3, <2>4, <2>5 DEF Name, Token
  <2>6. CASE s = r
    BY <2>2, <2>3, <2>4, <2>6 DEF Name, Token
  <2>7. CASE a # r /\ s # r
    BY <2>2, <2>3, <2>4, <2>7 DEF NobodyNear, Name, Token
  <2> QED
    BY <2>5, <2>6, <2>7
<1> QED
  BY <1>1, <1>2

LEMMA WorkStep ==
    ASSUME IInv, NEW r \in Runs, Step(r)
    PROVE  OwnWorkStands'
<1> USE DEF IInv
<1> SUFFICES ASSUME NEW s \in alone'
             PROVE  /\ pc'[s] = "inbox" => tenants'[flags'[s].name] = NoTenant
                    /\ pc'[s] = "configure" /\ seen'[s] = NoTenant
                          => tenants'[flags'[s].name] =
                               [instance |-> flags'[s].instance, secret |-> secret'[s],
                                inbox |-> inbox'[s], hmac |-> inbox'[s]]
                    /\ pc'[s] = "update"
                          => webhook'[flags'[s].token] = <<flags'[s].instance, secret'[s]>>
  BY DEF OwnWorkStands, CreatedRow, Name, Instance, Token
<1>1. s \in alone /\ s \in Runs
  BY DEF Step, Start, Lookup, CreateAPIInbox, CreateTenant, Configure,
         UpdateTenantIntegration, CallFails, Killed, TypeOK
<1>2. CASE Start(r)
  <2>1. tenants' = tenants /\ webhook' = webhook /\ pc'[r] = "lookup"
    BY <1>2 DEF Start, Goto, TypeOK
  <2> QED
    BY <1>1, <2>1, Frame
       DEF OthersStay, OwnWorkStands, CreatedRow, Name, Instance, Token
<1>3. CASE ~Start(r) /\ s # r
  <2>1. CASE Active(s)
    <3>1. Name(s) # Name(r) /\ Token(s) # Token(r)
      BY <1>1, <1>3, <2>1, Frame DEF NobodyNear
    <3>2. tenants'[Name(s)] = tenants[Name(s)] /\ webhook'[Token(s)] = webhook[Token(s)]
      BY <1>1, <3>1, Frame, RunTypes DEF ElsewhereSame
    <3> QED
      BY <1>1, <1>3, <3>2, Frame
         DEF OthersStay, OwnWorkStands, CreatedRow, Name, Instance, Token
  <2>2. CASE ~Active(s)
    BY <1>1, <1>3, <2>2, Frame DEF OthersStay, Active
  <2> QED
    BY <2>1, <2>2
<1>4. CASE s = r /\ Lookup(r)
  BY <1>4 DEF Lookup, Goto, TypeOK, Name
<1>5. CASE s = r /\ CreateAPIInbox(r)
  BY <1>5 DEF CreateAPIInbox, Goto, TypeOK
<1>6. CASE s = r /\ CreateTenant(r)
  BY <1>6, RunTypes DEF CreateTenant, Goto, TypeOK, Name, Instance
<1>7. CASE s = r /\ Configure(r)
  BY <1>7, RunTypes DEF Configure, Goto, TypeOK, Name, Instance, Token
<1>8. CASE s = r /\ (UpdateTenantIntegration(r) \/ CallFails(r) \/ Killed(r))
  BY <1>8 DEF UpdateTenantIntegration, CallFails, Killed, Goto, TypeOK
<1> QED
  BY <1>2, <1>3, <1>4, <1>5, <1>6, <1>7, <1>8 DEF Step

-----------------------------------------------------------------------------
(* The theorems.                                                           *)

LEMMA InitInv == Init => IInv
<1> SUFFICES ASSUME Init
             PROVE  IInv
  OBVIOUS
<1>1. PICK legacy \in SUBSET Names :
         tenants = [n \in Names |->
              IF n \in legacy
              THEN [instance |-> LegacyOn[n], secret |-> NoSecret, inbox |-> 1,
                    hmac |-> NoInbox]
              ELSE NoTenant]
  BY DEF Init
<1>2. 1 \in InboxIds
  BY SetupAssumption, FS_CardinalityType DEF InboxIds
<1>3. \A n \in legacy :
         [instance |-> LegacyOn[n], secret |-> NoSecret, inbox |-> 1, hmac |-> NoInbox]
            \in Tenants
  BY <1>2, SetupAssumption DEF Tenants, Secrets
<1>4. (CHOOSE f \in CommandLines : TRUE) \in CommandLines
  <2>1. PICK n \in Names : TRUE
    BY SetupAssumption
  <2>2. [name |-> n, instance |-> LegacyOn[n], token |-> LegacyOn[n],
       rotate |-> FALSE] \in CommandLines
    BY SetupAssumption DEF CommandLines
  <2> QED
    BY <2>2
<1>5. TypeOK
  <2>1. tenants \in [Names -> Tenants \cup {NoTenant}]
    BY <1>1, <1>3
  <2>2. inboxes \in [Names -> InboxIds \cup {NoInbox}]
    BY <1>2 DEF Init, NoInbox
  <2>3. flags \in [Runs -> CommandLines]
    BY <1>4 DEF Init
  <2> QED
    BY <2>1, <2>2, <2>3 DEF Init, TypeOK, Secrets
<1>6. InboxesCounted
  <2>1. BeyondInbox = {}
    BY DEF Init, BeyondInbox
  <2> QED
    BY <2>1, FS_EmptySet DEF Init, InboxesCounted
<1>7. RunsHoldWhatTheyNeed /\ NobodyNear /\ OwnWorkStands
  BY DEF Init, RunsHoldWhatTheyNeed, NobodyNear, OwnWorkStands, Active
<1> QED
  BY <1>5, <1>6, <1>7 DEF IInv

LEMMA NextInv == IInv /\ [Next]_vars => IInv'
<1> SUFFICES ASSUME IInv, [Next]_vars
             PROVE  IInv'
  OBVIOUS
<1>1. CASE Next
  <2>1. PICK r \in Runs : Step(r)
    BY <1>1 DEF Next
  <2> QED
    BY <2>1, TypeStep, CountStep, HoldStep, NearStep, WorkStep DEF IInv
<1>2. CASE UNCHANGED vars
  BY <1>2 DEF vars, IInv, TypeOK, InboxesCounted, BeyondInbox, RunsHoldWhatTheyNeed,
              NobodyNear, OwnWorkStands, CreatedRow, Active, Name, Instance, Token
<1> QED
  BY <1>1, <1>2

\* The inductive invariant holds always.
THEOREM Invariant == Spec => []IInv
BY InitInv, NextInv, PTL DEF Spec

\* The state of setup is well-typed; in particular no more inboxes are created
\* than there are runs of the command.
THEOREM TypeCorrect == Spec => []TypeOK
<1>1. IInv => TypeOK
  BY DEF IInv
<1> QED
  BY <1>1, Invariant, PTL

\* "não recria a inbox": setup creates no inbox for a tenant that is
\* registered, unless a run for the same tenant or instance was under way
\* beside it.
THEOREM InboxKept == Spec => RegisteredInboxIsKept
<1>1. IInv /\ [Next]_vars
        => [\A r \in Runs : r \in alone /\ pc'[r] # pc[r] /\ tenants[Name(r)] # NoTenant
                              => inboxes' = inboxes]_vars
  <2> SUFFICES ASSUME IInv, Next, NEW r \in Runs,
                      r \in alone, pc'[r] # pc[r], tenants[Name(r)] # NoTenant
               PROVE  inboxes' = inboxes
    OBVIOUS
  <2>1. PICK q \in Runs : Step(q)
    BY DEF Next
  <2>2. q = r
    BY <2>1, Frame DEF OthersStay
  <2>3. ~CreateAPIInbox(r)
    BY DEF IInv, OwnWorkStands, CreateAPIInbox
  <2> QED
    BY <2>1, <2>2, <2>3
       DEF Step, Start, Lookup, CreateTenant, Configure, UpdateTenantIntegration,
           CallFails, Killed
<1> QED
  BY <1>1, Invariant, PTL DEF Spec, RegisteredInboxIsKept

\* "Se o upstream rejeitar a URL, o segredo anterior continua ativo": whatever
\* fails, an undisturbed run with its instance's token never leaves the
\* database with a secret that Evolution Go does not call with; and no
\* undisturbed run breaks the signature check.
THEOREM DatabaseLocksNobodyOut == Spec => OnlyEvolutionLocksOut
<1>1. IInv /\ [Next]_vars
        => [\A r \in Runs : r \in alone /\ pc'[r] # pc[r] =>
              \A n \in Names :
                 /\ SignatureAccepted(n) => SignatureAccepted(n)'
                 /\ OwnToken(r) /\ Accepted(n) /\ webhook' = webhook => Accepted(n)']_vars
  <2> SUFFICES ASSUME IInv, Next, NEW r \in Runs, r \in alone, pc'[r] # pc[r],
                      NEW n \in Names
               PROVE  /\ SignatureAccepted(n) => SignatureAccepted(n)'
                      /\ OwnToken(r) /\ Accepted(n) /\ webhook' = webhook => Accepted(n)'
    OBVIOUS
  <2>1. PICK q \in Runs : Step(q)
    BY DEF Next
  <2>2. q = r
    BY <2>1, Frame DEF OthersStay
  <2>3. CASE tenants'[n] = tenants[n]
    BY <2>3 DEF SignatureAccepted, Accepted
  <2>4. CASE CreateTenant(r)
    BY <2>1, <2>2, <2>4, Frame
       DEF CreateTenant, ElsewhereSame, SignatureAccepted, Accepted
  <2>5. CASE UpdateTenantIntegration(r)
    <3>1. CASE InstanceTaken(r) \/ n # Name(r)
      BY <2>1, <2>2, <2>3, <2>5, <3>1, Frame DEF UpdateTenantIntegration, ElsewhereSame
    <3>2. CASE ~InstanceTaken(r) /\ n = Name(r)
      <4>1. /\ tenants' = [tenants EXCEPT ![Name(r)] =
                              [instance |-> Instance(r), secret |-> secret[r],
                               inbox |-> inbox[r], hmac |-> inbox[r]]]
            /\ inbox[r] \in InboxIds
        BY <2>5, <3>2, UpdatedRow DEF IInv
      <4>2. tenants'[n] = [instance |-> Instance(r), secret |-> secret[r],
                           inbox |-> inbox[r], hmac |-> inbox[r]]
        BY <3>2, <4>1 DEF IInv, TypeOK
      <4>3. tenants'[n] # NoTenant
        BY <4>1, <4>2, RunTypes, SetupAssumption DEF IInv, Tenants
      <4>4. webhook[Token(r)] = <<Instance(r), secret[r]>> /\ secret[r] # NoSecret /\ webhook' = webhook
        BY <2>5 DEF UpdateTenantIntegration, IInv, OwnWorkStands, RunsHoldWhatTheyNeed
      <4> QED
        BY <4>2, <4>3, <4>4 DEF SignatureAccepted, Accepted, OwnToken
    <3> QED
      BY <3>1, <3>2
  <2>6. CASE ~CreateTenant(r) /\ ~UpdateTenantIntegration(r)
    <3>1. tenants' = tenants
      BY <2>1, <2>2, <2>6
         DEF Step, Start, Lookup, CreateAPIInbox, Configure, CallFails, Killed
    <3> QED
      BY <2>3, <3>1
  <2> QED
    BY <2>4, <2>5, <2>6
<1> QED
  BY <1>1, Invariant, PTL DEF Spec, OnlyEvolutionLocksOut

\* A run with the token of its instance that reports success, and that no run
\* for the same tenant, instance or token overlapped, leaves a tenant whose webhooks are let in from both sides: the
\* URL of its instance carries the secret of its row, and its row has the
\* secret of its inbox.  It may be a new tenant, a rotation, another instance,
\* a tenant older than the webhooks or one that failed runs left half done.
THEOREM SuccessLetsIn == Spec => SuccessIsAccepted
<1>1. IInv /\ [Next]_vars
        => [\A r \in Runs :
              /\ r \in alone /\ OwnToken(r)
              /\ pc[r] # "done" /\ pc'[r] = "done"
              => (Accepted(Name(r)) /\ SignatureAccepted(Name(r)))']_vars
  <2> SUFFICES ASSUME IInv, Next, NEW r \in Runs,
                      r \in alone, OwnToken(r), pc[r] # "done", pc'[r] = "done"
               PROVE  (Accepted(Name(r)) /\ SignatureAccepted(Name(r)))'
    OBVIOUS
  <2>1. PICK q \in Runs : Step(q)
    BY DEF Next
  <2>2. q = r
    BY <2>1, Frame DEF OthersStay
  <2>3. Configure(r) \/ UpdateTenantIntegration(r)
    BY <2>1, <2>2 DEF Step, Start, Lookup, CreateAPIInbox, CreateTenant, CallFails,
                      Killed, Goto, IInv, TypeOK
  <2> DEFINE new == [instance |-> Instance(r), secret |-> secret[r],
                     inbox |-> inbox[r], hmac |-> inbox[r]]
  <2>4. /\ tenants'[Name(r)] = new
        /\ webhook'[Token(r)] = <<Instance(r), secret[r]>>
        /\ inbox[r] \in InboxIds /\ secret[r] # NoSecret /\ flags' = flags
    <3>1. CASE Configure(r)
      <4>1. seen[r] = NoTenant /\ pc[r] = "configure"
        BY <3>1 DEF Configure, Goto, IInv, TypeOK
      <4> QED
        BY <3>1, <4>1, RunTypes
           DEF Configure, IInv, TypeOK, OwnWorkStands, CreatedRow, RunsHoldWhatTheyNeed
    <3>2. CASE UpdateTenantIntegration(r)
      <4>1. ~InstanceTaken(r) /\ pc[r] = "update" /\ webhook' = webhook /\ flags' = flags
        BY <3>2 DEF UpdateTenantIntegration, Goto, IInv, TypeOK
      <4>2. tenants' = [tenants EXCEPT ![Name(r)] = new] /\ inbox[r] \in InboxIds
        BY <3>2, <4>1, UpdatedRow DEF IInv
      <4>3. tenants'[Name(r)] = new
        BY <4>2, RunTypes DEF IInv, TypeOK
      <4> QED
        BY <4>1, <4>2, <4>3 DEF IInv, OwnWorkStands, RunsHoldWhatTheyNeed
    <3> QED
      BY <2>3, <3>1, <3>2
  <2>5. new \in Tenants /\ new # NoTenant
    BY <2>4, RunTypes, SetupAssumption DEF IInv, Tenants
  <2>6. Name(r)' = Name(r)
    BY <2>4 DEF Name
  <2> QED
    BY <2>4, <2>5, <2>6 DEF Accepted, SignatureAccepted, OwnToken
<1> QED
  BY <1>1, Invariant, PTL DEF Spec, SuccessIsAccepted

=============================================================================
