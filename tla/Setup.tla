-------------------------------- MODULE Setup --------------------------------
(***************************************************************************)
(* The command connect setup (cmd/connect-cli/setup.go): it ties a tenant  *)
(* to a Chatwoot inbox and an Evolution Go instance.  It agrees with       *)
(* Evolution Go on the secret that authenticates its webhooks, which lives *)
(* in two places, the URL Evolution Go calls and the tenant's row, that no *)
(* transaction spans; and it copies the secret by which Chatwoot signs the *)
(* webhooks of the inbox.  A run of the command is one actor; runs may     *)
(* fail at every call, and several may be under way at once.               *)
(***************************************************************************)
EXTENDS Naturals, FiniteSets

CONSTANTS Names,      \* tenants
          Instances,  \* Evolution Go instances
          Runs,       \* executions of the command; each may draw one secret
          MixedUp,    \* instances whose token may be given for another's
          LegacyOn,   \* the instance of each tenant older than the webhooks
          NoTenant, NoSecret

Secrets == Runs \cup {NoSecret}

\* The inboxes created for a name, in order; each signs with its own secret.
InboxIds == 1..(Cardinality(Runs) + 1)
NoInbox == 0

\* hmac names the inbox whose webhook secret the row has.
Tenants == [instance : Instances, secret : Secrets, inbox : InboxIds,
            hmac : InboxIds \cup {NoInbox}]

ASSUME SetupAssumption ==
    /\ Names # {} /\ IsFiniteSet(Runs)
    /\ LegacyOn \in [Names -> Instances]
    /\ \A m, n \in Names : LegacyOn[m] = LegacyOn[n] => m = n
    /\ NoSecret \notin Runs /\ NoTenant \notin Tenants

VARIABLES tenants,  \* the table `tenants`
          inboxes,  \* Chatwoot: how many inboxes were created for each name
          webhook,  \* Evolution Go: instance and secret in each instance's
                    \* webhook URL
          advice,   \* printed: with which flags to "rerun setup"
          flags,    \* Runs -> command line
          seen,     \* Runs -> the tenant row it read
          secret,   \* Runs -> the secret to agree on
          inbox,    \* Runs -> the inbox it knows with its secret
          pc,       \* Runs -> the next call, or how the run ended
          alone,    \* history: runs no related run overlaps
          faulty    \* history: runs one of whose calls failed

vars == <<tenants, inboxes, webhook, advice, flags, seen, secret, inbox, pc, alone,
          faulty>>

\* Evolution Go does what the token's instance is told; instance is the name
\* given to --evo-instance, that the database and the URL have.
CommandLines ==
    {f \in [name : Names, instance : Instances, token : Instances, rotate : BOOLEAN] :
        f.token = f.instance \/ f.token \in MixedUp}

\* Tenants older than the webhooks have an inbox, but neither secret: what the
\* row had for Chatwoot was another token.
Init ==
    /\ \E legacy \in SUBSET Names :
          tenants = [n \in Names |->
              IF n \in legacy
              THEN [instance |-> LegacyOn[n], secret |-> NoSecret, inbox |-> 1,
                    hmac |-> NoInbox]
              ELSE NoTenant]
    /\ inboxes = [n \in Names |-> IF tenants[n] = NoTenant THEN 0 ELSE 1]
    /\ webhook = [i \in Instances |-> <<i, NoSecret>>]
    /\ advice = {}
    /\ flags = [r \in Runs |-> CHOOSE f \in CommandLines : TRUE]
    /\ seen = [r \in Runs |-> NoTenant]
    /\ secret = [r \in Runs |-> NoSecret]
    /\ inbox = [r \in Runs |-> NoInbox]
    /\ pc = [r \in Runs |-> "idle"]
    /\ alone = Runs
    /\ faulty = {}

-----------------------------------------------------------------------------

Name(r) == flags[r].name
Instance(r) == flags[r].instance
Token(r) == flags[r].token
Active(r) == pc[r] \in {"lookup", "inbox", "create", "configure", "update"}

Goto(r, l) == pc' = [pc EXCEPT ![r] = l]
Advise(r) == advice' = advice \cup {<<Name(r), Instance(r)>>}

\* idx_tenants_evo_instance_name_unique.
InstanceTaken(r) ==
    \E m \in Names \ {Name(r)} :
        tenants[m] # NoTenant /\ tenants[m].instance = Instance(r)

\* The run begins: GetStatus accepted the token, as that of whichever instance
\* it belongs to.
Start(r) ==
    /\ pc[r] = "idle"
    /\ \E f \in CommandLines :
          LET related == {s \in Runs : /\ Active(s)
                                       /\ \/ Name(s) = f.name
                                          \/ Instance(s) = f.instance
                                          \/ Token(s) = f.token}
          IN /\ flags' = [flags EXCEPT ![r] = f]
             /\ alone' = alone \ (IF related = {} THEN {} ELSE related \cup {r})
    /\ Goto(r, "lookup")
    /\ UNCHANGED <<tenants, inboxes, webhook, advice, seen, secret, inbox, faulty>>

\* Mutated form: a failed query is taken for a tenant not found.
LookupAnyError(r) ==
    /\ pc[r] = "lookup"
    /\ seen' = [seen EXCEPT ![r] = NoTenant]
    /\ secret' = [secret EXCEPT ![r] = r]
    /\ Goto(r, "inbox")
    /\ UNCHANGED <<tenants, inboxes, webhook, advice, flags, inbox, alone, faulty>>

\* Mutated form: the new secret is stored before Evolution Go has it.
LookupStoresSecret(r) ==
    /\ pc[r] = "lookup"
    /\ seen' = [seen EXCEPT ![r] = tenants[Name(r)]]
    /\ secret' = [secret EXCEPT ![r] = r]
    /\ IF tenants[Name(r)] = NoTenant
         THEN Goto(r, "inbox") /\ UNCHANGED <<tenants, inbox>>
         ELSE /\ Goto(r, "configure")
              /\ inbox' = [inbox EXCEPT ![r] = tenants[Name(r)].inbox]
              /\ tenants' = [tenants EXCEPT ![Name(r)].secret = r]
    /\ UNCHANGED <<inboxes, webhook, advice, flags, alone, faulty>>

\* GetTenantByName: create the tenant; or update it, with what GetInbox says of
\* its inbox.  A secret is drawn if there is none or the rotation was asked
\* for.
Lookup(r) ==
    /\ pc[r] = "lookup"
    /\ LET row == tenants[Name(r)]
           keep == row # NoTenant /\ row.secret # NoSecret /\ ~flags[r].rotate
       IN /\ seen' = [seen EXCEPT ![r] = row]
          /\ secret' = [secret EXCEPT ![r] = IF keep THEN row.secret ELSE r]
          /\ inbox' = [inbox EXCEPT ![r] = IF row = NoTenant THEN NoInbox ELSE row.inbox]
          /\ Goto(r, IF row = NoTenant THEN "inbox" ELSE "configure")
    /\ UNCHANGED <<tenants, inboxes, webhook, advice, flags, alone, faulty>>

\* Mutated form: an unanswered call is tried again.
CreateAPIInboxRetries(r) ==
    /\ pc[r] = "inbox"
    /\ inboxes' = [inboxes EXCEPT ![Name(r)] = @ + 1]
    /\ inbox' = [inbox EXCEPT ![r] = inboxes'[Name(r)]]
    /\ Goto(r, "create") \/ UNCHANGED pc
    /\ UNCHANGED <<tenants, webhook, advice, flags, seen, secret, alone, faulty>>

\* CreateAPIInbox, carried out; its answer may be lost or lack the secret.
CreateAPIInbox(r) ==
    /\ pc[r] = "inbox"
    /\ inboxes' = [inboxes EXCEPT ![Name(r)] = @ + 1]
    /\ inbox' = [inbox EXCEPT ![r] = inboxes'[Name(r)]]
    /\ \/ Goto(r, "create") /\ UNCHANGED faulty
       \/ Goto(r, "failed") /\ faulty' = faulty \cup {r}
    /\ UNCHANGED <<tenants, webhook, advice, flags, seen, secret, alone>>

\* CreateTenant, before Evolution Go learns the secret; the name and the
\* instance must be free.
CreateTenant(r) ==
    /\ pc[r] = "create"
    /\ IF tenants[Name(r)] # NoTenant \/ InstanceTaken(r)
         THEN Goto(r, "failed") /\ UNCHANGED <<tenants, faulty>>
         ELSE /\ tenants' = [tenants EXCEPT ![Name(r)] =
                               [instance |-> Instance(r), secret |-> secret[r],
                                inbox |-> inbox[r], hmac |-> inbox[r]]]
              /\ \/ Goto(r, "configure") /\ UNCHANGED faulty
                 \/ Goto(r, "failed") /\ faulty' = faulty \cup {r}
    /\ UNCHANGED <<inboxes, webhook, advice, flags, seen, secret, inbox, alone>>

\* configureEvogoWebhook, carried out on the instance of the token, with a URL
\* that names the other; if its answer is lost or does not confirm, a new
\* tenant is told to rerun.
Configure(r) ==
    /\ pc[r] = "configure"
    /\ webhook' = [webhook EXCEPT ![Token(r)] = <<Instance(r), secret[r]>>]
    /\ \/ /\ Goto(r, IF seen[r] = NoTenant THEN "done" ELSE "update")
          /\ UNCHANGED <<advice, faulty>>
       \/ /\ Goto(r, "failed") /\ faulty' = faulty \cup {r}
          /\ IF seen[r] = NoTenant THEN Advise(r) ELSE UNCHANGED advice
    /\ UNCHANGED <<tenants, inboxes, flags, seen, secret, inbox, alone>>

\* Mutated form: the row keeps the secret it had.
UpdateOldSecret(r) ==
    /\ pc[r] = "update" /\ ~InstanceTaken(r)
    /\ tenants' = [tenants EXCEPT ![Name(r)].instance = Instance(r),
                                  ![Name(r)].secret = seen[r].secret,
                                  ![Name(r)].hmac = inbox[r]]
    /\ Goto(r, "done")
    /\ UNCHANGED <<inboxes, webhook, advice, flags, seen, secret, inbox, alone, faulty>>

\* UpdateTenantIntegration: the inbox stays, instance and both secrets are
\* replaced.  Any error prints "rerun setup immediately to recover".
UpdateTenantIntegration(r) ==
    /\ pc[r] = "update"
    /\ IF InstanceTaken(r)
         THEN Goto(r, "failed") /\ Advise(r) /\ UNCHANGED <<tenants, faulty>>
         ELSE /\ tenants' = [tenants EXCEPT ![Name(r)].instance = Instance(r),
                                            ![Name(r)].secret = secret[r],
                                            ![Name(r)].hmac = inbox[r]]
              /\ \/ Goto(r, "done") /\ UNCHANGED <<advice, faulty>>
                 \/ Goto(r, "failed") /\ Advise(r) /\ faulty' = faulty \cup {r}
    /\ UNCHANGED <<inboxes, webhook, flags, seen, secret, inbox, alone>>

\* A call is refused or does not reach the other side, or the 60 seconds are
\* over: no effect, and the advice of the call that failed.
CallFails(r) ==
    /\ Active(r)
    /\ Goto(r, "failed")
    /\ faulty' = faulty \cup {r}
    /\ IF pc[r] = "update" \/ (pc[r] = "configure" /\ seen[r] = NoTenant)
         THEN Advise(r) ELSE UNCHANGED advice
    /\ UNCHANGED <<tenants, inboxes, webhook, flags, seen, secret, inbox, alone>>

\* The process dies and prints nothing.
Killed(r) ==
    /\ Active(r)
    /\ Goto(r, "failed")
    /\ faulty' = faulty \cup {r}
    /\ UNCHANGED <<tenants, inboxes, webhook, advice, flags, seen, secret, inbox, alone>>

Step(r) ==
    \/ Start(r) \/ Lookup(r) \/ CreateAPIInbox(r) \/ CreateTenant(r)
    \/ Configure(r) \/ UpdateTenantIntegration(r) \/ CallFails(r) \/ Killed(r)

Next == \E r \in Runs : Step(r)

Spec == Init /\ [][Next]_vars

-----------------------------------------------------------------------------

\* evogoWebhookHandler lets a webhook of the tenant's instance in: the row has
\* a secret, and the URL Evolution Go calls for that instance has its name and
\* this secret.
Accepted(n) ==
    /\ tenants[n] # NoTenant
    /\ tenants[n].secret # NoSecret
    /\ webhook[tenants[n].instance] = <<tenants[n].instance, tenants[n].secret>>

\* chatwootWebhookHandler lets the signed webhooks of the tenant's inbox in.
SignatureAccepted(n) ==
    tenants[n] # NoTenant /\ tenants[n].hmac = tenants[n].inbox

TypeOK ==
    /\ tenants \in [Names -> Tenants \cup {NoTenant}]
    /\ inboxes \in [Names -> InboxIds \cup {NoInbox}]
    /\ webhook \in [Instances -> Instances \X Secrets]
    /\ advice \subseteq Names \X Instances
    /\ flags \in [Runs -> CommandLines]
    /\ seen \in [Runs -> Tenants \cup {NoTenant}]
    /\ secret \in [Runs -> Secrets]
    /\ inbox \in [Runs -> InboxIds \cup {NoInbox}]
    /\ pc \in [Runs -> {"idle", "lookup", "inbox", "create", "configure", "update",
                        "done", "failed"}]
    /\ alone \subseteq Runs /\ faulty \subseteq Runs

\* The token given is that of the instance named, as the operator is asked for
\* and setup does not look at.
OwnToken(r) == Token(r) = Instance(r)

\* A run with the token of its instance that reports success, and that no run
\* on the same tenant or instance overlapped, leaves a tenant whose webhooks
\* are let in from both sides: rotation, changed instance, legacy tenant, and
\* whatever earlier runs, also with wrong tokens, left half done.
SuccessIsAccepted ==
    [][\A r \in Runs :
          /\ r \in alone /\ OwnToken(r)
          /\ pc[r] # "done" /\ pc'[r] = "done"
          => (Accepted(Name(r)) /\ SignatureAccepted(Name(r)))']_vars

\* "Se o upstream rejeitar a URL, o segredo anterior continua ativo": only
\* Evolution Go's own change can lock its webhooks out, never the database
\* (given the token of the instance); and nothing at all locks those of
\* Chatwoot out.
OnlyEvolutionLocksOut ==
    [][\A r \in Runs : r \in alone /\ pc'[r] # pc[r] =>
          \A n \in Names :
             /\ SignatureAccepted(n) => SignatureAccepted(n)'
             /\ OwnToken(r) /\ Accepted(n) /\ webhook' = webhook => Accepted(n)']_vars

\* "não recria a inbox": a run creates an inbox only for a name that is not
\* registered, also when the query that looks for it failed.
RegisteredInboxIsKept ==
    [][\A r \in Runs : r \in alone /\ pc'[r] # pc[r] /\ tenants[Name(r)] # NoTenant
                          => inboxes' = inboxes]_vars

\* "rerun setup immediately to recover", "rerun setup": a run with the same
\* tenant and instance, nothing failing and nobody interfering, succeeds.
RerunRecovers ==
    [][\A r \in Runs :
          /\ r \in alone /\ r \notin faulty
          /\ <<Name(r), Instance(r)>> \in advice
          => ~(Active(r) /\ pc'[r] = "failed" /\ r \notin faulty')]_vars

=============================================================================
