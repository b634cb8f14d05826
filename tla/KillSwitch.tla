------------------------------ MODULE KillSwitch ------------------------------
(***************************************************************************)
(* The kill switch over the handlers of Bridge: what it promises of the    *)
(* handlers that are already under way when somebody pauses.  The handlers *)
(* read the switch once, at their start (Core.IsPaused), and go on.  This  *)
(* module adds to Bridge a history variable and nothing else.              *)
(***************************************************************************)
EXTENDS Bridge

VARIABLE underWay  \* history: the messages handlers had in work when the
                   \* present pause began

switchVars == <<chat, written, sent, table, audit, dbPaused, pending, pc, event, made,
                after, crashes, underWay>>

\* Core.IsPaused, as it is and not as a handler may read it.
IsPaused == EnvPaused \/ dbPaused

\* A handler past its look at the switch.
Admitted(d) == Working(d) /\ pc[d] # "start"

InWork == {Subject(event[d]) : d \in {x \in Deliveries : Admitted(x)}}

SwitchInit == Init /\ underWay = {}

RememberWork ==
    underWay' = IF ~IsPaused' THEN {} ELSE IF IsPaused THEN underWay ELSE InWork

SwitchNext == Next /\ RememberWork

SwitchSpec == SwitchInit /\ [][SwitchNext]_switchVars

-----------------------------------------------------------------------------

\* "Quando pausado, webhooks do Chatwoot retornam 503", "WhatsApp NÃO recebe":
\* during a pause nothing crosses, in either direction, but the messages that
\* a handler had in work when the pause began; neither by a redelivery, nor
\* after a wait, a crash or a lapsed claim.
PauseHoldsBack ==
    [][IsPaused =>
          \A m \in AbsMessages \ underWay : Copies'[m] = Copies[m]]_switchVars

=============================================================================
