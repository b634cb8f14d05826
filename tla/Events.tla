-------------------------------- MODULE Events --------------------------------
(***************************************************************************)
(* What internal/evogo/types.go and jid.go make of an event of Evolution   *)
(* Go, and what Evolution Go sends for a message (external: the payload    *)
(* contracts of types_test.go).  Strings are abstracted to what the code   *)
(* tells apart: of a JID its user and its server, of a text whether it is  *)
(* there, blank or real.  Letter case and surrounding blanks, which the    *)
(* code removes before it compares, are left out.                          *)
(***************************************************************************)
EXTENDS Sequences, FiniteSetsExt

CONSTANTS Contacts,  \* numbers of the people we write with
          Us,        \* the connected number
          LidOf,     \* numbers -> the user part of their LID
          Group,     \* user part of a group JID
          NoUser     \* the empty string

\* Nobody writes with the connected number itself.
ASSUME EventsAssumption == Us \notin Contacts /\ NoUser \notin Contacts

Numbers == Contacts \cup {Us}

\* User parts made of ASCII digits; a LID is a number too.
Digits == Numbers \cup {LidOf[n] : n \in Numbers}

\* A JID as webhookJID returns it, from {user, server} or from text.
JID(user, server) == [user |-> user, server |-> server]

NoJID == JID(NoUser, "")

IsDirectJID(jid) == jid.server = "s.whatsapp.net"

IsLIDJID(jid) == jid.server = "lid"

IsNonDirectJID(jid) == jid.server \in {"g.us", "broadcast", "newsletter"}

\* "" when there is none.
FirstDirectJID(candidates) ==
    LET direct == {i \in DOMAIN candidates : IsDirectJID(candidates[i])}
    IN  IF direct = {} THEN NoJID ELSE candidates[Min(direct)]

\* Mutated forms of SelectInfoJID: the direction is not looked at; a group in
\* chat does not prevail; the alternates are not known.
SelectInfoJIDAnyDirection(info, own) ==
    IF IsNonDirectJID(info.chat) THEN info.chat
    ELSE FirstDirectJID(<<info.sender, info.senderAlt, info.chat>>)

SelectInfoJIDNoGroupCheck(info, own) ==
    FirstDirectJID(IF own THEN <<info.chat, info.recipientAlt>>
                          ELSE <<info.sender, info.senderAlt, info.chat>>)

SelectInfoJIDNoAlternates(info, own) ==
    IF IsNonDirectJID(info.chat) THEN info.chat
    ELSE FirstDirectJID(IF own THEN <<info.chat>> ELSE <<info.sender, info.chat>>)

\* A group in chat prevails; else the direct JID of the other side.
SelectInfoJID(info, own) ==
    IF IsNonDirectJID(info.chat) THEN info.chat
    ELSE FirstDirectJID(IF own THEN <<info.chat, info.recipientAlt>>
                               ELSE <<info.sender, info.senderAlt, info.chat>>)

\* Either contract saying so makes the message our own; a flag may be absent.
IsFromMe(data) == "true" \in {data.key.fromMe, data.info.isFromMe}

\* The key of the message, completed from info.  A direct JID in the key is
\* kept; a LID there is replaced, even by nothing.
NormalizeMessageInfo(data) ==
    LET key == data.key
    IN  [data EXCEPT
           !.key.id = IF key.id = "blank" THEN data.info.id ELSE key.id,
           !.key.remoteJid = IF key.remoteJid = NoJID \/ IsLIDJID(key.remoteJid)
                             THEN SelectInfoJID(data.info, IsFromMe(data))
                             ELSE key.remoteJid]

\* "absent" also stands for a field that is not a string.
IncomingMessageText(message) ==
    IF message.conversation = "text" THEN "text" ELSE message.extended

\* message, messages.upsert and messages_upsert, in either case.
MessageEvents == {"message"}

NoData == [none |-> TRUE]

Skip == [result |-> "skip"]
Broken == [result |-> "error"]
Accepted(key, own) == [result |-> "text", remoteJid |-> key.remoteJid, own |-> own]

\* Skipped events are acknowledged, broken ones are to be delivered again.
DirectTextWithReason(event, sent) ==
    IF event \notin MessageEvents THEN Skip
    ELSE IF sent = NoData THEN Broken
    ELSE LET data == NormalizeMessageInfo(sent)
         IN  IF \/ IsNonDirectJID(data.key.remoteJid)
                \/ IncomingMessageText(data.message) # "text"
             THEN Skip
             ELSE IF data.key.id = "blank" \/ data.key.remoteJid = NoJID
             THEN Broken
             ELSE Accepted(data.key, IsFromMe(data))

\* The contact a JID or a bare number names, NoUser when it is neither.
ParseDirectJID(jid) ==
    IF jid.user \in Digits /\ jid.server \in {"", "s.whatsapp.net"}
    THEN jid.user ELSE NoUser

-----------------------------------------------------------------------------
(* External: the messages of WhatsApp and how Evolution Go reports them.   *)

\* A message in a chat with `contact`, or in a group or broadcast the contact
\* or we wrote in.
Messages ==
    [chat : {"direct", "group", "broadcast"}, contact : Contacts, own : BOOLEAN,
     text : BOOLEAN]

Sender(m) == IF m.own THEN Us ELSE m.contact

Direct(n) == JID(n, "s.whatsapp.net")
Lid(n)    == JID(LidOf[n], "lid")

\* Direct chats go by number or by LID.
ChatJIDs(m) ==
    CASE m.chat = "direct" -> {Direct(m.contact), Lid(m.contact)}
      [] m.chat = "group" -> {JID(Group, "g.us")}
      [] m.chat = "broadcast" -> {JID(Group, "broadcast")}

Flag(own) == IF own THEN "true" ELSE "false"

NoKey == [remoteJid |-> NoJID, fromMe |-> "absent", id |-> "blank"]

\* data.key: absent or the legacy contract, whose flag may be left out or,
\* beside info, lag behind.
Keys(m) ==
    {NoKey} \cup
    [remoteJid : ChatJIDs(m), fromMe : {"absent", "false", Flag(m.own)}, id : {"id"}]

NoInfo ==
    [id |-> "blank", isFromMe |-> "absent", chat |-> NoJID, sender |-> NoJID,
     recipientAlt |-> NoJID, senderAlt |-> NoJID]

\* data.info: absent or the native contract.  Builds differ in whether they
\* give the numbers beside the LIDs; only what we send has a recipient.
Infos(m) ==
    {NoInfo} \cup
    {info \in [id : {"id"}, isFromMe : {"absent", Flag(m.own)}, chat : ChatJIDs(m),
               sender : {Direct(Sender(m)), Lid(Sender(m))},
               senderAlt : {NoJID, Direct(Sender(m))},
               recipientAlt : {NoJID, Direct(m.contact)}] :
        info.recipientAlt # NoJID => m.own}

\* Text travels in either field, beside blanks; media in neither.
Contents(m) ==
    IF m.text
    THEN {[conversation |-> "text", extended |-> "absent"]}
         \cup [conversation : {"absent", "blank"}, extended : {"text"}]
    ELSE {x \in [conversation : {"absent", "blank"}, extended : {"absent", "blank"}] :
            "absent" \in {x.conversation, x.extended}}

\* Every payload names the message and says whose it is.
Payloads(m) ==
    {d \in [key : Keys(m), info : Infos(m), message : Contents(m)] :
        /\ "id" \in {d.key.id, d.info.id}
        /\ IsFromMe(d) = m.own}

=============================================================================
