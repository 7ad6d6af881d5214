-------------------------- MODULE RequestsProofs ----------------------------
(***************************************************************************)
(* Who may send, and from which number, for any number of users,           *)
(* instances, logins, tasks and events, and for every handler.             *)
(*                                                                         *)
(* The invariant says what a call has established when it is at a given    *)
(* stage (Established), and why the row that a number is looked up in is   *)
(* the row of the session that carries the number (RowsFollowSessions).    *)
(***************************************************************************)
EXTENDS Requests, WellFoundedInduction, SequenceTheorems,
        FiniteSetTheorems, TLAPS

(* The stages after the session is found, and those before.                *)
After == {"connected", "ready", "socket", "recipient", "content", "load", "upload", "type",
          "send", "ask", "contacts", "enter", "scan"}
Stages == After \cup {"access", "number", "lookup", "permit", "session"}

(* The stages s are those of p, then the session, then others.             *)
Begins(s, p) ==
    /\ s \in Seq(Stages) /\ Len(p) < Len(s)
    /\ \A k \in 1 .. Len(p) : s[k] = p[k]
    /\ s[Len(p) + 1] = "session"
    /\ \A k \in Len(p) + 2 .. Len(s) : s[k] \in After

ByRoute   == {<<"access">>, <<"access", "content">>}
Asking    == {<<"number", "lookup", "permit">>, <<"number", "content", "lookup", "permit">>}
Looking   == {<<"content", "lookup", "permit">>, <<"lookup", "permit">>}
Opening   == {<<"content">>, <<>>}

-----------------------------------------------------------------------------
Calls == [phase : {"idle", "running", "sent", "answered"}, user : Users,
          inst : Instances \cup {NoInst}, asked : Numbers \cup {NoNumber},
          todo : Seq(Stages), over : Links \cup {NoLink}, entered : BOOLEAN,
          allowed : SUBSET Instances, moved : BOOLEAN]

Clients == [inst : Instances \cup {NoInst}, number : Numbers \cup {NoNumber},
            flag : BOOLEAN, up : BOOLEAN, paired : BOOLEAN, scanning : BOOLEAN, due : Nat]

Rows == [Instances -> [number : Numbers \cup {NoNumber}, online : BOOLEAN]]

Typed ==
    /\ row \in Rows
    /\ place \in [Instances -> Nat]
    /\ access \subseteq Users \X Instances
    /\ session \in [Instances -> Links \cup {NoLink}]
    /\ link \in [Links -> Clients]
    /\ leaving \subseteq Links
    /\ marked \in [Instances -> Nat] /\ written \in [Instances -> Nat]
    /\ task \in [Tasks -> Calls]
    /\ astray \subseteq Instances

(* Sessions belong to the instance they are stored for, for good; a device *)
(* that is paired has a number, and one of no instance has none.           *)
Belongs(l) ==
    /\ l \in leaving \/ link[l].due > 0 => link[l].inst \in Instances
    /\ link[l].paired => link[l].number \in Numbers
    /\ link[l].inst = NoInst => link[l].number = NoNumber

LinksBelong ==
    /\ \A i \in Instances : session[i] # NoLink => link[session[i]].inst = i
    /\ \A l \in Links : Belongs(l)

(* A row that is online carries the number of the session of its instance, *)
(* and that session is paired; or a logout is still to write the row.      *)
Carries(i) == session[i] # NoLink /\ link[session[i]].number # NoNumber

Follows(i) ==
    /\ row[i].number \in Numbers
    /\ Carries(i) => link[session[i]].number = row[i].number
    /\ Pending(i) \/ (Carries(i) /\ link[session[i]].paired)

RowsFollowSessions == \A i \in Instances \ astray : row[i].online => Follows(i)

HasRole(c) == RoleOf[c.user] \in {"admin", "user"}
Permitted(c) == RoleOf[c.user] = "admin" \/ (RoleOf[c.user] = "user" /\ c.inst \in c.allowed)

(* Lookup found the instance under the number that was asked for.  Its     *)
(* session may be new, and then it is paired after the lookup, if at all.  *)
Fits(c) ==
    c.asked = NoNumber \/ c.moved \/ c.inst \in astray \/ session[c.inst] = NoLink
    \/ link[session[c.inst]].number \in {c.asked, NoNumber}

(* The call is over a session of its instance, which its caller may use. *)
Holds(c) ==
    /\ c.over \in Links /\ c.inst \in Instances /\ link[c.over].inst = c.inst
    /\ Permitted(c)
    /\ \/ c.asked = NoNumber \/ c.moved \/ c.inst \in astray
       \/ link[c.over].number \in {c.asked, NoNumber}

Established(c) ==
    \/ /\ \E p \in ByRoute : Begins(c.todo, p)
       /\ c.over = NoLink /\ c.inst \in Instances /\ c.asked = NoNumber
    \/ /\ \E p \in Asking : Begins(c.todo, p)
       /\ c.over = NoLink /\ c.asked \in Numbers
    \/ /\ \E p \in Looking : Begins(c.todo, p)
       /\ c.over = NoLink /\ c.asked \in Numbers /\ HasRole(c)
    \/ /\ Begins(c.todo, <<"permit">>)
       /\ c.over = NoLink /\ c.asked \in Numbers /\ HasRole(c) /\ c.inst \in Instances /\ Fits(c)
    \/ /\ \E p \in Opening : Begins(c.todo, p)
       /\ c.over = NoLink /\ c.inst \in Instances /\ Permitted(c) /\ Fits(c)
    \/ /\ c.todo \in Seq(After) /\ c.todo # <<>>
       /\ Holds(c)

CallHolds(c) ==
    /\ c.phase = "running" => Established(c) /\ \A j \in Instances : May(c.user, j) => j \in c.allowed
    /\ c.phase = "sent" => Holds(c) /\ link[c.over].number \in Numbers

IInv ==
    /\ Typed /\ LinksBelong /\ RowsFollowSessions
    /\ \A t \in Tasks : CallHolds(task[t])

-----------------------------------------------------------------------------
(* Sequences of stages.                                                    *)

LEMMA SeqOfAll ==
    ASSUME NEW S, NEW T, NEW s \in Seq(S), \A k \in 1 .. Len(s) : s[k] \in T
    PROVE  s \in Seq(T)
<1>1. Len(s) \in Nat /\ s \in [1 .. Len(s) -> S]
  BY LenProperties
<1>2. s \in [1 .. Len(s) -> T]
  BY <1>1
<1>3. QED BY <1>1, <1>2, SeqDef

LEMMA NextStage ==
    ASSUME NEW s, NEW p \in Seq(Stages), Begins(s, p)
    PROVE  /\ s # <<>>
           /\ p = <<>> => Head(s) = "session" /\ Tail(s) \in Seq(After)
           /\ p # <<>> => Head(s) = p[1] /\ Begins(Tail(s), Tail(p)) /\ Tail(s) # <<>>
<1>1. s \in Seq(Stages) /\ Len(s) \in Nat /\ Len(p) \in Nat /\ Len(p) < Len(s)
  BY DEF Begins
<1>2. s # <<>> /\ Head(s) = s[1]
  BY <1>1
<1>3. /\ Tail(s) \in Seq(Stages) /\ Len(Tail(s)) = Len(s) - 1
      /\ \A k \in 1 .. Len(s) - 1 : Tail(s)[k] = s[k + 1]
  BY <1>1, <1>2, HeadTailProperties
<1>4. CASE p = <<>>
  <2>1. Len(p) = 0
    BY <1>4
  <2>2. s[1] = "session" /\ \A k \in 2 .. Len(s) : s[k] \in After
    BY <1>1, <2>1 DEF Begins
  <2>3. \A k \in 1 .. Len(Tail(s)) : Tail(s)[k] \in After
    BY <1>1, <1>3, <2>2
  <2>4. Tail(s) \in Seq(After)
    BY <1>3, <2>3, SeqOfAll
  <2>5. QED BY <1>2, <1>4, <2>2, <2>4
<1>5. CASE p # <<>>
  <2>1. /\ Tail(p) \in Seq(Stages) /\ Len(Tail(p)) = Len(p) - 1 /\ Len(p) > 0
        /\ \A k \in 1 .. Len(p) - 1 : Tail(p)[k] = p[k + 1]
    BY <1>1, <1>5, HeadTailProperties, EmptySeq
  <2>2. s[1] = p[1]
    BY <1>1, <2>1 DEF Begins
  <2>3. \A k \in 1 .. Len(Tail(p)) : Tail(s)[k] = Tail(p)[k]
    <3> SUFFICES ASSUME NEW k \in 1 .. Len(Tail(p)) PROVE Tail(s)[k] = Tail(p)[k]
      OBVIOUS
    <3>1. k + 1 \in 1 .. Len(p) /\ k \in 1 .. Len(s) - 1 /\ k \in 1 .. Len(p) - 1
      BY <1>1, <2>1
    <3>2. s[k + 1] = p[k + 1]
      BY <3>1 DEF Begins
    <3>3. QED BY <1>3, <2>1, <3>1, <3>2
  <2>4. Tail(s)[Len(Tail(p)) + 1] = "session"
    <3>1. Len(p) \in 1 .. Len(s) - 1 /\ Len(Tail(p)) + 1 = Len(p)
      BY <1>1, <2>1
    <3>2. QED BY <1>3, <3>1 DEF Begins
  <2>5. \A k \in Len(Tail(p)) + 2 .. Len(Tail(s)) : Tail(s)[k] \in After
    <3> SUFFICES ASSUME NEW k \in Len(Tail(p)) + 2 .. Len(Tail(s)) PROVE Tail(s)[k] \in After
      OBVIOUS
    <3>1. k \in 1 .. Len(s) - 1 /\ k + 1 \in Len(p) + 2 .. Len(s)
      BY <1>1, <1>3, <2>1
    <3>2. QED BY <1>3, <3>1 DEF Begins
  <2>6. Len(Tail(p)) < Len(Tail(s)) /\ Len(Tail(s)) # 0
    <3>1. Len(Tail(p)) = Len(p) - 1 /\ Len(Tail(s)) = Len(s) - 1
      BY <1>3, <2>1
    <3>2. Len(p) > 0
      BY <2>1
    <3>3. QED BY <1>1, <3>1, <3>2
  <2>7. Tail(s) # <<>>
    BY <2>6
  <2>8. Begins(Tail(s), Tail(p))
    BY <1>3, <2>3, <2>4, <2>5, <2>6 DEF Begins
  <2>9. QED BY <1>2, <1>5, <2>2, <2>7, <2>8
<1>6. QED BY <1>2, <1>4, <1>5

LEMMA Longer ==
    ASSUME NEW s, NEW p \in Seq(Stages), NEW z \in Seq(After), Begins(s, p)
    PROVE  Begins(s \o z, p)
<1>1. s \in Seq(Stages) /\ z \in Seq(Stages)
  <2>1. After \subseteq Stages
    BY DEF Stages
  <2>2. z \in Seq(Stages)
    BY <2>1, SeqMonotonic
  <2>3. QED BY <2>2 DEF Begins
<1>2. Len(s) \in Nat /\ Len(z) \in Nat /\ Len(p) \in Nat /\ Len(p) < Len(s)
  BY <1>1 DEF Begins
<1>3. /\ s \o z \in Seq(Stages) /\ Len(s \o z) = Len(s) + Len(z)
      /\ \A k \in 1 .. Len(s) + Len(z) : (s \o z)[k] = IF k <= Len(s) THEN s[k] ELSE z[k - Len(s)]
  BY <1>1, ConcatProperties
<1>4. \A k \in 1 .. Len(s) : (s \o z)[k] = s[k]
  BY <1>2, <1>3
<1>5. \A k \in 1 .. Len(p) : (s \o z)[k] = p[k]
  <2>1. \A k \in 1 .. Len(p) : k \in 1 .. Len(s)
    BY <1>2
  <2>2. QED BY <1>4, <2>1 DEF Begins
<1>6. (s \o z)[Len(p) + 1] = "session"
  <2>1. Len(p) + 1 \in 1 .. Len(s)
    BY <1>2
  <2>2. QED BY <1>4, <2>1 DEF Begins
<1>7. ASSUME NEW k \in Len(p) + 2 .. Len(s \o z) PROVE (s \o z)[k] \in After
  <2>1. k \in 1 .. Len(s) + Len(z)
    BY <1>2, <1>3
  <2>2. CASE k <= Len(s)
    <3>1. k \in 1 .. Len(s) /\ k \in Len(p) + 2 .. Len(s)
      BY <1>2, <2>1, <2>2
    <3>2. QED BY <1>4, <3>1 DEF Begins
  <2>3. CASE k > Len(s)
    <3>1. k - Len(s) \in 1 .. Len(z) /\ ~ (k <= Len(s))
      BY <1>2, <2>1, <2>3
    <3>2. z[k - Len(s)] \in After
      BY <3>1, ElementOfSeq
    <3>3. QED BY <1>3, <2>1, <3>1, <3>2
  <2>4. QED BY <1>2, <2>1, <2>2, <2>3
<1>8. Len(p) < Len(s \o z)
  BY <1>2, <1>3
<1>9. QED BY <1>3, <1>5, <1>6, <1>7, <1>8 DEF Begins

LEMMA FromRoute ==
    ASSUME NEW s, NEW p \in Seq(Stages), Begins(s, <<>>)
    PROVE  Begins(p \o s, p)
<1>1. s \in Seq(Stages) /\ Len(s) \in Nat /\ Len(p) \in Nat /\ Len(s) > 0 /\ s[1] = "session"
      /\ \A k \in 2 .. Len(s) : s[k] \in After
  BY EmptySeq DEF Begins
<1>2. /\ p \o s \in Seq(Stages) /\ Len(p \o s) = Len(p) + Len(s)
      /\ \A k \in 1 .. Len(p) + Len(s) : (p \o s)[k] = IF k <= Len(p) THEN p[k] ELSE s[k - Len(p)]
  BY <1>1, ConcatProperties
<1>3. \A k \in 1 .. Len(p) : (p \o s)[k] = p[k]
  BY <1>1, <1>2
<1>4. \A k \in 1 .. Len(s) : (p \o s)[Len(p) + k] = s[k]
  <2> SUFFICES ASSUME NEW k \in 1 .. Len(s) PROVE (p \o s)[Len(p) + k] = s[k]
    OBVIOUS
  <2>1. Len(p) + k \in 1 .. Len(p) + Len(s) /\ ~ (Len(p) + k <= Len(p)) /\ (Len(p) + k) - Len(p) = k
    BY <1>1
  <2>2. QED BY <1>2, <2>1
<1>5. (p \o s)[Len(p) + 1] = "session"
  BY <1>1, <1>4
<1>6. ASSUME NEW k \in Len(p) + 2 .. Len(p \o s) PROVE (p \o s)[k] \in After
  <2>1. k - Len(p) \in 1 .. Len(s) /\ k - Len(p) \in 2 .. Len(s) /\ Len(p) + (k - Len(p)) = k
    BY <1>1, <1>2
  <2>2. (p \o s)[Len(p) + (k - Len(p))] = s[k - Len(p)]
    BY <1>4, <2>1
  <2>3. QED BY <1>1, <2>1, <2>2
<1>7. QED BY <1>1, <1>2, <1>3, <1>5, <1>6 DEF Begins

(* The handlers, each from its route. *)
LEMMA Routes ==
    /\ \A p \in ByRoute \cup Asking \cup Looking \cup Opening \cup {<<"permit">>} : p \in Seq(Stages)
    /\ Number \in Asking /\ Instance \in ByRoute
BY DEF ByRoute, Asking, Looking, Opening, Stages, After, Number, Instance

LEMMA FromSession ==
    /\ Begins(Open, <<>>) /\ Begins(Ready, <<>>)
    /\ Begins(<<"session", "socket", "recipient", "ask">>, <<>>)
    /\ Begins(Address, <<>>)
<1>1. /\ <<"session", "connected">> \in Seq(Stages) /\ <<"session", "ready">> \in Seq(Stages)
      /\ <<"session", "socket", "recipient", "ask">> \in Seq(Stages)
  BY DEF Stages, After
<1>2. Begins(Open, <<>>) /\ Begins(Ready, <<>>)
  BY <1>1 DEF Open, Ready, Begins, After
<1>3. Begins(<<"session", "socket", "recipient", "ask">>, <<>>)
  BY <1>1 DEF Begins, After
<1>4. <<"recipient">> \in Seq(After) /\ <<>> \in Seq(Stages)
  BY DEF After
<1>5. Begins(Ready \o <<"recipient">>, <<>>)
  BY <1>2, <1>4, Longer
<1>6. Begins(Address, <<>>)
  BY <1>5 DEF Address
<1>7. QED BY <1>2, <1>3, <1>6

LEMMA HandlerForms ==
    ASSUME NEW h \in DOMAIN Handler
    PROVE  IF ByNumber(h) THEN \E p \in Asking : Begins(Handler[h], p)
           ELSE \E p \in ByRoute : Begins(Handler[h], p)
<1> DEFINE Ask == <<"number", "lookup", "permit">>
           Acc == <<"access">>
<1>1. /\ Media \in Seq(After) /\ Deliver \in Seq(After)
      /\ <<"ask">> \in Seq(After) /\ <<"content", "contacts">> \in Seq(After)
      /\ <<"content", "enter", "content", "ask", "scan">> \in Seq(After)
      /\ <<"contacts">> \in Seq(After)
  BY DEF Media, Deliver, After
<1>2. Ask \in Asking /\ Acc \in ByRoute
  BY DEF Asking, ByRoute
<1>3. Number \in Seq(Stages) /\ Instance \in Seq(Stages) /\ Ask \in Seq(Stages) /\ Acc \in Seq(Stages)
  BY <1>2, Routes
<1> HIDE DEF Ask, Acc
<1>4. /\ Begins(Instance \o Address, Instance) /\ Begins(Number \o Address, Number)
      /\ Begins(Instance \o Ready, Instance) /\ Begins(Acc \o Ready, Acc)
      /\ Begins(Acc \o Open, Acc) /\ Begins(Ask \o Open, Ask)
      /\ Begins(Instance \o <<"session", "socket", "recipient", "ask">>, Instance)
  BY <1>3, FromSession, FromRoute
<1>5. /\ Begins(Instance \o Address \o Media, Instance)
      /\ Begins(Number \o Address \o Media, Number)
  BY <1>1, <1>3, <1>4, Longer
<1>6. /\ Begins(Instance \o Address \o Deliver, Instance)
      /\ Begins(Number \o Address \o Deliver, Number)
      /\ Begins(Instance \o Address \o Media \o Deliver, Instance)
      /\ Begins(Number \o Address \o Media \o Deliver, Number)
  BY <1>1, <1>3, <1>4, <1>5, Longer
<1>7. /\ Begins(Acc \o Open \o <<"ask">>, Acc)
      /\ Begins(Ask \o Open \o <<"ask">>, Ask)
      /\ Begins(Acc \o Ready \o <<"content", "contacts">>, Acc)
      /\ Begins(Acc \o Ready \o <<"content", "enter", "content", "ask", "scan">>, Acc)
      /\ Begins(Acc \o Ready \o <<"contacts">>, Acc)
      /\ Begins(Instance \o Ready \o <<"contacts">>, Instance)
  BY <1>1, <1>3, <1>4, Longer
<1>8. /\ \A s \in {SendMessage, SendMediaFile, SendMediaURL, SendGroupMessage, SendGroupMedia,
                  SendGroupMediaURL, CheckNumber, ExportContacts} : Begins(s, Instance)
      /\ \A s \in {SendMessageByNumber, SendMediaURLByNumber, SendMediaFileByNumber,
                  SendGroupMessageByNumber, SendGroupMediaByNumber,
                  SendGroupMediaURLByNumber} : Begins(s, Number)
      /\ \A s \in {GetGroups, GetContactDetail, GetMutualGroups, GetContactList} : Begins(s, Acc)
      /\ Begins(GetGroupsByNumber, Ask)
  BY <1>4, <1>6, <1>7, Zenon
     DEF Acc, Ask, SendMessage, SendMessageByNumber, SendMediaFile, SendMediaURL,
         SendMediaURLByNumber, SendMediaFileByNumber, GetGroups, GetGroupsByNumber,
         SendGroupMessage, SendGroupMedia, SendGroupMediaURL, SendGroupMessageByNumber,
         SendGroupMediaByNumber, SendGroupMediaURLByNumber, CheckNumber, GetContactDetail,
         GetMutualGroups, GetContactList, ExportContacts
<1>9. Handler[h] \in {SendMessage, SendMessageByNumber, SendMediaFile, SendMediaURL,
                      SendMediaURLByNumber, SendMediaFileByNumber, GetGroups, GetGroupsByNumber,
                      SendGroupMessage, SendGroupMedia, SendGroupMediaURL,
                      SendGroupMessageByNumber, SendGroupMediaByNumber,
                      SendGroupMediaURLByNumber, CheckNumber, GetContactDetail,
                      GetMutualGroups, GetContactList, ExportContacts}
  BY DEF Handler
<1>10. PICK p \in {Instance, Number, Acc, Ask} : Begins(Handler[h], p)
  BY <1>8, <1>9
<1>11. p \in Seq(Stages) /\ p # <<>> /\ IF p[1] = "number" THEN p \in Asking ELSE p \in ByRoute
  <2>1. CASE p = Instance
    BY <1>3, <2>1 DEF Instance, ByRoute
  <2>2. CASE p = Number
    BY <1>3, <2>2 DEF Number, Asking
  <2>3. CASE p = Acc
    BY <1>3, <2>3 DEF Acc, ByRoute
  <2>4. CASE p = Ask
    BY <1>3, <2>4 DEF Ask, Asking
  <2>5. QED BY <2>1, <2>2, <2>3, <2>4
<1>12. Head(Handler[h]) = p[1]
  BY <1>10, <1>11, NextStage
<1>13. QED BY <1>10, <1>11, <1>12 DEF ByNumber

-----------------------------------------------------------------------------
(* The stages of a call.                                                   *)

(* What is known of a call at each stage, and of what is still to do.      *)
LEMMA AtStage ==
    ASSUME NEW c \in Calls, Established(c)
    PROVE  LET first == Head(c.todo)
               rest  == Tail(c.todo)
           IN  /\ c.todo # <<>>
               /\ first = "access" => /\ \E q \in Opening : Begins(rest, q)
                                      /\ c.over = NoLink /\ c.inst \in Instances /\ c.asked = NoNumber
               /\ first = "number" => /\ \E q \in Looking : Begins(rest, q)
                                      /\ c.over = NoLink /\ c.asked \in Numbers
               /\ first = "lookup" => /\ Begins(rest, <<"permit">>)
                                      /\ c.over = NoLink /\ c.asked \in Numbers /\ HasRole(c)
               /\ first = "permit" => /\ Begins(rest, <<>>)
                                      /\ c.over = NoLink /\ c.inst \in Instances /\ HasRole(c) /\ Fits(c)
               /\ first = "session" => /\ rest \in Seq(After)
                                       /\ c.over = NoLink /\ c.inst \in Instances /\ Permitted(c) /\ Fits(c)
               /\ first = "content" => \/ /\ \E q \in Looking : Begins(rest, q)
                                          /\ c.over = NoLink /\ c.asked \in Numbers /\ HasRole(c)
                                       \/ /\ \E q \in Opening : Begins(rest, q)
                                          /\ c.over = NoLink /\ c.inst \in Instances /\ Permitted(c) /\ Fits(c)
                                       \/ rest \in Seq(After) /\ Holds(c)
               /\ first \in After \ {"content"} => rest \in Seq(After) /\ Holds(c)
<1> DEFINE first == Head(c.todo)
           rest  == Tail(c.todo)
<1>1. CASE /\ \E p \in ByRoute : Begins(c.todo, p)
           /\ c.over = NoLink /\ c.inst \in Instances /\ c.asked = NoNumber
  <2>1. PICK p \in ByRoute : Begins(c.todo, p)
    BY <1>1
  <2>2. p # <<>> /\ p[1] = "access" /\ Tail(p) \in Opening
    <3>1. CASE p = <<"access">>
      BY <3>1 DEF Opening
    <3>2. CASE p = <<"access", "content">>
      BY <3>2 DEF Opening
    <3>3. QED BY <3>1, <3>2 DEF ByRoute
  <2>3. c.todo # <<>> /\ first = "access" /\ Begins(rest, Tail(p))
    BY <2>1, <2>2, NextStage, Routes
  <2>4. QED BY <1>1, <2>2, <2>3 DEF After
<1>2. CASE /\ \E p \in Asking : Begins(c.todo, p)
           /\ c.over = NoLink /\ c.asked \in Numbers
  <2>1. PICK p \in Asking : Begins(c.todo, p)
    BY <1>2
  <2>2. p # <<>> /\ p[1] = "number" /\ Tail(p) \in Looking
    <3>1. CASE p = <<"number", "lookup", "permit">>
      BY <3>1 DEF Looking
    <3>2. CASE p = <<"number", "content", "lookup", "permit">>
      BY <3>2 DEF Looking
    <3>3. QED BY <3>1, <3>2 DEF Asking
  <2>3. c.todo # <<>> /\ first = "number" /\ Begins(rest, Tail(p))
    BY <2>1, <2>2, NextStage, Routes
  <2>4. QED BY <1>2, <2>2, <2>3 DEF After
<1>3. CASE /\ \E p \in Looking : Begins(c.todo, p)
           /\ c.over = NoLink /\ c.asked \in Numbers /\ HasRole(c)
  <2>1. PICK p \in Looking : Begins(c.todo, p)
    BY <1>3
  <2>2. CASE p = <<"content", "lookup", "permit">>
    <3>1. p # <<>> /\ p[1] = "content" /\ Tail(p) \in Looking
      BY <2>2 DEF Looking
    <3>2. c.todo # <<>> /\ first = "content" /\ Begins(rest, Tail(p))
      BY <2>1, <3>1, NextStage, Routes
    <3>3. QED BY <1>3, <3>1, <3>2
  <2>3. CASE p = <<"lookup", "permit">>
    <3>1. p # <<>> /\ p[1] = "lookup" /\ Tail(p) = <<"permit">>
      BY <2>3
    <3>2. c.todo # <<>> /\ first = "lookup" /\ Begins(rest, Tail(p))
      BY <2>1, <3>1, NextStage, Routes
    <3>3. QED BY <1>3, <3>1, <3>2 DEF After
  <2>4. QED BY <2>2, <2>3 DEF Looking
<1>4. CASE /\ Begins(c.todo, <<"permit">>) /\ c.over = NoLink /\ c.asked \in Numbers
           /\ HasRole(c) /\ c.inst \in Instances /\ Fits(c)
  <2> DEFINE p == <<"permit">>
  <2>1. p # <<>> /\ p[1] = "permit" /\ Tail(p) = <<>>
    OBVIOUS
  <2>2. c.todo # <<>> /\ first = "permit" /\ Begins(rest, <<>>)
    <3>1. p \in Seq(Stages) /\ Begins(c.todo, p)
      BY <1>4, Routes
    <3>2. \A q : q = <<>> => (Begins(rest, q) <=> Begins(rest, <<>>))
      OBVIOUS
    <3> HIDE DEF p
    <3>3. c.todo # <<>> /\ first = "permit" /\ Begins(rest, Tail(p))
      BY <2>1, <3>1, NextStage
    <3>4. QED BY <2>1, <3>2, <3>3
  <2>3. QED BY <1>4, <2>2 DEF After
<1>5. CASE /\ \E p \in Opening : Begins(c.todo, p)
           /\ c.over = NoLink /\ c.inst \in Instances /\ Permitted(c) /\ Fits(c)
  <2>1. PICK p \in Opening : Begins(c.todo, p)
    BY <1>5
  <2>2. CASE p = <<"content">>
    <3>1. p # <<>> /\ p[1] = "content" /\ Tail(p) \in Opening
      BY <2>2 DEF Opening
    <3>2. c.todo # <<>> /\ first = "content" /\ Begins(rest, Tail(p))
      BY <2>1, <3>1, NextStage, Routes
    <3>3. QED BY <1>5, <3>1, <3>2
  <2>3. CASE p = <<>>
    <3>1. c.todo # <<>> /\ first = "session" /\ rest \in Seq(After)
      BY <2>1, <2>3, NextStage, Routes
    <3>2. QED BY <1>5, <3>1 DEF After
  <2>4. QED BY <2>2, <2>3 DEF Opening
<1>6. CASE c.todo \in Seq(After) /\ c.todo # <<>> /\ Holds(c)
  <2>1. first \in After /\ rest \in Seq(After)
    BY <1>6, HeadTailProperties
  <2>2. first \notin {"access", "number", "lookup", "permit", "session"}
    BY <2>1 DEF After
  <2>3. QED BY <1>6, <2>1, <2>2
<1>7. QED BY <1>1, <1>2, <1>3, <1>4, <1>5, <1>6 DEF Established

(* d is the call c at another stage. *)
Same(c, d) ==
    /\ d.user = c.user /\ d.inst = c.inst /\ d.asked = c.asked /\ d.over = c.over
    /\ d.allowed = c.allowed /\ d.moved = c.moved

LEMMA SameHolds ==
    ASSUME NEW c, NEW d, Same(c, d)
    PROVE  /\ HasRole(c) => HasRole(d)
           /\ Permitted(c) => Permitted(d)
           /\ Fits(c) => Fits(d)
           /\ Holds(c) => Holds(d)
BY DEF Same, HasRole, Permitted, Fits, Holds

(* A call that leaves the rest of the state alone disturbs no other.       *)
LEMMA OneCall ==
    ASSUME IInv, NEW t \in Tasks, NEW d \in Calls, task' = [task EXCEPT ![t] = d],
           UNCHANGED <<database, memory, astray>>, CallHolds(d)
    PROVE  IInv'
<1>1. /\ row' = row /\ place' = place /\ access' = access /\ session' = session /\ link' = link
      /\ leaving' = leaving /\ marked' = marked /\ written' = written /\ astray' = astray
  BY DEF database, memory
<1>2. Typed' /\ LinksBelong' /\ RowsFollowSessions'
  BY <1>1 DEF IInv, Typed, LinksBelong, Belongs, RowsFollowSessions, Follows, Carries, Pending
<1>3. \A o \in Tasks : task'[o] = IF o = t THEN d ELSE task[o]
  BY DEF IInv, Typed
<1>4. \A o \in Tasks : CallHolds(task'[o])
  BY <1>3 DEF IInv
<1>5. \A o \in Tasks : CallHolds(task[o])'
  <2> SUFFICES ASSUME NEW o \in Tasks PROVE CallHolds(task[o])'
    OBVIOUS
  <2>1. CallHolds(task'[o])
    BY <1>4
  <2>2. QED BY <1>1, <2>1 DEF CallHolds, Established, Holds, HasRole, Permitted, Fits, May
<1>6. QED BY <1>2, <1>5 DEF IInv

(* The call goes on as e, to its next stage. *)
LEMMA GoesOn ==
    ASSUME IInv, NEW t \in Tasks, task[t].phase = "running",
           NEW e \in Calls, GoOn(t, e), UNCHANGED <<database, memory, astray>>,
           e.todo = task[t].todo, e.user = task[t].user, e.allowed = task[t].allowed,
           \A d : Same(e, d) /\ d.todo = Tail(e.todo) /\ d.todo # <<>> => Established(d)
    PROVE  IInv'
<1> DEFINE rest == Tail(e.todo)
           d == [e EXCEPT !.todo = rest, !.phase = IF rest = <<>> THEN "answered" ELSE "running"]
<1>1. e.todo # <<>> /\ e.todo \in Seq(Stages)
  <2>1. Established(task[t]) /\ task[t] \in Calls
    BY DEF IInv, CallHolds, Typed
  <2>2. QED BY <2>1, AtStage DEF Calls
<1>2. rest \in Seq(Stages)
  BY <1>1, HeadTailProperties
<1>3. /\ d \in Calls /\ d.todo = rest /\ d.phase \in {"running", "answered"} /\ Same(e, d)
      /\ d.phase = "running" => rest # <<>>
  BY <1>2 DEF Calls, Same
<1>4. task' = [task EXCEPT ![t] = d]
  BY DEF GoOn
<1> HIDE DEF d
<1>5. d.phase = "running" => Established(d)
  BY <1>3
<1>6. \A j \in Instances : May(e.user, j) => j \in e.allowed
  BY DEF IInv, CallHolds
<1>7. CallHolds(d)
  BY <1>3, <1>5, <1>6 DEF CallHolds, Same
<1>8. QED BY <1>3, <1>4, <1>7, OneCall

(* The call is answered, or its task is free again. *)
LEMMA Ends ==
    ASSUME IInv, NEW t \in Tasks, Answer(t) \/ task' = [task EXCEPT ![t] = Idle],
           UNCHANGED <<database, memory, astray>>
    PROVE  IInv'
<1> DEFINE d == [task[t] EXCEPT !.phase = "answered", !.todo = <<>>]
<1>1. task[t] \in Calls /\ <<>> \in Seq(Stages)
  BY EmptySeq DEF IInv, Typed
<1>2. CASE Answer(t)
  <2>1. d \in Calls /\ d.phase = "answered"
    BY <1>1 DEF Calls
  <2>2. task' = [task EXCEPT ![t] = d]
    BY <1>2 DEF Answer, IInv, Typed
  <2>3. CallHolds(d)
    BY <2>1 DEF CallHolds
  <2> HIDE DEF d
  <2>4. QED BY <2>1, <2>2, <2>3, OneCall
<1>3. CASE task' = [task EXCEPT ![t] = Idle]
  <2>1. Idle \in Calls /\ Idle.phase = "idle"
    BY <1>1, RequestsAssumption DEF Idle, Calls
  <2>2. CallHolds(Idle)
    BY <2>1 DEF CallHolds
  <2>3. QED BY <1>3, <2>1, <2>2, OneCall
<1>4. QED BY <1>2, <1>3

(* A stage that only lets the call go on or answers it. *)
LEMMA Passed ==
    ASSUME IInv, NEW t \in Tasks, task[t].phase = "running", Proceed(t) \/ Answer(t),
           UNCHANGED <<database, memory, astray>>,
           Head(task[t].todo) \in After
    PROVE  IInv'
<1> DEFINE c == task[t]
<1>1. c \in Calls /\ Established(c)
  BY DEF IInv, Typed, CallHolds
<1>2. CASE Answer(t)
  BY <1>2, Ends
<1>3. CASE Proceed(t)
  <2>1. \A d : Same(c, d) /\ d.todo = Tail(c.todo) /\ d.todo # <<>> => Established(d)
    <3> SUFFICES ASSUME NEW d, Same(c, d), d.todo = Tail(c.todo), d.todo # <<>>
                 PROVE  Established(d)
      OBVIOUS
    <3>1. CASE Head(c.todo) = "content"
      <4>1. \/ /\ \E q \in Looking : Begins(d.todo, q)
               /\ d.over = NoLink /\ d.asked \in Numbers /\ HasRole(d)
            \/ /\ \E q \in Opening : Begins(d.todo, q)
               /\ d.over = NoLink /\ d.inst \in Instances /\ Permitted(d) /\ Fits(d)
            \/ d.todo \in Seq(After) /\ Holds(d)
        BY <1>1, <3>1, AtStage, SameHolds DEF Same
      <4>2. QED BY <4>1 DEF Established
    <3>2. CASE Head(c.todo) \in After \ {"content"}
      <4>1. d.todo \in Seq(After) /\ Holds(d)
        BY <1>1, <3>2, AtStage, SameHolds
      <4>2. QED BY <4>1 DEF Established
    <3>3. QED BY <3>1, <3>2
  <2>2. GoOn(t, c)
    BY <1>3 DEF Proceed
  <2>3. QED BY <1>1, <2>1, <2>2, GoesOn
<1>4. QED BY <1>2, <1>3

(* Of the rows that are online under a number, one connected last. *)
LEMMA Found ==
    ASSUME Typed, NEW n, Online(n) # {}
    PROVE  GetActiveInstanceByPhoneNumber(n) \in Online(n)
<1> DEFINE S == Online(n)
           ranks == {place[i] : i \in S}
<1>1. ranks \subseteq Nat /\ ranks # {}
  <2>1. \A i \in S : place[i] \in Nat
    BY DEF Typed, Online
  <2> HIDE DEF S
  <2>2. S # {}
    BY DEF S
  <2>3. QED BY <2>1, <2>2
<1>2. PICK k \in ranks : \A m \in ranks : ~ (<<m, k>> \in OpToRel(<, Nat))
  BY <1>1, NatLessThanWellFounded, WFMin
<1>3. \A m \in ranks : ~ (m < k)
  <2>1. ASSUME NEW m \in ranks, m < k PROVE <<m, k>> \in OpToRel(<, Nat)
    BY <1>1, <2>1 DEF OpToRel
  <2>2. QED BY <1>2, <2>1, Zenon
<1>4. PICK i \in S : place[i] = k
  BY <1>2
<1>5. \A j \in S : place[i] <= place[j]
  <2>1. \A j \in S : place[j] \in Nat /\ place[j] \in ranks /\ ~ (place[j] < k)
    BY <1>1, <1>3
  <2>2. QED BY <1>4, <2>1
<1>6. Latest(S) \in S
  BY <1>4, <1>5 DEF Latest
<1>7. QED BY <1>6 DEF GetActiveInstanceByPhoneNumber

(* What the lookup by number gives: an instance whose session, if it has   *)
(* one that was ever paired, carries the number, unless it is astray.      *)
LEMMA LookedUp ==
    ASSUME IInv, NEW n \in Numbers, GetActiveInstanceByPhoneNumber(n) # NoInst
    PROVE  LET i == GetActiveInstanceByPhoneNumber(n)
           IN  /\ i \in Instances
               /\ \/ i \in astray \/ session[i] = NoLink
                  \/ link[session[i]].number \in {n, NoNumber}
<1> DEFINE i == GetActiveInstanceByPhoneNumber(n)
<1>1. i \in Online(n)
  BY Found DEF GetActiveInstanceByPhoneNumber, IInv
<1> HIDE DEF i
<1>2. i \in Instances /\ row[i].online /\ row[i].number = n
  BY <1>1 DEF Online
<1>3. i \in astray \/ Follows(i)
  BY <1>2 DEF IInv, RowsFollowSessions
<1>4. i \in astray \/ session[i] = NoLink \/ link[session[i]].number \in {n, NoNumber}
  BY <1>2, <1>3 DEF Follows, Carries
<1>5. QED BY <1>2, <1>4 DEF i

LEMMA StageStep ==
    ASSUME IInv, NEW t \in Tasks, Step(t)
    PROVE  IInv'
<1> USE RequestsAssumption
<1> DEFINE c == task[t]
           Onward(d) == Same(c, d) /\ d.todo = Tail(c.todo) /\ d.todo # <<>>
<1>1. c \in Calls /\ CallHolds(c) /\ (c.phase = "running" => Established(c))
  BY DEF IInv, Typed, CallHolds
<1>2. UNCHANGED <<database, memory, astray>>
  BY DEF Step, RequireInstanceAccess, RequirePhoneNumberAccess, Examine, Lookup, Permit, GetSession,
         CheckSession, AskWhatsApp, TakeTime, EnterSearch, Send, Return
<1>3. CASE RequireInstanceAccess(t)
  <2>1. c.phase = "running" /\ Head(c.todo) = "access"
    BY <1>3 DEF RequireInstanceAccess, At
  <2>2. CASE Answer(t)
    BY <1>2, <2>2, Ends
  <2>3. CASE Proceed(t) /\ (RoleOf[c.user] = "admin" \/ (RoleOf[c.user] = "user" /\ May(c.user, c.inst)))
    <3>1. Permitted(c)
      BY <1>1, <2>1, <2>3, AtStage DEF CallHolds, Permitted
    <3>2. ASSUME NEW d, Onward(d) PROVE Established(d)
      <4>1. /\ \E q \in Opening : Begins(d.todo, q)
            /\ d.over = NoLink /\ d.inst \in Instances /\ d.asked = NoNumber
        BY <1>1, <2>1, <3>2, AtStage DEF Same
      <4>2. Permitted(d)
        BY <3>1, <3>2, SameHolds
      <4>3. QED BY <4>1, <4>2 DEF Established, Fits
    <3>3. GoOn(t, c)
      BY <2>3 DEF Proceed
    <3>4. QED BY <1>1, <1>2, <2>1, <3>2, <3>3, GoesOn
  <2>4. QED BY <1>3, <2>2, <2>3 DEF RequireInstanceAccess, Require
<1>4. CASE RequirePhoneNumberAccess(t)
  <2>1. c.phase = "running" /\ Head(c.todo) = "number"
    BY <1>4 DEF RequirePhoneNumberAccess, At
  <2>2. CASE Answer(t)
    BY <1>2, <2>2, Ends
  <2>3. CASE Proceed(t) /\ HasRole(c)
    <3>1. ASSUME NEW d, Onward(d) PROVE Established(d)
      <4>1. /\ \E q \in Looking : Begins(d.todo, q)
            /\ d.over = NoLink /\ d.asked \in Numbers
        BY <1>1, <2>1, <3>1, AtStage DEF Same
      <4>2. HasRole(d)
        BY <2>3, <3>1, SameHolds
      <4>3. QED BY <4>1, <4>2 DEF Established
    <3>2. GoOn(t, c)
      BY <2>3 DEF Proceed
    <3>3. QED BY <1>1, <1>2, <2>1, <3>1, <3>2, GoesOn
  <2>4. QED BY <1>4, <2>2, <2>3 DEF RequirePhoneNumberAccess, Require, HasRole
<1>5. CASE Lookup(t)
  <2>1. c.phase = "running" /\ Head(c.todo) = "lookup"
    BY <1>5 DEF Lookup, At
  <2>2. CASE Answer(t)
    BY <1>2, <2>2, Ends
  <2> DEFINE i == GetActiveInstanceByPhoneNumber(c.asked)
             e == [c EXCEPT !.inst = i]
  <2>3. CASE i # NoInst /\ GoOn(t, e)
    <3>1. /\ Begins(Tail(c.todo), <<"permit">>)
          /\ c.over = NoLink /\ c.asked \in Numbers /\ HasRole(c)
      BY <1>1, <2>1, AtStage
    <3>2. i \in Instances /\ (\/ i \in astray \/ session[i] = NoLink
                              \/ link[session[i]].number \in {c.asked, NoNumber})
      BY <2>3, <3>1, LookedUp
    <3> HIDE DEF i
    <3>3. /\ e \in Calls /\ e.todo = c.todo /\ e.user = c.user /\ e.allowed = c.allowed
          /\ e.inst = i /\ e.over = c.over /\ e.asked = c.asked
      BY <1>1, <3>2 DEF Calls
    <3> HIDE DEF e
    <3>4. ASSUME NEW d, Same(e, d), d.todo = Tail(e.todo), d.todo # <<>> PROVE Established(d)
      <4>1. /\ Begins(d.todo, <<"permit">>)
            /\ d.over = NoLink /\ d.asked \in Numbers /\ HasRole(d) /\ d.inst \in Instances
        BY <3>1, <3>2, <3>3, <3>4 DEF Same, HasRole
      <4>2. Fits(d)
        BY <3>2, <3>3, <3>4 DEF Same, Fits
      <4>3. QED BY <4>1, <4>2 DEF Established
    <3>5. QED BY <1>2, <2>1, <2>3, <3>3, <3>4, GoesOn
  <2>4. QED BY <1>5, <2>2, <2>3 DEF Lookup
<1>6. CASE Permit(t)
  <2>1. c.phase = "running" /\ Head(c.todo) = "permit"
    BY <1>6 DEF Permit, At
  <2>2. CASE Answer(t)
    BY <1>2, <2>2, Ends
  <2>3. CASE Proceed(t) /\ (RoleOf[c.user] = "admin" \/ May(c.user, c.inst))
    <3>1. Permitted(c)
      BY <1>1, <2>1, <2>3, AtStage DEF CallHolds, Permitted, HasRole
    <3>2. ASSUME NEW d, Onward(d) PROVE Established(d)
      <4>1. Begins(d.todo, <<>>) /\ d.over = NoLink /\ d.inst \in Instances
        BY <1>1, <2>1, <3>2, AtStage DEF Same
      <4>2. Permitted(d)
        BY <3>1, <3>2, SameHolds
      <4>3. Fits(d)
        BY <1>1, <2>1, <3>2, AtStage, SameHolds
      <4>4. <<>> \in Opening
        BY DEF Opening
      <4>5. QED BY <4>1, <4>2, <4>3, <4>4 DEF Established
    <3>3. GoOn(t, c)
      BY <2>3 DEF Proceed
    <3>4. QED BY <1>1, <1>2, <2>1, <3>2, <3>3, GoesOn
  <2>4. QED BY <1>6, <2>2, <2>3 DEF Permit, Require
<1>7. CASE GetSession(t)
  <2>1. c.phase = "running" /\ Head(c.todo) = "session"
    BY <1>7 DEF GetSession, At
  <2>2. CASE Answer(t)
    BY <1>2, <2>2, Ends
  <2> DEFINE l == session[c.inst]
             e == [c EXCEPT !.over = l]
  <2>3. CASE l # NoLink /\ GoOn(t, e)
    <3>1. /\ Tail(c.todo) \in Seq(After)
          /\ c.inst \in Instances /\ Permitted(c) /\ Fits(c)
      BY <1>1, <2>1, AtStage
    <3>2. l \in Links /\ link[l].inst = c.inst
      BY <2>3, <3>1 DEF IInv, Typed, LinksBelong
    <3>3. c.asked = NoNumber \/ c.moved \/ c.inst \in astray \/ link[l].number \in {c.asked, NoNumber}
      BY <2>3, <3>1 DEF Fits
    <3> HIDE DEF l
    <3>4. /\ e \in Calls /\ e.todo = c.todo /\ e.user = c.user /\ e.allowed = c.allowed
          /\ e.inst = c.inst /\ e.over = l /\ e.asked = c.asked /\ e.moved = c.moved
      BY <1>1, <3>2 DEF Calls
    <3> HIDE DEF e
    <3>5. ASSUME NEW d, Same(e, d), d.todo = Tail(e.todo), d.todo # <<>> PROVE Established(d)
      <4>1. d.todo \in Seq(After)
        BY <3>1, <3>4, <3>5
      <4>2. Permitted(d)
        BY <3>1, <3>4, <3>5 DEF Same, Permitted
      <4>3. Holds(d)
        BY <3>1, <3>2, <3>3, <3>4, <3>5, <4>2 DEF Same, Holds
      <4>4. QED BY <3>5, <4>1, <4>3 DEF Established
    <3>6. QED BY <1>2, <2>1, <2>3, <3>4, <3>5, GoesOn
  <2>4. QED BY <1>7, <2>2, <2>3 DEF GetSession
<1>8. CASE Examine(t) \/ CheckSession(t) \/ AskWhatsApp(t) \/ TakeTime(t)
  <2>1. c.phase = "running" /\ Head(c.todo) \in After /\ (Proceed(t) \/ Answer(t))
    BY <1>8 DEF Examine, CheckSession, AskWhatsApp, TakeTime, At, Require, After
  <2>2. QED BY <1>2, <2>1, Passed
<1>9. CASE EnterSearch(t)
  <2>1. c.phase = "running" /\ Head(c.todo) = "enter"
    BY <1>9 DEF EnterSearch, At
  <2> DEFINE e == [c EXCEPT !.entered = TRUE]
  <2>2. CASE Answer(t)
    BY <1>2, <2>2, Ends
  <2>3. CASE GoOn(t, e)
    <3>1. Tail(c.todo) \in Seq(After) /\ Holds(c)
      BY <1>1, <2>1, AtStage DEF After
    <3>2. /\ e \in Calls /\ e.todo = c.todo /\ e.user = c.user /\ e.allowed = c.allowed /\ Same(c, e)
      BY <1>1 DEF Calls, Same
    <3> HIDE DEF e
    <3>3. Holds(e)
      BY <3>1, <3>2, SameHolds
    <3>4. ASSUME NEW d, Same(e, d), d.todo = Tail(e.todo), d.todo # <<>> PROVE Established(d)
      BY <3>1, <3>2, <3>3, <3>4, SameHolds DEF Established
    <3>5. QED BY <1>2, <2>1, <2>3, <3>2, <3>4, GoesOn
  <2>4. QED BY <1>9, <2>2, <2>3 DEF EnterSearch
<1>10. CASE Send(t)
  <2>1. c.phase = "running" /\ Head(c.todo) = "send"
    BY <1>10 DEF Send, At
  <2> DEFINE e == [c EXCEPT !.phase = "sent", !.todo = <<>>]
  <2>2. CASE Answer(t)
    BY <1>2, <2>2, Ends
  <2>3. CASE /\ link[c.over].paired
             /\ task' = [task EXCEPT ![t].phase = "sent", ![t].todo = <<>>]
    <3>1. task' = [task EXCEPT ![t] = e]
      BY <2>3 DEF IInv, Typed
    <3>2. e \in Calls /\ e.phase = "sent" /\ Same(c, e)
      BY <1>1, EmptySeq DEF Calls, Same
    <3> HIDE DEF e
    <3>3. Holds(e)
      BY <1>1, <2>1, <3>2, AtStage, SameHolds DEF After
    <3>4. link[e.over].number \in Numbers
      BY <2>3, <3>2, <3>3 DEF Same, Holds, IInv, LinksBelong, Belongs
    <3>5. CallHolds(e)
      BY <3>2, <3>3, <3>4 DEF CallHolds
    <3>6. QED BY <1>2, <3>1, <3>2, <3>5, OneCall
  <2>4. QED BY <1>10, <2>2, <2>3 DEF Send
<1>11. CASE Return(t)
  BY <1>2, <1>11, Ends DEF Return
<1>12. QED BY <1>3, <1>4, <1>5, <1>6, <1>7, <1>8, <1>9, <1>10, <1>11 DEF Step

-----------------------------------------------------------------------------
(* The instances and the permissions meanwhile.                            *)

(* What happens to the sessions leaves a call what it has established: a   *)
(* client keeps its instance, a session that is replaced is replaced by    *)
(* one that was never paired, and a call is told when its session is       *)
(* paired with a number it did not ask for.                                *)
LEMMA Meanwhile ==
    ASSUME IInv,
           \A l \in Links :
               /\ link[l].inst \in Instances => link'[l].inst = link[l].inst
               /\ \/ link'[l].number = link[l].number
                  \/ /\ link'[l].number \in Numbers
                     /\ \A o \in Tasks : Reaches(task[o], l) =>
                           task'[o].moved \/ link'[l].number = task[o].asked,
           astray \subseteq astray',
           \A o \in Tasks :
               /\ task'[o].phase = task[o].phase /\ task'[o].user = task[o].user
               /\ task'[o].inst = task[o].inst /\ task'[o].asked = task[o].asked
               /\ task'[o].todo = task[o].todo /\ task'[o].over = task[o].over
               /\ task[o].allowed \subseteq task'[o].allowed
               /\ task[o].moved => task'[o].moved,
           \A i \in Instances :
               session'[i] = session[i] \/ session'[i] = NoLink \/ link'[session'[i]].number = NoNumber,
           \A o \in Tasks : task[o].phase = "running" =>
               \A j \in Instances : May(task[o].user, j)' =>
                   May(task[o].user, j) \/ j \in task'[o].allowed
    PROVE  \A o \in Tasks : CallHolds(task[o])'
<1> USE RequestsAssumption
<1> SUFFICES ASSUME NEW o \in Tasks PROVE CallHolds(task[o])'
  OBVIOUS
<1> DEFINE c == task[o]
<1>1. c \in Calls /\ CallHolds(c)
  BY DEF IInv, Typed
<1>2. /\ HasRole(c) => HasRole(c)'
      /\ Permitted(c) => Permitted(c)'
  BY DEF HasRole, Permitted
<1>3. Holds(c) => Holds(c)'
  <2> SUFFICES ASSUME Holds(c) PROVE Holds(c)'
    OBVIOUS
  <2>1. c.over \in Links /\ c.inst \in Instances /\ link[c.over].inst = c.inst
    BY DEF Holds
  <2>2. CASE c.asked = NoNumber \/ c.moved \/ c.inst \in astray
    BY <1>2, <2>1, <2>2 DEF Holds
  <2>3. CASE link[c.over].number \in {c.asked, NoNumber}
    <3>1. Reaches(c, c.over)
      BY DEF Reaches
    <3>2. link'[c.over].number \in {c.asked, NoNumber} \/ task'[o].moved
      BY <2>1, <2>3, <3>1
    <3>3. QED BY <1>2, <2>1, <3>2 DEF Holds
  <2>4. QED BY <2>2, <2>3 DEF Holds
<1>4. c.over = NoLink /\ c.inst \in Instances /\ Fits(c) => Fits(c)'
  <2> SUFFICES ASSUME c.over = NoLink, c.inst \in Instances, Fits(c) PROVE Fits(c)'
    OBVIOUS
  <2> DEFINE l == session[c.inst]
  <2>1. CASE c.asked = NoNumber \/ c.moved \/ c.inst \in astray
    BY <2>1 DEF Fits
  <2>2. CASE session'[c.inst] = NoLink \/ link'[session'[c.inst]].number = NoNumber
    BY <2>2 DEF Fits
  <2>3. CASE session'[c.inst] = l /\ l # NoLink /\ link[l].number \in {c.asked, NoNumber}
    <3>1. l \in Links /\ link[l].inst = c.inst
      BY <2>3 DEF IInv, Typed, LinksBelong
    <3>2. Reaches(c, l)
      BY <3>1 DEF Reaches
    <3>3. link'[l].number \in {c.asked, NoNumber} \/ task'[o].moved
      BY <2>3, <3>1, <3>2
    <3>4. QED BY <2>3, <3>3 DEF Fits
  <2>4. QED BY <2>1, <2>2, <2>3 DEF Fits
<1>5. Established(c) => Established(c)'
  BY <1>2, <1>3, <1>4 DEF Established
<1>6. c.phase = "running" => \A j \in Instances : May(c.user, j)' => j \in task'[o].allowed
  BY <1>1 DEF CallHolds
<1>7. c.phase = "sent" => (link[c.over].number \in Numbers)'
  <2> SUFFICES ASSUME c.phase = "sent" PROVE link'[c.over].number \in Numbers
    OBVIOUS
  <2>1. c.over \in Links /\ link[c.over].number \in Numbers
    BY <1>1 DEF CallHolds, Holds
  <2>2. QED BY <2>1
<1>8. QED BY <1>1, <1>3, <1>5, <1>6, <1>7 DEF CallHolds

(* A client that is not paired in this step keeps its instance and number. *)
Kept(k) ==
    /\ link'[k].inst = link[k].inst /\ link'[k].number = link[k].number
    /\ link'[k].paired => link[k].paired

LEMMA ClientsKept ==
    ASSUME IInv, link' \in [Links -> Clients],
           \A k \in Links : Kept(k) /\ (k \in leaving' \/ link'[k].due > 0 => link[k].inst \in Instances),
           \A j \in Instances : session'[j] \in {session[j], NoLink}
    PROVE  LinksBelong'
<1>1. ASSUME NEW j \in Instances, session'[j] # NoLink PROVE link'[session'[j]].inst = j
  <2>1. session'[j] = session[j] /\ session[j] \in Links /\ link[session[j]].inst = j
    BY <1>1 DEF IInv, Typed, LinksBelong
  <2>2. QED BY <2>1 DEF Kept
<1>2. ASSUME NEW k \in Links PROVE Belongs(k)'
  BY DEF Kept, Belongs, IInv, LinksBelong
<1>3. QED BY <1>1, <1>2 DEF LinksBelong

(* The calls while clients are kept and sessions are at most removed.      *)
LEMMA CallsKept ==
    ASSUME IInv, \A k \in Links : Kept(k), astray \subseteq astray',
           \A j \in Instances : session'[j] \in {session[j], NoLink}, UNCHANGED <<access, task>>
    PROVE  \A o \in Tasks : CallHolds(task[o])'
BY Meanwhile DEF Kept, May

(* A logout is pending until its own row update.                           *)
LEMMA PendingOn ==
    ASSUME NEW j \in Instances, Pending(j), marked[j] > 0 => marked'[j] > 0,
           \A k \in leaving : link[k].inst = j => k \in leaving' /\ link'[k].inst = j
    PROVE  Pending(j)'
BY DEF Pending

(* A row that is not written follows its session on.                       *)
LEMMA FollowsOn ==
    ASSUME Typed, NEW j \in Instances, Follows(j), row'[j] = row[j],
           Pending(j) => Pending(j)',
           \/ /\ session'[j] = session[j]
              /\ session[j] # NoLink =>
                    /\ link'[session[j]].number = link[session[j]].number
                    /\ link[session[j]].paired => link'[session[j]].paired \/ Pending(j)'
           \/ session'[j] = NoLink /\ Pending(j)'
           \/ link'[session'[j]].number = NoNumber /\ Pending(j)'
    PROVE  Follows(j)'
BY DEF Follows, Carries

(* A row is written offline, or it stays.                                  *)
LEMMA OfflineStep ==
    ASSUME Typed, NEW i \in Instances, Offline(i)
    PROVE  /\ row' \in Rows
           /\ \A j \in Instances : row'[j].online => row'[j] = row[j] /\ j # i
<1>1. row' = [row EXCEPT ![i] = [row[i] EXCEPT !.online = FALSE]]
  BY DEF Offline
<1>2. /\ [row[i] EXCEPT !.online = FALSE] \in [number : Numbers \cup {NoNumber}, online : BOOLEAN]
      /\ ~ [row[i] EXCEPT !.online = FALSE].online
  BY DEF Typed, Rows
<1>3. QED BY <1>1, <1>2 DEF Typed, Rows

(* GET /qr: a session that is to be paired, in the place it has or in an   *)
(* empty one.                                                              *)
LEMMA GetQRStep ==
    ASSUME IInv, NEW i \in Instances, NEW l \in Links, GetQR(i, l)
    PROVE  IInv'
<1> USE RequestsAssumption DEF IInv
<1> DEFINE up == link[l].up \/ ~ link[l].paired
           d == [link[l] EXCEPT !.inst = i, !.scanning = TRUE, !.up = up]
<1>1. /\ session' = [session EXCEPT ![i] = l]
      /\ UNCHANGED <<row, place, access, leaving, marked, written, task, astray>>
  BY DEF GetQR, database
<1>2. \/ session[i] = NoLink /\ link[l].inst = NoInst /\ link[l].number = NoNumber
      \/ session[i] = l /\ link[l].inst = i
  BY DEF GetQR, LinksBelong, Belongs, Typed
<1>3. link[l] \in Clients /\ up \in BOOLEAN
  BY DEF Typed
<1>4. link' = [link EXCEPT ![l] = d]
  BY DEF GetQR, Typed
<1> HIDE DEF up
<1>5. /\ d \in Clients /\ d.inst = i /\ d.number = link[l].number
      /\ d.paired = link[l].paired /\ d.due = link[l].due
  BY <1>3 DEF Clients
<1> HIDE DEF d
<1>6. /\ link' \in [Links -> Clients] /\ link'[l] = d
      /\ \A k \in Links \ {l} : link'[k] = link[k]
  BY <1>4, <1>5 DEF Typed
<1>7. Typed'
  BY <1>1, <1>6 DEF Typed
<1>8. LinksBelong'
  <2>1. ASSUME NEW j \in Instances, session'[j] # NoLink PROVE link'[session'[j]].inst = j
    <3>1. CASE j = i
      BY <1>1, <1>5, <1>6, <3>1 DEF Typed
    <3>2. CASE j # i
      <4>1. session'[j] = session[j] /\ session[j] \in Links /\ link[session[j]].inst = j
        BY <1>1, <2>1, <3>2 DEF Typed, LinksBelong
      <4>2. session[j] # l
        BY <1>2, <3>2, <4>1
      <4>3. QED BY <1>6, <4>1, <4>2
    <3>3. QED BY <3>1, <3>2
  <2>2. ASSUME NEW k \in Links PROVE Belongs(k)'
    <3>1. Belongs(k)
      BY DEF LinksBelong
    <3>2. CASE k = l
      BY <1>5, <1>6, <3>1, <3>2 DEF Belongs
    <3>3. CASE k # l
      BY <1>1, <1>6, <3>1, <3>3 DEF Belongs
    <3>4. QED BY <3>2, <3>3
  <2>3. QED BY <2>1, <2>2 DEF LinksBelong
<1>9. RowsFollowSessions'
  <2> SUFFICES ASSUME NEW j \in Instances, j \notin astray, row[j].online PROVE Follows(j)'
    BY <1>1 DEF RowsFollowSessions
  <2>1. Follows(j) /\ row'[j] = row[j]
    BY <1>1 DEF RowsFollowSessions
  <2>2. ASSUME Pending(j) PROVE Pending(j)'
    <3>1. \A k \in leaving : k \in Links /\ link[k].inst \in Instances
      BY DEF Typed, LinksBelong, Belongs
    <3>2. \A k \in leaving : link'[k].inst = link[k].inst
      BY <1>2, <1>5, <1>6, <3>1
    <3>3. QED BY <1>1, <2>2, <3>2, PendingOn
  <2>3. CASE session[i] = l \/ j # i
    <3>1. session'[j] = session[j]
      BY <1>1, <2>3 DEF Typed
    <3>2. session[j] # NoLink => session[j] \in Links
      BY DEF Typed
    <3>3. \A k \in Links : link'[k].number = link[k].number /\ link'[k].paired = link[k].paired
      BY <1>5, <1>6
    <3>4. QED BY <2>1, <2>2, <3>1, <3>2, <3>3, FollowsOn
  <2>4. CASE session[i] = NoLink /\ link[l].number = NoNumber /\ j = i
    <3>1. Pending(j)
      BY <2>1, <2>4 DEF Follows, Carries
    <3>2. link'[session'[j]].number = NoNumber
      BY <1>1, <1>5, <1>6, <2>4 DEF Typed
    <3>3. QED BY <2>1, <2>2, <3>1, <3>2, FollowsOn
  <2>5. QED BY <1>2, <2>3, <2>4
<1>10. \A o \in Tasks : CallHolds(task[o])'
  <2>1. \A k \in Links : /\ link[k].inst \in Instances => link'[k].inst = link[k].inst
                         /\ link'[k].number = link[k].number
    BY <1>2, <1>5, <1>6
  <2>2. ASSUME NEW j \in Instances
        PROVE  session'[j] = session[j] \/ session'[j] = NoLink \/ link'[session'[j]].number = NoNumber
    <3>1. CASE j = i
      BY <1>1, <1>2, <1>5, <1>6, <3>1 DEF Typed
    <3>2. CASE j # i
      BY <1>1, <3>2 DEF Typed
    <3>3. QED BY <3>1, <3>2
  <2>3. QED BY <1>1, <2>1, <2>2, Meanwhile DEF May
<1>11. QED BY <1>7, <1>8, <1>9, <1>10

(* A phone scans the code.  The row that is online then waits for the end  *)
(* of a logout, which may come too late now: the instance is astray.       *)
LEMMA PairStep ==
    ASSUME IInv, NEW i \in Instances, NEW l \in Links, NEW n \in Numbers, Pair(i, l, n)
    PROVE  IInv'
<1> USE RequestsAssumption DEF IInv
<1> DEFINE d == [link[l] EXCEPT !.number = n, !.paired = TRUE, !.up = TRUE, !.scanning = FALSE]
<1>1. /\ link[l].inst = i /\ ~ link[l].paired
      /\ UNCHANGED <<row, place, access, session, leaving, marked, written>>
      /\ astray' = IF session[i] = l /\ Pending(i) THEN astray \cup {i} ELSE astray
  BY DEF Pair, database
<1>2. link[l] \in Clients /\ link' = [link EXCEPT ![l] = d]
  BY DEF Pair, Typed
<1>3. /\ d \in Clients /\ d.inst = i /\ d.number = n /\ d.paired /\ d.due = link[l].due
  BY <1>1, <1>2 DEF Clients
<1> HIDE DEF d
<1>4. /\ link' \in [Links -> Clients] /\ link'[l] = d
      /\ \A k \in Links \ {l} : link'[k] = link[k]
  BY <1>2, <1>3 DEF Typed
<1>5. \A o \in Tasks :
         task'[o] = [task[o] EXCEPT !.moved = @ \/ (Reaches(task[o], l) /\ task[o].asked # n)]
  BY DEF Pair
<1>6. ASSUME NEW o \in Tasks
      PROVE  /\ task'[o] \in Calls
             /\ task'[o].phase = task[o].phase /\ task'[o].user = task[o].user
             /\ task'[o].inst = task[o].inst /\ task'[o].asked = task[o].asked
             /\ task'[o].todo = task[o].todo /\ task'[o].over = task[o].over
             /\ task'[o].allowed = task[o].allowed
             /\ task[o].moved => task'[o].moved
             /\ Reaches(task[o], l) => task'[o].moved \/ n = task[o].asked
  <2> DEFINE moved == task[o].moved \/ (Reaches(task[o], l) /\ task[o].asked # n)
  <2>1. task[o] \in Calls /\ moved \in BOOLEAN
    BY DEF Typed
  <2>2. task'[o] = [task[o] EXCEPT !.moved = moved]
    BY <1>5
  <2> HIDE DEF moved
  <2>3. /\ task'[o] \in Calls
        /\ task'[o].phase = task[o].phase /\ task'[o].user = task[o].user
        /\ task'[o].inst = task[o].inst /\ task'[o].asked = task[o].asked
        /\ task'[o].todo = task[o].todo /\ task'[o].over = task[o].over
        /\ task'[o].allowed = task[o].allowed /\ task'[o].moved = moved
    BY <2>1, <2>2 DEF Calls
  <2>4. /\ task[o].moved => moved
        /\ Reaches(task[o], l) => moved \/ n = task[o].asked
    BY DEF moved
  <2>5. QED BY <2>3, <2>4
<1>7. task' \in [Tasks -> Calls]
  <2>1. task' = [o \in Tasks |-> task'[o]]
    BY DEF Pair
  <2>2. QED BY <1>6, <2>1
<1>8. astray \subseteq astray' /\ astray' \subseteq Instances
  BY <1>1 DEF Typed
<1>9. Typed'
  BY <1>1, <1>4, <1>7, <1>8 DEF Typed
<1>10. LinksBelong'
  <2>1. ASSUME NEW j \in Instances, session'[j] # NoLink PROVE link'[session'[j]].inst = j
    <3>1. session'[j] = session[j] /\ session[j] \in Links /\ link[session[j]].inst = j
      BY <1>1, <2>1 DEF Typed, LinksBelong
    <3>2. QED BY <1>1, <1>3, <1>4, <3>1
  <2>2. ASSUME NEW k \in Links PROVE Belongs(k)'
    <3>1. Belongs(k)
      BY DEF LinksBelong
    <3>2. CASE k = l
      BY <1>1, <1>3, <1>4, <3>2 DEF Belongs
    <3>3. CASE k # l
      BY <1>1, <1>4, <3>1, <3>3 DEF Belongs
    <3>4. QED BY <3>2, <3>3
  <2>3. QED BY <2>1, <2>2 DEF LinksBelong
<1>11. RowsFollowSessions'
  <2> SUFFICES ASSUME NEW j \in Instances, j \notin astray', row[j].online PROVE Follows(j)'
    BY <1>1 DEF RowsFollowSessions
  <2>1. Follows(j) /\ row'[j] = row[j] /\ session'[j] = session[j]
    BY <1>1, <1>8 DEF RowsFollowSessions
  <2>2. session[j] # l
    <3>1. SUFFICES ASSUME session[j] = l PROVE FALSE
      OBVIOUS
    <3>2. j = i
      BY <1>1, <3>1 DEF LinksBelong, Typed
    <3>3. ~ Pending(i)
      BY <1>1, <3>1, <3>2
    <3>4. QED BY <1>1, <2>1, <3>1, <3>2, <3>3 DEF Follows
  <2>3. session[j] # NoLink => link'[session[j]] = link[session[j]]
    BY <1>4, <2>2 DEF Typed
  <2>4. Pending(j) => Pending(j)'
    <3>1. \A k \in Links : link'[k].inst = link[k].inst
      BY <1>1, <1>3, <1>4
    <3>2. QED BY <1>1, <3>1, PendingOn DEF Typed
  <2>5. QED BY <2>1, <2>3, <2>4, FollowsOn
<1>12. \A o \in Tasks : CallHolds(task[o])'
  <2>1. ASSUME NEW k \in Links
        PROVE  /\ link[k].inst \in Instances => link'[k].inst = link[k].inst
               /\ \/ link'[k].number = link[k].number
                  \/ /\ link'[k].number \in Numbers
                     /\ \A o \in Tasks : Reaches(task[o], k) =>
                           task'[o].moved \/ link'[k].number = task[o].asked
    <3>1. CASE k = l
      BY <1>1, <1>3, <1>4, <1>6, <3>1
    <3>2. CASE k # l
      BY <1>4, <3>2
    <3>3. QED BY <3>1, <3>2
  <2>2. \A o \in Tasks : task[o].allowed \subseteq task'[o].allowed
    BY <1>6
  <2>3. \A u, j : May(u, j)' <=> May(u, j)
    BY <1>1 DEF May
  <2>4. QED BY <1>1, <1>6, <1>8, <2>1, <2>2, <2>3, Meanwhile
<1>13. QED BY <1>9, <1>10, <1>11, <1>12

(* Steps that pair no client and add no session to the map: the rows of    *)
(* instances that are not written follow their sessions on.                *)
LEMMA QuietStep ==
    ASSUME IInv, row' \in Rows, place' \in [Instances -> Nat], link' \in [Links -> Clients],
           leaving' \subseteq Links, marked' \in [Instances -> Nat], written' \in [Instances -> Nat],
           UNCHANGED <<access, task>>, astray \subseteq astray', astray' \subseteq Instances,
           \A k \in Links : Kept(k) /\ (k \in leaving' \/ link'[k].due > 0 => link[k].inst \in Instances),
           session' \in [Instances -> Links \cup {NoLink}],
           \A j \in Instances : session'[j] \in {session[j], NoLink},
           \A j \in Instances \ astray' : row'[j].online =>
               \/ Follows(j)'
               \/ /\ row'[j] = row[j]
                  /\ Pending(j) => Pending(j)'
                  /\ session[j] # NoLink =>
                        Pending(j)' \/ (session'[j] = session[j]
                                        /\ (link[session[j]].paired => link'[session[j]].paired))
    PROVE  IInv'
<1>1. Typed' /\ LinksBelong'
  BY ClientsKept DEF IInv, Typed
<1>2. RowsFollowSessions'
  <2> SUFFICES ASSUME NEW j \in Instances, j \notin astray', row'[j].online PROVE Follows(j)'
    BY DEF RowsFollowSessions
  <2> SUFFICES ASSUME row'[j] = row[j], Pending(j) => Pending(j)',
                      session[j] # NoLink =>
                        Pending(j)' \/ (session'[j] = session[j]
                                        /\ (link[session[j]].paired => link'[session[j]].paired))
               PROVE  Follows(j)'
    OBVIOUS
  <2>1. Follows(j) /\ Typed
    BY DEF IInv, RowsFollowSessions
  <2>2. session'[j] = session[j] \/ session'[j] = NoLink
    OBVIOUS
  <2>3. session[j] # NoLink => link'[session[j]].number = link[session[j]].number
    BY <2>1 DEF Typed, Kept
  <2>4. session[j] = NoLink => Pending(j)
    BY <2>1 DEF Follows, Carries
  <2>5. QED BY <2>1, <2>2, <2>3, <2>4, FollowsOn
<1>3. \A o \in Tasks : CallHolds(task[o])'
  BY CallsKept
<1>4. QED BY <1>1, <1>2, <1>3 DEF IInv

(* A client is connected: its event marks the session of its instance.     *)
LEMMA ConnectStep ==
    ASSUME IInv, NEW i \in Instances, NEW l \in Links, Connected(i, l)
    PROVE  IInv'
<1> USE RequestsAssumption
<1> DEFINE s == session[i]
           raised == [link EXCEPT ![l] = [link[l] EXCEPT !.up = TRUE]]
           d == [raised[s] EXCEPT !.flag = TRUE, !.due = raised[s].due + 1]
<1>1. /\ s \in Links /\ link[s].inst = i
      /\ UNCHANGED <<row, place, access, session, leaving, marked, written, task, astray>>
  BY DEF Connected, database, IInv, Typed, LinksBelong
<1>2. link \in [Links -> Clients]
  BY DEF IInv, Typed
<1>3. /\ raised \in [Links -> Clients]
      /\ \A k \in Links : /\ raised[k].inst = link[k].inst /\ raised[k].number = link[k].number
                          /\ raised[k].paired = link[k].paired /\ raised[k].due = link[k].due
  <2>1. /\ [link[l] EXCEPT !.up = TRUE] \in Clients
        /\ [link[l] EXCEPT !.up = TRUE].inst = link[l].inst
        /\ [link[l] EXCEPT !.up = TRUE].number = link[l].number
        /\ [link[l] EXCEPT !.up = TRUE].paired = link[l].paired
        /\ [link[l] EXCEPT !.up = TRUE].due = link[l].due
    BY <1>2 DEF Clients
  <2>2. QED BY <1>2, <2>1
<1>4. link' = [raised EXCEPT ![s] = d]
  BY <1>2 DEF Connected
<1> HIDE DEF raised
<1>5. d \in Clients /\ d.inst = i /\ d.number = link[s].number /\ d.paired = link[s].paired
  <2>1. raised[s] \in Clients /\ raised[s].due + 1 \in Nat
    BY <1>1, <1>3 DEF Clients
  <2>2. QED BY <1>1, <1>3, <2>1 DEF Clients
<1> HIDE DEF d
<1>6. link' \in [Links -> Clients] /\ \A k \in Links : link'[k] = IF k = s THEN d ELSE raised[k]
  BY <1>3, <1>4, <1>5
<1>7. \A k \in Links : link'[k].inst = link[k].inst /\ link'[k].number = link[k].number
                       /\ link'[k].paired = link[k].paired
  BY <1>1, <1>3, <1>5, <1>6
<1>8. ASSUME NEW k \in Links, k \in leaving' \/ link'[k].due > 0 PROVE link[k].inst \in Instances
  <2>1. CASE k = s
    BY <1>1, <2>1
  <2>2. CASE k # s
    <3>1. k \in leaving \/ link[k].due > 0
      BY <1>1, <1>3, <1>6, <1>8, <2>2
    <3>2. QED BY <3>1 DEF IInv, LinksBelong, Belongs
  <2>3. QED BY <2>1, <2>2
<1>9. \A j \in Instances : Pending(j) => Pending(j)'
  BY <1>1, <1>7, PendingOn DEF IInv, Typed
<1>10. /\ row' \in Rows /\ place' \in [Instances -> Nat] /\ leaving' \subseteq Links
       /\ marked' \in [Instances -> Nat] /\ written' \in [Instances -> Nat]
       /\ astray \subseteq astray' /\ astray' \subseteq Instances
       /\ session' \in [Instances -> Links \cup {NoLink}]
       /\ \A j \in Instances : session[j] # NoLink => session[j] \in Links
  BY <1>1 DEF IInv, Typed
<1>11. QED BY <1>1, <1>6, <1>7, <1>8, <1>9, <1>10, QuietStep DEF Kept

(* The row is written for the client whose event it was: by its session,   *)
(* or the instance goes astray.                                            *)
LEMMA RowStep ==
    ASSUME IInv, NEW l \in Links, UpdateInstanceOnConnected(l)
    PROVE  IInv'
<1> USE RequestsAssumption
<1> DEFINE i == link[l].inst
           less == link[l].due - 1
           d == [link[l] EXCEPT !.due = less]
<1>1. /\ link[l] \in Clients /\ i \in Instances /\ less \in Nat
      /\ link[l].paired => link[l].number \in Numbers
      /\ UNCHANGED <<access, session, leaving, marked, written, task>>
  BY DEF UpdateInstanceOnConnected, database, IInv, Typed, LinksBelong, Belongs, Clients
<1>2. link' = [link EXCEPT ![l] = d]
  BY DEF UpdateInstanceOnConnected, IInv, Typed
<1> HIDE DEF less
<1>3. d \in Clients /\ d.inst = i /\ d.number = link[l].number /\ d.paired = link[l].paired
  BY <1>1 DEF Clients
<1> HIDE DEF d
<1>4. /\ link' \in [Links -> Clients]
      /\ \A k \in Links : /\ link'[k].inst = link[k].inst /\ link'[k].number = link[k].number
                          /\ link'[k].paired = link[k].paired
                          /\ link'[k].due > 0 => link[k].inst \in Instances
  <2>1. link' \in [Links -> Clients] /\ \A k \in Links : link'[k] = IF k = l THEN d ELSE link[k]
    BY <1>2, <1>3 DEF IInv, Typed
  <2>2. \A k \in Links : link[k].due > 0 => link[k].inst \in Instances
    BY DEF IInv, LinksBelong, Belongs
  <2>3. QED BY <1>1, <1>3, <2>1, <2>2
<1>5. \/ UNCHANGED <<row, place, astray>>
      \/ /\ link[l].paired
         /\ row' = [row EXCEPT ![i] = [number |-> link[l].number, online |-> TRUE]]
         /\ place' \in [Instances -> Nat]
         /\ astray' = IF session[i] = l THEN astray ELSE astray \cup {i}
  <2>1. CASE UNCHANGED <<database, astray>>
    BY <2>1 DEF database
  <2>2. ASSUME place' = [j \in Instances |-> IF j = i THEN 1 ELSE IF place[j] < place[i] THEN place[j] + 1
                                             ELSE place[j]]
        PROVE  place' \in [Instances -> Nat]
    BY <2>2 DEF IInv, Typed
  <2>3. QED BY <2>1, <2>2 DEF UpdateInstanceOnConnected
<1>6. astray \subseteq astray' /\ astray' \subseteq Instances /\ place' \in [Instances -> Nat]
  BY <1>1, <1>5 DEF IInv, Typed
<1>7. row' \in Rows /\ \A j \in Instances : row'[j] = row[j] \/ (j = i /\ link[l].paired
                                                 /\ row'[j] = [number |-> link[l].number, online |-> TRUE]
                                                 /\ (j \in astray' \/ session[j] = l))
  <2>1. row \in Rows
    BY DEF IInv, Typed
  <2>2. link[l].paired => [number |-> link[l].number, online |-> TRUE]
                              \in [number : Numbers \cup {NoNumber}, online : BOOLEAN]
    BY <1>1
  <2>3. QED BY <1>1, <1>5, <2>1, <2>2 DEF Rows
<1>8. \A j \in Instances : Pending(j) => Pending(j)'
  BY <1>1, <1>4, PendingOn DEF IInv, Typed
<1>9. ASSUME NEW j \in Instances \ astray', row'[j] # row[j] PROVE Follows(j)'
  <2>1. /\ session[j] = l /\ link[l].paired /\ row'[j].number = link[l].number
    BY <1>7, <1>9
  <2>2. l # NoLink /\ link'[l].paired /\ link'[l].number = link[l].number /\ link[l].number \in Numbers
    BY <1>1, <1>4, <2>1
  <2>3. QED BY <1>1, <2>1, <2>2 DEF Follows, Carries
<1>10. \A k \in Links : k \in leaving => link[k].inst \in Instances
  BY DEF IInv, LinksBelong, Belongs
<1>11. /\ leaving' \subseteq Links /\ marked' \in [Instances -> Nat] /\ written' \in [Instances -> Nat]
       /\ session' \in [Instances -> Links \cup {NoLink}]
       /\ \A j \in Instances : session[j] # NoLink => session[j] \in Links
  BY <1>1 DEF IInv, Typed
<1>12. QED BY <1>1, <1>4, <1>6, <1>7, <1>8, <1>9, <1>10, <1>11, QuietStep DEF Kept

(* The connection of a client drops.                                       *)
LEMMA DisconnectStep ==
    ASSUME IInv, NEW i \in Instances, NEW l \in Links, Disconnected(i, l)
    PROVE  IInv'
<1> USE RequestsAssumption
<1> DEFINE up(k) == link[k].up /\ k # l
           flag(k) == link[k].flag /\ k # session[i]
<1>1. /\ UNCHANGED <<place, access, session, leaving, marked, written, task, astray>>
      /\ Offline(i) \/ row' = row
      /\ link' = [k \in Links |-> [link[k] EXCEPT !.up = up(k), !.flag = flag(k)]]
  BY DEF Disconnected
<1>2. ASSUME NEW k \in Links
      PROVE  /\ link'[k] \in Clients
             /\ link'[k].inst = link[k].inst /\ link'[k].number = link[k].number
             /\ link'[k].paired = link[k].paired /\ link'[k].due = link[k].due
  <2>1. link[k] \in Clients /\ up(k) \in BOOLEAN /\ flag(k) \in BOOLEAN
    BY DEF IInv, Typed
  <2>2. link'[k] = [link[k] EXCEPT !.up = up(k), !.flag = flag(k)]
    BY <1>1
  <2> HIDE DEF up, flag
  <2>3. QED BY <2>1, <2>2 DEF Clients
<1>3. link' \in [Links -> Clients]
  BY <1>1, <1>2
<1>4. row' \in Rows /\ \A j \in Instances : row'[j].online => row'[j] = row[j]
  BY <1>1, OfflineStep DEF IInv, Typed
<1>5. \A j \in Instances : Pending(j) => Pending(j)'
  BY <1>1, <1>2, PendingOn DEF IInv, Typed
<1>6. \A k \in Links : k \in leaving \/ link[k].due > 0 => link[k].inst \in Instances
  BY DEF IInv, LinksBelong, Belongs
<1>7. /\ place' \in [Instances -> Nat] /\ leaving' \subseteq Links
      /\ marked' \in [Instances -> Nat] /\ written' \in [Instances -> Nat]
      /\ astray \subseteq astray' /\ astray' \subseteq Instances
      /\ session' \in [Instances -> Links \cup {NoLink}]
      /\ \A j \in Instances : session[j] # NoLink => session[j] \in Links
  BY <1>1 DEF IInv, Typed
<1>8. \A k \in Links : Kept(k) /\ (k \in leaving' \/ link'[k].due > 0 => link[k].inst \in Instances)
  BY <1>1, <1>2, <1>6 DEF Kept
<1>9. \A j \in Instances : session'[j] = session[j]
                           /\ (session[j] # NoLink => link'[session[j]].paired = link[session[j]].paired)
  BY <1>1, <1>2, <1>7
<1> HIDE DEF up, flag
<1>10. UNCHANGED <<access, task>>
  BY <1>1
<1>11. QED BY <1>3, <1>4, <1>5, <1>7, <1>8, <1>9, <1>10, QuietStep

(* A logout by the user begins: its row update is pending from here on.    *)
LEMMA DeleteStep ==
    ASSUME IInv, NEW i \in Instances, DeleteSession(i)
    PROVE  IInv'
<1> USE RequestsAssumption
<1> DEFINE l == session[i]
<1>1. /\ l \in Links /\ link[l] \in Clients /\ link[l].inst = i
      /\ session' = [session EXCEPT ![i] = NoLink] /\ leaving' = leaving \cup {l}
      /\ UNCHANGED <<row, place, access, marked, written, task, astray>>
  BY DEF DeleteSession, database, IInv, Typed, LinksBelong
<1>2. PICK unlinked \in BOOLEAN : link' = [link EXCEPT ![l].up = FALSE, ![l].paired = @ /\ ~ unlinked]
  BY DEF DeleteSession
<1> DEFINE paired == link[l].paired /\ ~ unlinked
           d == [link[l] EXCEPT !.up = FALSE, !.paired = paired]
<1>3. link' = [link EXCEPT ![l] = d]
  BY <1>2 DEF IInv, Typed
<1>4. paired \in BOOLEAN /\ (paired => link[l].paired)
  OBVIOUS
<1> HIDE DEF paired
<1>5. d \in Clients /\ d.inst = i /\ d.number = link[l].number /\ d.due = link[l].due /\ d.paired = paired
  BY <1>1, <1>4 DEF Clients
<1> HIDE DEF d
<1>6. /\ link' \in [Links -> Clients]
      /\ \A k \in Links : Kept(k) /\ (k \in leaving' \/ link'[k].due > 0 => link[k].inst \in Instances)
  <2>1. link' \in [Links -> Clients] /\ \A k \in Links : link'[k] = IF k = l THEN d ELSE link[k]
    BY <1>3, <1>5 DEF IInv, Typed
  <2>2. \A k \in Links : k \in leaving \/ link[k].due > 0 => link[k].inst \in Instances
    BY DEF IInv, LinksBelong, Belongs
  <2>3. QED BY <1>1, <1>4, <1>5, <2>1, <2>2 DEF Kept
<1>7. Pending(i)'
  BY <1>1, <1>6 DEF Pending, Kept
<1>8. \A j \in Instances : Pending(j) => Pending(j)'
  BY <1>1, <1>6, PendingOn DEF IInv, Typed, Kept
<1>9. \A j \in Instances \ {i} : session'[j] = session[j]
                                 /\ (session[j] # NoLink => link'[session[j]] = link[session[j]])
  <2> SUFFICES ASSUME NEW j \in Instances \ {i}, session[j] # NoLink
               PROVE  link'[session[j]] = link[session[j]]
    BY <1>1 DEF IInv, Typed
  <2>1. session[j] \in Links /\ link[session[j]].inst = j
    BY DEF IInv, Typed, LinksBelong
  <2>2. session[j] # l
    BY <1>1, <2>1
  <2>3. QED BY <1>3, <2>1, <2>2 DEF IInv, Typed
<1>10. /\ row' \in Rows /\ place' \in [Instances -> Nat] /\ leaving' \subseteq Links
       /\ marked' \in [Instances -> Nat] /\ written' \in [Instances -> Nat]
       /\ astray \subseteq astray' /\ astray' \subseteq Instances
       /\ session' \in [Instances -> Links \cup {NoLink}]
       /\ \A j \in Instances : session'[j] \in {session[j], NoLink}
  BY <1>1 DEF IInv, Typed
<1>11. QED BY <1>1, <1>6, <1>7, <1>8, <1>9, <1>10, QuietStep

(* The end of a logout writes the row of its instance, or loses it.        *)
LEMMA LeaveStep ==
    ASSUME IInv, NEW l \in Links, UpdateInstanceStatus(l)
    PROVE  IInv'
<1> USE RequestsAssumption
<1> DEFINE i == link[l].inst
<1>1. /\ l \in leaving /\ leaving' = leaving \ {l} /\ i \in Instances
      /\ UNCHANGED <<place, access, session, link, marked, written, task>>
      /\ \/ Offline(i) /\ astray' = astray
         \/ row' = row /\ astray' = astray \cup {i}
  BY DEF UpdateInstanceStatus, WritesOffline, IInv, LinksBelong, Belongs
<1> HIDE DEF i
<1>2. row' \in Rows /\ \A j \in Instances \ astray' : row'[j].online => row'[j] = row[j] /\ j # i
  BY <1>1, OfflineStep DEF IInv, Typed
<1>3. \A j \in Instances \ {i} : Pending(j) => Pending(j)'
  <2>1. \A k \in leaving : link[k].inst # i => k \in leaving'
    BY <1>1 DEF i
  <2>2. QED BY <1>1, <2>1, PendingOn DEF IInv, Typed
<1>4. \A k \in Links : k \in leaving \/ link[k].due > 0 => link[k].inst \in Instances
  BY DEF IInv, LinksBelong, Belongs
<1>5. /\ place' \in [Instances -> Nat] /\ link' \in [Links -> Clients] /\ leaving' \subseteq Links
      /\ marked' \in [Instances -> Nat] /\ written' \in [Instances -> Nat]
      /\ astray \subseteq astray' /\ astray' \subseteq Instances
      /\ session' \in [Instances -> Links \cup {NoLink}]
      /\ \A j \in Instances : session[j] # NoLink => session[j] \in Links
  BY <1>1 DEF IInv, Typed
<1>6. QED BY <1>1, <1>2, <1>3, <1>4, <1>5, QuietStep DEF Kept

(* A logout by the phone begins: the device is gone, and the row update    *)
(* of the handler is pending.                                              *)
LEMMA LoggedOutStep ==
    ASSUME IInv, NEW i \in Instances, NEW l \in Links, LoggedOut(i, l)
    PROVE  IInv'
<1> USE RequestsAssumption
<1> DEFINE paired(k) == link[k].paired /\ k # l
           up(k) == link[k].up /\ k \notin {l, session[i]}
           flag(k) == link[k].flag /\ k # session[i]
<1>1. /\ link[l].inst = i
      /\ UNCHANGED <<row, place, access, session, leaving, written, task, astray>>
      /\ marked' = [marked EXCEPT ![i] = marked[i] + 1]
      /\ link' = [k \in Links |-> [link[k] EXCEPT !.paired = paired(k), !.up = up(k), !.flag = flag(k)]]
  BY DEF LoggedOut, database
<1>2. ASSUME NEW k \in Links
      PROVE  /\ link'[k] \in Clients
             /\ link'[k].inst = link[k].inst /\ link'[k].number = link[k].number
             /\ link'[k].paired => link[k].paired
             /\ k # l => (link[k].paired => link'[k].paired)
             /\ link'[k].due = link[k].due
  <2>1. link[k] \in Clients /\ paired(k) \in BOOLEAN /\ up(k) \in BOOLEAN /\ flag(k) \in BOOLEAN
    BY DEF IInv, Typed
  <2>2. /\ link'[k] = [link[k] EXCEPT !.paired = paired(k), !.up = up(k), !.flag = flag(k)]
        /\ (paired(k) => link[k].paired) /\ (k # l => (link[k].paired => paired(k)))
    BY <1>1
  <2> HIDE DEF paired, up, flag
  <2>3. QED BY <2>1, <2>2 DEF Clients
<1>3. link' \in [Links -> Clients]
  BY <1>1, <1>2
<1>4. marked' \in [Instances -> Nat] /\ marked'[i] > 0 /\ \A j \in Instances : marked[j] > 0 => marked'[j] > 0
  <2>1. marked \in [Instances -> Nat]
    BY DEF IInv, Typed
  <2>2. marked[i] + 1 \in Nat /\ marked[i] + 1 > 0
    BY <2>1
  <2>3. QED BY <1>1, <2>1, <2>2
<1>5. Pending(i)'
  BY <1>4 DEF Pending
<1>6. \A j \in Instances : Pending(j) => Pending(j)'
  BY <1>1, <1>2, <1>4, PendingOn DEF IInv, Typed
<1>7. \A k \in Links : k \in leaving \/ link[k].due > 0 => link[k].inst \in Instances
  BY DEF IInv, LinksBelong, Belongs
<1>8. \A j \in Instances \ {i} : session[j] # NoLink => session[j] # l /\ session[j] \in Links
  BY <1>1 DEF IInv, Typed, LinksBelong
<1>9. /\ row' \in Rows /\ place' \in [Instances -> Nat] /\ leaving' \subseteq Links
      /\ written' \in [Instances -> Nat]
      /\ astray \subseteq astray' /\ astray' \subseteq Instances
      /\ session' \in [Instances -> Links \cup {NoLink}]
  BY <1>1 DEF IInv, Typed
<1>10. \A k \in Links : Kept(k) /\ (k \in leaving' \/ link'[k].due > 0 => link[k].inst \in Instances)
  BY <1>1, <1>2, <1>7 DEF Kept
<1>11. \A j \in Instances : /\ session'[j] = session[j] /\ row'[j] = row[j]
                            /\ session[j] # NoLink =>
                                  Pending(j)' \/ (link[session[j]].paired => link'[session[j]].paired)
  BY <1>1, <1>2, <1>5, <1>8
<1> HIDE DEF paired, up, flag
<1>12. UNCHANGED <<access, task>>
  BY <1>1
<1>13. QED BY <1>3, <1>4, <1>6, <1>9, <1>10, <1>11, <1>12, QuietStep

(* It writes the row, or loses the update.                                 *)
LEMMA OnLoggedOutStep ==
    ASSUME IInv, NEW i \in Instances, UpdateInstanceOnLoggedOut(i)
    PROVE  IInv'
<1> USE RequestsAssumption
<1>1. /\ marked' = [marked EXCEPT ![i] = marked[i] - 1] /\ marked[i] > 0
      /\ written' = [written EXCEPT ![i] = written[i] + 1]
      /\ UNCHANGED <<place, access, session, link, leaving, task>>
      /\ \/ Offline(i) /\ astray' = astray
         \/ row' = row /\ astray' = astray \cup {i}
  BY DEF UpdateInstanceOnLoggedOut, WritesOffline
<1>2. row' \in Rows /\ \A j \in Instances \ astray' : row'[j].online => row'[j] = row[j] /\ j # i
  BY <1>1, OfflineStep DEF IInv, Typed
<1>3. /\ marked' \in [Instances -> Nat] /\ written' \in [Instances -> Nat]
      /\ \A j \in Instances \ {i} : marked'[j] = marked[j]
  BY <1>1 DEF IInv, Typed
<1>4. \A j \in Instances \ {i} : Pending(j) => Pending(j)'
  BY <1>1, <1>3, PendingOn DEF IInv, Typed
<1>5. \A k \in Links : k \in leaving \/ link[k].due > 0 => link[k].inst \in Instances
  BY DEF IInv, LinksBelong, Belongs
<1>6. /\ place' \in [Instances -> Nat] /\ link' \in [Links -> Clients] /\ leaving' \subseteq Links
      /\ astray \subseteq astray' /\ astray' \subseteq Instances
      /\ session' \in [Instances -> Links \cup {NoLink}]
      /\ \A j \in Instances : session[j] # NoLink => session[j] \in Links
  BY <1>1 DEF IInv, Typed
<1>7. QED BY <1>1, <1>2, <1>3, <1>4, <1>5, <1>6, QuietStep DEF Kept

(* It removes the session.  One that is not paired leaves no row online    *)
(* unless another logout is pending; one that is makes the instance astray. *)
LEMMA RemoveStep ==
    ASSUME IInv, NEW i \in Instances, RemoveSession(i)
    PROVE  IInv'
<1> USE RequestsAssumption
<1>1. /\ written' = [written EXCEPT ![i] = written[i] - 1] /\ written[i] > 0
      /\ session' = [session EXCEPT ![i] = NoLink]
      /\ UNCHANGED <<row, place, access, link, leaving, marked, task>>
      /\ astray' = IF session[i] # NoLink /\ link[session[i]].paired THEN astray \cup {i} ELSE astray
  BY DEF RemoveSession, database
<1>2. written' \in [Instances -> Nat]
  BY <1>1 DEF IInv, Typed
<1>3. \A j \in Instances : Pending(j) => Pending(j)'
  BY <1>1 DEF Pending
<1>4. ASSUME NEW j \in Instances \ astray', row'[j].online
      PROVE  /\ session[j] # NoLink =>
                  Pending(j)' \/ (session'[j] = session[j]
                                  /\ (link[session[j]].paired => link'[session[j]].paired))
  <2>1. Follows(j)
    BY <1>1, <1>4 DEF IInv, RowsFollowSessions
  <2>2. CASE j = i
    <3>1. session[i] # NoLink => ~ link[session[i]].paired
      BY <1>1, <1>4, <2>2
    <3>2. Pending(j) \/ session[j] = NoLink
      BY <2>1, <2>2, <3>1 DEF Follows
    <3>3. QED BY <1>3, <3>2
  <2>3. CASE j # i
    BY <1>1, <2>3 DEF IInv, Typed
  <2>4. QED BY <2>2, <2>3
<1>5. \A k \in Links : k \in leaving \/ link[k].due > 0 => link[k].inst \in Instances
  BY DEF IInv, LinksBelong, Belongs
<1>6. /\ row' \in Rows /\ place' \in [Instances -> Nat] /\ link' \in [Links -> Clients]
      /\ leaving' \subseteq Links /\ marked' \in [Instances -> Nat]
      /\ astray \subseteq astray' /\ astray' \subseteq Instances
      /\ session' \in [Instances -> Links \cup {NoLink}]
      /\ \A j \in Instances : session'[j] \in {session[j], NoLink}
  BY <1>1 DEF IInv, Typed
<1>7. QED BY <1>1, <1>2, <1>3, <1>4, <1>5, <1>6, QuietStep DEF Kept

(* A right given counts for the calls that run; one taken does not.        *)
LEMMA RightsStep ==
    ASSUME IInv, NEW u \in Users, NEW i \in Instances, AssignInstance(u, i) \/ RevokeInstance(u, i)
    PROVE  IInv'
<1> USE RequestsAssumption
<1>1. UNCHANGED <<row, place, session, link, leaving, marked, written, astray>>
  BY DEF AssignInstance, RevokeInstance, memory
<1>2. access' \subseteq access \cup {<<u, i>>} /\ access' \subseteq Users \X Instances
  BY DEF AssignInstance, RevokeInstance, IInv, Typed
<1>3. LinksBelong' /\ RowsFollowSessions'
  BY <1>1 DEF IInv, LinksBelong, Belongs, RowsFollowSessions, Follows, Carries, Pending
<1>4. CASE AssignInstance(u, i)
  <2>1. \A o \in Tasks : task'[o] = IF task[o].phase = "running" /\ task[o].user = u
                                    THEN [task[o] EXCEPT !.allowed = @ \cup {i}] ELSE task[o]
    BY <1>4 DEF AssignInstance
  <2>2. ASSUME NEW o \in Tasks
        PROVE  /\ task'[o] \in Calls
               /\ task'[o].phase = task[o].phase /\ task'[o].user = task[o].user
               /\ task'[o].inst = task[o].inst /\ task'[o].asked = task[o].asked
               /\ task'[o].todo = task[o].todo /\ task'[o].over = task[o].over
               /\ task[o].allowed \subseteq task'[o].allowed
               /\ task'[o].moved = task[o].moved
               /\ task[o].phase = "running" /\ task[o].user = u => i \in task'[o].allowed
    <3> DEFINE more == task[o].allowed \cup {i}
               d == [task[o] EXCEPT !.allowed = more]
    <3>1. task[o] \in Calls
      BY DEF IInv, Typed
    <3>2. more \in SUBSET Instances
      BY <3>1 DEF Calls
    <3> HIDE DEF more
    <3>3. /\ d \in Calls /\ d.phase = task[o].phase /\ d.user = task[o].user /\ d.inst = task[o].inst
          /\ d.asked = task[o].asked /\ d.todo = task[o].todo /\ d.over = task[o].over
          /\ d.moved = task[o].moved /\ d.allowed = more
      BY <3>1, <3>2 DEF Calls
    <3>4. task'[o] = IF task[o].phase = "running" /\ task[o].user = u THEN d ELSE task[o]
      BY <2>1 DEF more
    <3> HIDE DEF d
    <3>5. QED BY <3>1, <3>3, <3>4 DEF more
  <2>3. task' \in [Tasks -> Calls]
    <3>1. task' = [o \in Tasks |-> task'[o]]
      BY <1>4 DEF AssignInstance
    <3>2. QED BY <2>2, <3>1
  <2>4. Typed'
    BY <1>1, <1>2, <2>3 DEF IInv, Typed
  <2>5. \A o \in Tasks : task[o].phase = "running" =>
               \A j \in Instances : May(task[o].user, j)' => May(task[o].user, j) \/ j \in task'[o].allowed
    <3> SUFFICES ASSUME NEW o \in Tasks, task[o].phase = "running", NEW j \in Instances,
                        <<task[o].user, j>> \in access', <<task[o].user, j>> \notin access
                 PROVE  j \in task'[o].allowed
      BY <2>2 DEF May
    <3>1. task[o].user = u /\ j = i
      BY <1>2
    <3>2. QED BY <2>2, <3>1
  <2>6. \A o \in Tasks : CallHolds(task[o])'
    BY <1>1, <2>2, <2>5, Meanwhile
  <2>7. QED BY <1>3, <2>4, <2>6 DEF IInv
<1>5. CASE RevokeInstance(u, i)
  <2>1. task' = task /\ access' \subseteq access
    BY <1>5 DEF RevokeInstance
  <2>2. Typed'
    BY <1>1, <1>2, <2>1 DEF IInv, Typed
  <2>3. \A o \in Tasks, j \in Instances : May(task[o].user, j)' => May(task[o].user, j)
    BY <2>1 DEF May
  <2>4. \A o \in Tasks : CallHolds(task[o])'
    BY <1>1, <2>1, <2>3, Meanwhile
  <2>5. QED BY <1>3, <2>2, <2>4 DEF IInv
<1>6. QED BY <1>4, <1>5

-----------------------------------------------------------------------------
LEMMA ReceiveStep ==
    ASSUME IInv, NEW t \in Tasks, NEW u \in Users, NEW h \in DOMAIN Handler,
           NEW i \in Instances \cup {NoInst}, NEW n \in Numbers \cup {NoNumber},
           Receive(t, u, h, i, n)
    PROVE  IInv'
<1> USE RequestsAssumption
<1> DEFINE granted == {j \in Instances : May(u, j)}
           d == [phase |-> "running", user |-> u, inst |-> i, asked |-> n, todo |-> Handler[h],
                 over |-> NoLink, entered |-> FALSE, allowed |-> granted, moved |-> FALSE]
<1>1. task' = [task EXCEPT ![t] = d] /\ UNCHANGED <<database, memory, astray>>
  BY DEF Receive
<1>2. Handler[h] \in Seq(Stages)
  <2>1. \E p \in Seq(Stages) : Begins(Handler[h], p)
    BY HandlerForms, Routes
  <2>2. QED BY <2>1 DEF Begins
<1>3. granted \in SUBSET Instances
  OBVIOUS
<1>4. \A j \in Instances : May(u, j) => j \in granted
  OBVIOUS
<1>5. IF ByNumber(h) THEN n \in Numbers ELSE i \in Instances /\ n = NoNumber
  BY DEF Receive
<1> HIDE DEF granted
<1>6. d \in Calls
  BY <1>2, <1>3 DEF Calls
<1>7. Established(d)
  <2>1. d.todo = Handler[h] /\ d.over = NoLink /\ d.inst = i /\ d.asked = n
    OBVIOUS
  <2> HIDE DEF d
  <2>2. CASE ByNumber(h)
    BY <1>5, <2>1, <2>2, HandlerForms DEF Established
  <2>3. CASE ~ ByNumber(h)
    BY <1>5, <2>1, <2>3, HandlerForms DEF Established
  <2>4. QED BY <2>2, <2>3
<1>8. CallHolds(d)
  <2>1. d.phase = "running" /\ d.user = u /\ d.allowed = granted
    OBVIOUS
  <2> HIDE DEF d
  <2>2. QED BY <1>4, <1>7, <2>1 DEF CallHolds
<1> HIDE DEF d
<1>9. QED BY <1>1, <1>6, <1>8, OneCall

LEMMA InvariantInit == Init => IInv
<1> SUFFICES ASSUME Init PROVE IInv
  OBVIOUS
<1> USE RequestsAssumption
<1> DEFINE n == CHOOSE k \in Numbers : TRUE
           l == CHOOSE k \in Links : TRUE
<1>1. n \in Numbers /\ l \in Links
  OBVIOUS
<1>2. /\ row = [i \in Instances |-> IF i = First THEN [number |-> n, online |-> TRUE]
                                    ELSE [number |-> NoNumber, online |-> FALSE]]
      /\ place \in Bijection(Instances, 1 .. Cardinality(Instances))
      /\ access = {k \in Users : RoleOf[k] = "user"} \X {First}
      /\ session = [i \in Instances |-> IF i = First THEN l ELSE NoLink]
      /\ link = [k \in Links |->
                   IF k = l
                   THEN [inst |-> First, number |-> n, flag |-> TRUE, up |-> TRUE,
                         paired |-> TRUE, scanning |-> FALSE, due |-> 0]
                   ELSE [inst |-> NoInst, number |-> NoNumber, flag |-> FALSE,
                         up |-> FALSE, paired |-> FALSE, scanning |-> FALSE, due |-> 0]]
      /\ marked = [i \in Instances |-> 0] /\ written = [i \in Instances |-> 0]
      /\ leaving = {} /\ astray = {} /\ task = [t \in Tasks |-> Idle]
  BY DEF Init
<1> HIDE DEF n, l
<1>3. place \in [Instances -> Nat]
  <2>1. Cardinality(Instances) \in Nat
    BY FS_CardinalityType
  <2>2. place \in [Instances -> 1 .. Cardinality(Instances)]
    BY <1>2 DEF Bijection, Injection
  <2>3. QED BY <2>1, <2>2
<1>4. Idle \in Calls /\ Idle.phase = "idle"
  BY EmptySeq DEF Idle, Calls
<1>5. Typed
  <2>1. row \in Rows
    BY <1>1, <1>2 DEF Rows
  <2>2. link \in [Links -> Clients]
    BY <1>1, <1>2 DEF Clients
  <2>3. access \subseteq Users \X Instances
    BY <1>2
  <2>4. QED BY <1>1, <1>2, <1>3, <1>4, <2>1, <2>2, <2>3 DEF Typed
<1>6. LinksBelong
  BY <1>1, <1>2 DEF LinksBelong, Belongs
<1>7. RowsFollowSessions
  BY <1>1, <1>2 DEF RowsFollowSessions, Follows, Carries
<1>8. \A t \in Tasks : CallHolds(task[t])
  BY <1>2, <1>4 DEF CallHolds
<1>9. QED BY <1>5, <1>6, <1>7, <1>8 DEF IInv

LEMMA InvariantStep ==
    ASSUME IInv, [Next]_vars
    PROVE  IInv'
<1>1. CASE UNCHANGED vars
  <2>1. UNCHANGED <<database, memory, task, astray>>
    BY <1>1 DEF vars
  <2>2. UNCHANGED <<row, place, access, session, link, leaving, marked, written, task, astray>>
    BY <2>1 DEF database, memory
  <2>3. Typed' /\ LinksBelong' /\ RowsFollowSessions'
    BY <2>2 DEF IInv, Typed, LinksBelong, Belongs, RowsFollowSessions, Follows, Carries, Pending
  <2>4. \A o \in Tasks : CallHolds(task[o])'
    BY <2>2, Meanwhile DEF May
  <2>5. QED BY <2>3, <2>4 DEF IInv
<1>2. CASE Environment
  <2>1. CASE \E u \in Users, i \in Instances : AssignInstance(u, i) \/ RevokeInstance(u, i)
    BY <2>1, RightsStep
  <2>2. CASE \E i \in Instances, l \in Links :
                \/ GetQR(i, l) \/ Connected(i, l) \/ Disconnected(i, l) \/ LoggedOut(i, l)
                \/ \E n \in Numbers : Pair(i, l, n)
    BY <2>2, GetQRStep, ConnectStep, DisconnectStep, LoggedOutStep, PairStep
  <2>3. CASE \E i \in Instances : DeleteSession(i) \/ UpdateInstanceOnLoggedOut(i) \/ RemoveSession(i)
    BY <2>3, DeleteStep, OnLoggedOutStep, RemoveStep
  <2>4. CASE \E l \in Links : UpdateInstanceOnConnected(l) \/ UpdateInstanceStatus(l)
    BY <2>4, RowStep, LeaveStep
  <2>5. QED BY <1>2, <2>1, <2>2, <2>3, <2>4 DEF Environment
<1>3. CASE \E t \in Tasks, i \in Instances \cup {NoInst}, n \in Numbers \cup {NoNumber} :
              \E u \in Callers[t], h \in MayCall[t] : Receive(t, u, h, i, n)
  <2>1. \A t \in Tasks : Callers[t] \subseteq Users /\ MayCall[t] \subseteq DOMAIN Handler
    BY RoutesAssumption
  <2>2. QED BY <1>3, <2>1, ReceiveStep
<1>4. QED BY <1>1, <1>2, <1>3, StageStep DEF Next

LEMMA InvariantHolds == Spec => []IInv
<1>1. IInv /\ [Next]_vars => IInv'
  BY InvariantStep
<1>2. QED BY <1>1, InvariantInit, PTL DEF Spec

(* RequireInstanceAccess, and RequirePhoneNumberAccess with the second     *)
(* check of every handler that looks the instance up again: nobody sends   *)
(* over an instance that was never his during the call, at whatever        *)
(* moment numbers move or rights change.                                   *)
THEOREM AlwaysAuthorised == Spec => []Authorised
<1>1. IInv => Authorised
  BY DEF IInv, CallHolds, Holds, Permitted, Authorised
<1>2. QED BY <1>1, InvariantHolds, PTL

(* GetActiveInstanceByPhoneNumber, GetSession: a message sent by number    *)
(* leaves from that number, but for the two named causes.                  *)
THEOREM AlwaysFromThatNumber == Spec => []FromThatNumber
<1>1. IInv => FromThatNumber
  BY RequestsAssumption DEF IInv, CallHolds, Holds, FromThatNumber
<1>2. QED BY <1>1, InvariantHolds, PTL
=============================================================================
