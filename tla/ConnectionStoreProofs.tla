----------------------- MODULE ConnectionStoreProofs -----------------------
(***************************************************************************)
(* A saved password is the one of its record's target, for any number of   *)
(* records and targets.  That rests on two things that are not visible in  *)
(* one page: a form that knows a record is open only while nothing is      *)
(* saved for it or the setting is on, and the setting cannot be reached    *)
(* while a form is open.                                                   *)
(***************************************************************************)
EXTENDS ConnectionStore, TLAPS

----------------------------------------------------------------------------
(* The invariant *)

(* The pages that lead to the settings, and those of the way there *)
Roots == {"Index", "LynxHostPage"}

(* Below an Index there is no form. *)
StackShape ==
  \A k \in DOMAIN stack : stack[k].name \in Roots =>
    \A j \in 1..k : stack[j].name \in Roots

(* Nothing is saved under an id that no record has. *)
UnusedIdsHaveNone == \A i \in Ids : i >= seq => passwords[i] = None

(* What a form may overwrite is saved again with it. *)
FormsMaySave ==
  \A k \in DOMAIN stack :
    stack[k].name = "AddHost" /\ stack[k].editingId # 0
      => passwords[stack[k].editingId] = None \/ savePassword

StoreInv ==
  /\ TypeOK /\ StackShape
  /\ UnusedIdsHaveNone /\ FormsMaySave /\ SavedPasswordFitsRecord

----------------------------------------------------------------------------
(* Pages on the stack *)

LEMMA Pushed ==
  ASSUME NEW s \in Seq(Page), NEW p \in Page
  PROVE  /\ Append(s, p) \in Seq(Page)
         /\ Len(Append(s, p)) = Len(s) + 1
         /\ DOMAIN Append(s, p) = 1..(Len(s) + 1) /\ DOMAIN s = 1..Len(s) /\ Len(s) \in Nat
         /\ \A k \in DOMAIN s : Append(s, p)[k] = s[k]
         /\ Append(s, p)[Len(s) + 1] = p
OBVIOUS

LEMMA Popped ==
  ASSUME NEW s \in Seq(Page), s # <<>>
  PROVE  /\ Front(s) \in Seq(Page)
         /\ DOMAIN Front(s) \subseteq DOMAIN s
         /\ \A k \in DOMAIN Front(s) : Front(s)[k] = s[k]
BY DEF Front

LEMMA Top ==
  ASSUME NEW s \in Seq(Page), s # <<>>
  PROVE  Len(s) \in DOMAIN s /\ Last(s) = s[Len(s)] /\ Last(s) \in Page
BY DEF Last

LEMMA PageKinds ==
  ASSUME NEW p \in Page
  PROVE  /\ p.name \in {"Index", "HostList", "SFTPPage"} => p.hosts \in Seq(Record)
         /\ p.name = "AddHost" => p.editingId \in Ids \cup {0}
BY DEF Page

(* With an Index or what leads to it on top there is nothing else. *)
LEMMA OnlyRoots ==
  ASSUME StoreInv, OnTop("Index") \/ OnTop("LynxHostPage")
  PROVE  /\ stack # <<>>
         /\ \A k \in DOMAIN stack : stack[k].name \in Roots
<1>1. stack \in Seq(Page) /\ stack # <<>>
  BY DEF StoreInv, TypeOK, OnTop
<1>2. Len(stack) \in DOMAIN stack /\ stack[Len(stack)].name \in Roots
  BY <1>1, Top DEF OnTop, Roots
<1>3. \A j \in 1..Len(stack) : stack[j].name \in Roots
  BY <1>2 DEF StoreInv, StackShape
<1> QED BY <1>1, <1>3

(* A page pushed where its kind may be; passwords are written only when they *)
(* are saved.                                                                *)
LEMMA PushKeeps ==
  ASSUME StoreInv, NEW p \in Page, Push(p),
         UNCHANGED savePassword, \A i \in Ids : passwords'[i] = passwords[i] \/ savePassword,
         p.name \in Roots => OnTop("Index"),
         p.name = "AddHost" /\ p.editingId # 0 => passwords[p.editingId] = None \/ savePassword
  PROVE  /\ stack' \in Seq(Page) /\ StackShape' /\ FormsMaySave'
<1>1. stack \in Seq(Page) /\ stack' = Append(stack, p)
  BY DEF StoreInv, TypeOK, Push
<1>2. /\ stack' \in Seq(Page) /\ Len(stack) \in Nat
      /\ DOMAIN stack' = 1..(Len(stack) + 1) /\ DOMAIN stack = 1..Len(stack)
      /\ \A k \in DOMAIN stack : stack'[k] = stack[k]
      /\ stack'[Len(stack) + 1] = p
  BY <1>1, Pushed
<1>3. StackShape'
  <2>1. SUFFICES ASSUME NEW k \in DOMAIN stack', stack'[k].name \in Roots, NEW j \in 1..k
                 PROVE  stack'[j].name \in Roots
    BY DEF StackShape
  <2>2. CASE k \in DOMAIN stack
    BY <1>2, <2>1, <2>2 DEF StoreInv, StackShape
  <2>3. CASE k \notin DOMAIN stack
    <3>1. k = Len(stack) + 1 /\ \A i \in DOMAIN stack : stack[i].name \in Roots
      BY <1>2, <2>1, <2>3, OnlyRoots
    <3> QED BY <1>2, <2>1, <3>1
  <2> QED BY <2>2, <2>3
<1>5. FormsMaySave'
  <2>1. SUFFICES ASSUME NEW k \in DOMAIN stack', stack'[k].name = "AddHost", stack'[k].editingId # 0
                 PROVE  passwords'[stack'[k].editingId] = None \/ savePassword'
    BY DEF FormsMaySave
  <2>2. stack'[k] \in Page /\ stack'[k].editingId \in Ids
    BY <1>2, <2>1, PageKinds
  <2>3. passwords[stack'[k].editingId] = None \/ savePassword
    <3>1. stack'[k] = p \/ (k \in DOMAIN stack /\ stack'[k] = stack[k])
      BY <1>2
    <3> QED BY <2>1, <3>1 DEF StoreInv, FormsMaySave
  <2> QED BY <2>2, <2>3
<1> QED BY <1>2, <1>3, <1>5

(* What the store keeps is not touched. *)
LEMMA StoreKeeps ==
  ASSUME StoreInv, UNCHANGED <<history, passwords>>
  PROVE  UnusedIdsHaveNone' /\ SavedPasswordFitsRecord' /\ history' \in Seq(Record)
         /\ (\A k \in DOMAIN history' : history'[k].id = seq' - k)
         /\ passwords' \in [Ids -> Targets \cup {None}]
BY DEF StoreInv, TypeOK, UnusedIdsHaveNone, SavedPasswordFitsRecord, seq

----------------------------------------------------------------------------
(* One lemma per action *)

LEMMA OpenListKeeps ==
  ASSUME StoreInv, NEW name \in {"HostList", "SFTPPage"}, OpenList(name) PROVE StoreInv'
<1> DEFINE p == [name |-> name, hosts |-> history]
<1>1. p \in Page /\ p.name \notin Roots /\ p.name # "AddHost"
  BY DEF StoreInv, TypeOK, Page, Roots
<1>2. Push(p) /\ UNCHANGED <<history, passwords, savePassword, sent>>
  BY DEF OpenList
<1> HIDE DEF p
<1>3. stack' \in Seq(Page) /\ StackShape' /\ FormsMaySave'
  BY <1>1, <1>2, PushKeeps
<1> QED BY <1>2, <1>3, StoreKeeps DEF StoreInv, TypeOK

LEMMA OpenLynxHostKeeps ==
  ASSUME StoreInv, OpenLynxHost PROVE StoreInv'
<1> DEFINE p == [name |-> "LynxHostPage"]
<1>1. p \in Page /\ p.name # "AddHost"
  BY DEF Page
<1>2. Push(p) /\ OnTop("Index") /\ UNCHANGED <<history, passwords, savePassword, sent>>
  BY DEF OpenLynxHost
<1> HIDE DEF p
<1>3. stack' \in Seq(Page) /\ StackShape' /\ FormsMaySave'
  BY <1>1, <1>2, PushKeeps
<1> QED BY <1>2, <1>3, StoreKeeps DEF StoreInv, TypeOK

LEMMA ShowIndexKeeps ==
  ASSUME StoreInv, ShowIndex PROVE StoreInv'
<1> DEFINE p == [name |-> "Index", hosts |-> Recent]
<1>1. p \in Page /\ p.name \in Roots
  <2>1. history \in Seq(Record)
    BY DEF StoreInv, TypeOK
  <2>2. Recent \in Seq(Record)
    BY <2>1 DEF Recent
  <2> QED BY <2>2 DEF Page, Roots
<1>2. /\ stack' = Append(Front(stack), p)
      /\ OnTop("LynxHostPage") /\ UNCHANGED <<history, passwords, savePassword, sent>>
  BY DEF ShowIndex
<1> HIDE DEF p
<1>3. /\ Front(stack) \in Seq(Page) /\ DOMAIN Front(stack) \subseteq DOMAIN stack
      /\ \A k \in DOMAIN Front(stack) : Front(stack)[k].name \in Roots
  BY <1>2, OnlyRoots, Popped DEF StoreInv, TypeOK
<1>4. stack' \in Seq(Page) /\ \A k \in DOMAIN stack' : stack'[k].name \in Roots
  BY <1>1, <1>2, <1>3, Pushed
<1>5. StackShape' /\ FormsMaySave'
  <2>1. \A k \in DOMAIN stack' : 1..k \subseteq DOMAIN stack'
    BY <1>4
  <2> QED BY <1>4, <2>1 DEF StackShape, FormsMaySave, Roots
<1> QED BY <1>2, <1>4, <1>5, StoreKeeps DEF StoreInv, TypeOK

LEMMA SetSavePasswordKeeps ==
  ASSUME StoreInv, SetSavePassword PROVE StoreInv'
<1>1. OnTop("Index") /\ UNCHANGED <<history, passwords, stack, sent>> /\ savePassword' \in BOOLEAN
  BY DEF SetSavePassword, StoreInv, TypeOK
<1>2. StackShape'
  BY <1>1 DEF StoreInv, StackShape
<1>3. FormsMaySave'
  BY <1>1, OnlyRoots DEF FormsMaySave, Roots
<1> QED BY <1>1, <1>2, <1>3, StoreKeeps DEF StoreInv, TypeOK

LEMMA AddNewKeeps ==
  ASSUME StoreInv, AddNew PROVE StoreInv'
<1> DEFINE p == [name |-> "AddHost", editingId |-> 0]
<1>1. p \in Page /\ p.name \notin Roots /\ p.editingId = 0
  BY DEF Page, Roots
<1>2. /\ Push(p)
      /\ UNCHANGED <<history, passwords, savePassword, sent>>
  BY DEF AddNew
<1> HIDE DEF p
<1>3. stack' \in Seq(Page) /\ StackShape' /\ FormsMaySave'
  BY <1>1, <1>2, PushKeeps
<1> QED BY <1>2, <1>3, StoreKeeps DEF StoreInv, TypeOK

(* The record that is tapped *)
LEMMA Listed ==
  ASSUME StoreInv, ConnectListed
  PROVE  \E k \in DOMAIN Last(stack).hosts :
           Last(stack).hosts[k] \in Record /\ Connect(Last(stack).hosts[k])
<1>1. stack # <<>> /\ Last(stack) \in Page /\ Last(stack).name \in {"Index", "HostList", "SFTPPage"}
  BY Top DEF ConnectListed, ShowsHosts, OnTop, StoreInv, TypeOK
<1>2. Last(stack).hosts \in Seq(Record)
  BY <1>1, PageKinds
<1> QED BY <1>2 DEF ConnectListed

LEMMA ConnectListedKeeps ==
  ASSUME StoreInv, ConnectListed PROVE StoreInv'
<1>1. PICK item \in Record : Connect(item)
  BY Listed
<1>2. item.id \in Ids /\ item.target \in Targets /\ UNCHANGED <<history, passwords, savePassword>>
      /\ passwords[item.id] \in Targets \cup {None}
  BY <1>1 DEF Connect, Record, StoreInv, TypeOK
<1>4. CASE passwords[item.id] = None
  <2> DEFINE p == [name |-> "AddHost", editingId |-> item.id]
  <2>1. p \in Page /\ p.name \notin Roots /\ p.editingId = item.id
    BY <1>2 DEF Page, Roots
  <2>2. Push(p) /\ UNCHANGED sent
    BY <1>1, <1>4 DEF Connect
  <2> HIDE DEF p
  <2>3. stack' \in Seq(Page) /\ StackShape' /\ FormsMaySave'
    BY <1>2, <1>4, <2>1, <2>2, PushKeeps
  <2> QED BY <1>2, <2>2, <2>3, StoreKeeps DEF StoreInv, TypeOK
<1>5. CASE passwords[item.id] # None
  <2>1. sent' = [to |-> item.target, with |-> passwords[item.id]]
    BY <1>1, <1>5 DEF Connect
  <2>2. sent' \in [to: Targets \cup {None}, with: Targets \cup {None}]
    BY <1>2, <2>1
  <2>3. stack' \in Seq(Page) /\ StackShape' /\ FormsMaySave'
    <3> DEFINE p == [name |-> "Terminal"]
    <3>1. p \in Page /\ p.name \notin Roots /\ p.name # "AddHost"
      BY DEF Page, Roots
    <3>2. Push(p) \/ UNCHANGED stack
      BY <1>1, <1>5 DEF Connect
    <3> HIDE DEF p
    <3>3. CASE Push(p)
      BY <1>2, <3>1, <3>3, PushKeeps
    <3>4. CASE UNCHANGED stack
      BY <1>2, <3>4 DEF StoreInv, TypeOK, StackShape, FormsMaySave
    <3> QED BY <3>2, <3>3, <3>4
  <2> QED BY <1>2, <2>2, <2>3, StoreKeeps DEF StoreInv, TypeOK
<1> QED BY <1>4, <1>5

LEMMA BackKeeps ==
  ASSUME StoreInv, Back PROVE StoreInv'
<1>1. Len(stack) > 1 /\ stack' = Front(stack) /\ UNCHANGED <<history, passwords, savePassword, sent>>
  BY DEF Back
<1>2. /\ stack' \in Seq(Page) /\ DOMAIN stack' \subseteq DOMAIN stack
      /\ \A k \in DOMAIN stack' : stack'[k] = stack[k] /\ 1..k \subseteq DOMAIN stack'
  <2>1. stack \in Seq(Page) /\ stack # <<>>
    BY <1>1 DEF StoreInv, TypeOK
  <2>2. stack' \in Seq(Page) /\ DOMAIN stack' \subseteq DOMAIN stack
        /\ \A k \in DOMAIN stack' : stack'[k] = stack[k]
    BY <1>1, <2>1, Popped
  <2>3. \A k \in DOMAIN stack' : 1..k \subseteq DOMAIN stack'
    BY <2>2
  <2> QED BY <2>2, <2>3
<1>3. StackShape'
  BY <1>2 DEF StoreInv, StackShape
<1>4. FormsMaySave'
  BY <1>1, <1>2 DEF StoreInv, FormsMaySave
<1> QED BY <1>1, <1>2, <1>3, <1>4, StoreKeeps DEF StoreInv, TypeOK

(* What addFromDraft returns, for a record there is and for a new one *)
Edits(e) == \E k \in DOMAIN history : history[k].id = e

LEMMA EditedHistory ==
  ASSUME StoreInv, NEW e, NEW target \in Targets, Edits(e)
  PROVE  /\ AddFromDraft(e, target).id = e /\ e \in Ids /\ e < seq
         /\ AddFromDraft(e, target).history \in Seq(Record)
         /\ DOMAIN AddFromDraft(e, target).history = DOMAIN history
         /\ Len(AddFromDraft(e, target).history) = Len(history)
         /\ \A k \in DOMAIN history :
              /\ AddFromDraft(e, target).history[k].id = history[k].id
              /\ AddFromDraft(e, target).history[k].target
                    = IF history[k].id = e THEN target ELSE history[k].target
<1> DEFINE h == [k \in DOMAIN history |->
                  IF history[k].id = e THEN [history[k] EXCEPT !.target = target] ELSE history[k]]
<1>1. AddFromDraft(e, target).id = e /\ AddFromDraft(e, target).history = h
  BY DEF AddFromDraft, Edits
<1>2. history \in Seq(Record) /\ Len(history) \in Nat /\ DOMAIN history = 1..Len(history)
  BY DEF StoreInv, TypeOK
<1>3. \A k \in DOMAIN history : history[k] \in Record /\ history[k].id = seq - k
  BY <1>2 DEF StoreInv, TypeOK
<1>4. e \in Ids /\ e < seq
  <2>1. PICK k \in DOMAIN history : history[k].id = e
    BY DEF Edits
  <2>2. history[k].id \in Ids /\ history[k].id = seq - k /\ k \in Nat \ {0} /\ seq \in Int
    BY <1>2, <1>3 DEF Record, seq
  <2> QED BY <2>1, <2>2
<1>5. \A k \in DOMAIN history :
        /\ h[k] \in Record /\ h[k].id = history[k].id
        /\ h[k].target = IF history[k].id = e THEN target ELSE history[k].target
  BY <1>3 DEF Record
<1>6. h \in Seq(Record) /\ DOMAIN h = DOMAIN history /\ Len(h) = Len(history)
  BY <1>2, <1>5
<1> HIDE DEF h
<1> QED BY <1>1, <1>4, <1>5, <1>6

LEMMA AddedHistory ==
  ASSUME StoreInv, NEW e, NEW target \in Targets, ~Edits(e),
         AddFromDraft(e, target).id \in Ids
  PROVE  /\ AddFromDraft(e, target).id = seq
         /\ AddFromDraft(e, target).history \in Seq(Record)
         /\ Len(AddFromDraft(e, target).history) = Len(history) + 1
         /\ AddFromDraft(e, target).history[1] = [id |-> seq, target |-> target]
         /\ \A k \in DOMAIN AddFromDraft(e, target).history :
              k # 1 => k - 1 \in DOMAIN history /\ AddFromDraft(e, target).history[k] = history[k - 1]
<1> DEFINE r == [id |-> seq, target |-> target]
<1>1. AddFromDraft(e, target).id = seq /\ AddFromDraft(e, target).history = <<r>> \o history
  BY DEF AddFromDraft, Edits
<1>2. r \in Record
  BY <1>1 DEF Record
<1>3. history \in Seq(Record)
  BY DEF StoreInv, TypeOK
<1> HIDE DEF r
<1>4. /\ <<r>> \o history \in Seq(Record) /\ Len(<<r>> \o history) = Len(history) + 1
      /\ (<<r>> \o history)[1] = r
      /\ \A k \in DOMAIN (<<r>> \o history) :
           k # 1 => k - 1 \in DOMAIN history /\ (<<r>> \o history)[k] = history[k - 1]
  BY <1>2, <1>3
<1> QED BY <1>1, <1>4 DEF r

LEMMA RecordFacts ==
  ASSUME StoreInv, NEW k \in DOMAIN history
  PROVE  /\ history[k].id \in Ids /\ history[k].id = seq - k
         /\ passwords[history[k].id] \in {None, history[k].target}
<1>1. history \in Seq(Record) /\ history[k].id = seq - k
  BY DEF StoreInv, TypeOK
<1>2. history[k] \in Record
  BY <1>1
<1>3. history[k].id \in Ids
  BY <1>2 DEF Record
<1> QED BY <1>1, <1>3 DEF StoreInv, SavedPasswordFitsRecord

(* What a save leaves under the ids *)
LEMMA Written ==
  ASSUME StoreInv, NEW id \in Ids, NEW target \in Targets, SavePassword(id, target)
  PROVE  /\ passwords' \in [Ids -> Targets \cup {None}]
         /\ \A i \in Ids : passwords'[i] = passwords[i] \/ savePassword
         /\ \A i \in Ids : i # id => passwords'[i] = passwords[i]
         /\ passwords[id] = None \/ savePassword => passwords'[id] \in {None, target}
<1>1. passwords \in [Ids -> Targets \cup {None}]
  BY DEF StoreInv, TypeOK
<1>2. CASE savePassword
  BY <1>1, <1>2 DEF SavePassword
<1>3. CASE ~savePassword
  BY <1>1, <1>3 DEF SavePassword
<1> QED BY <1>2, <1>3

LEMMA SaveEdited ==
  ASSUME StoreInv, NEW e, NEW target \in Targets, Edits(e), SavePassword(e, target),
         passwords[e] = None \/ savePassword,
         history' = AddFromDraft(e, target).history
  PROVE  /\ history' \in Seq(Record) /\ \A k \in DOMAIN history' : history'[k].id = seq' - k
         /\ UnusedIdsHaveNone' /\ SavedPasswordFitsRecord'
<1>1. /\ e \in Ids /\ e < seq
      /\ history' \in Seq(Record) /\ DOMAIN history' = DOMAIN history
      /\ Len(history') = Len(history)
      /\ \A k \in DOMAIN history :
           /\ history'[k].id = history[k].id
           /\ history'[k].target = IF history[k].id = e THEN target ELSE history[k].target
  BY EditedHistory
<1>2. /\ \A i \in Ids : i # e => passwords'[i] = passwords[i]
      /\ passwords'[e] \in {None, target}
  BY <1>1, Written
<1>3. seq' = seq /\ \A k \in DOMAIN history' : history'[k].id = seq' - k
  BY <1>1 DEF seq, StoreInv, TypeOK
<1>4. UnusedIdsHaveNone'
  <2>1. SUFFICES ASSUME NEW i \in Ids, i >= seq PROVE passwords'[i] = None
    BY <1>3 DEF UnusedIdsHaveNone
  <2>2. i # e
    BY <1>1, <2>1 DEF Ids, seq, StoreInv, TypeOK
  <2> QED BY <1>2, <2>1, <2>2 DEF StoreInv, UnusedIdsHaveNone
<1>5. SavedPasswordFitsRecord'
  <2>1. SUFFICES ASSUME NEW k \in DOMAIN history
                 PROVE  passwords'[history'[k].id] \in {None, history'[k].target}
    BY <1>1 DEF SavedPasswordFitsRecord
  <2>2. history[k].id \in Ids /\ passwords[history[k].id] \in {None, history[k].target}
    BY RecordFacts
  <2> QED BY <1>1, <1>2, <2>2
<1> QED BY <1>1, <1>3, <1>4, <1>5

LEMMA SaveAdded ==
  ASSUME StoreInv, NEW e, NEW target \in Targets, ~Edits(e), seq \in Ids,
         AddFromDraft(e, target).id \in Ids,
         SavePassword(seq, target), history' = AddFromDraft(e, target).history
  PROVE  /\ history' \in Seq(Record) /\ \A k \in DOMAIN history' : history'[k].id = seq' - k
         /\ UnusedIdsHaveNone' /\ SavedPasswordFitsRecord'
<1>1. /\ history' \in Seq(Record) /\ Len(history') = Len(history) + 1
      /\ history'[1] = [id |-> seq, target |-> target]
      /\ \A k \in DOMAIN history' : k # 1 => k - 1 \in DOMAIN history /\ history'[k] = history[k - 1]
  BY AddedHistory
<1>2. seq' = seq + 1 /\ seq \in Nat
  BY <1>1 DEF seq, StoreInv, TypeOK
<1>3. /\ \A i \in Ids : i # seq => passwords'[i] = passwords[i]
      /\ passwords'[seq] \in {None, target}
  <2>1. passwords[seq] = None
    BY <1>2 DEF StoreInv, UnusedIdsHaveNone
  <2> QED BY <2>1, Written
<1>4. ASSUME NEW k \in DOMAIN history', k # 1
      PROVE  /\ k - 1 \in DOMAIN history /\ history'[k] = history[k - 1] /\ k \in Int
             /\ history[k - 1].id = seq - (k - 1) /\ history[k - 1].id \in Ids
             /\ history[k - 1].id # seq
             /\ passwords[history[k - 1].id] \in {None, history[k - 1].target}
  <2>1. k - 1 \in DOMAIN history /\ history'[k] = history[k - 1]
    BY <1>1, <1>4
  <2>2. k \in Int /\ k - 1 > 0
    BY <1>1, <1>4, <2>1 DEF StoreInv, TypeOK
  <2>3. /\ history[k - 1].id = seq - (k - 1) /\ history[k - 1].id \in Ids
        /\ passwords[history[k - 1].id] \in {None, history[k - 1].target}
    BY <2>1, RecordFacts
  <2>4. seq - (k - 1) # seq
    BY <1>2, <2>2
  <2> QED BY <2>1, <2>2, <2>3, <2>4
<1>5. \A k \in DOMAIN history' : history'[k].id = seq' - k
  <2>1. TAKE k \in DOMAIN history'
  <2>2. CASE k = 1
    BY <1>1, <1>2, <2>2
  <2>3. CASE k # 1
    <3>1. history'[k].id = seq - (k - 1) /\ k \in Int
      BY <1>4, <2>3
    <3> QED BY <1>2, <3>1
  <2> QED BY <2>2, <2>3
<1>6. UnusedIdsHaveNone'
  <2>1. SUFFICES ASSUME NEW i \in Ids, i >= seq + 1 PROVE passwords'[i] = None
    BY <1>2 DEF UnusedIdsHaveNone
  <2>2. i # seq /\ i >= seq
    BY <1>2, <2>1 DEF Ids
  <2> QED BY <1>3, <2>1, <2>2 DEF StoreInv, UnusedIdsHaveNone
<1>7. SavedPasswordFitsRecord'
  <2>1. SUFFICES ASSUME NEW k \in DOMAIN history'
                 PROVE  passwords'[history'[k].id] \in {None, history'[k].target}
    BY DEF SavedPasswordFitsRecord
  <2>2. CASE k = 1
    BY <1>1, <1>3, <2>2
  <2>3. CASE k # 1
    BY <1>3, <1>4, <2>3
  <2> QED BY <2>2, <2>3
<1> QED BY <1>1, <1>5, <1>6, <1>7

LEMMA SaveAndConnectKeeps ==
  ASSUME StoreInv, NEW target \in Targets, SaveAndConnect(target) PROVE StoreInv'
<1> DEFINE e == Last(stack).editingId
           id == AddFromDraft(e, target).id
<1>1. stack # <<>> /\ Last(stack) \in Page /\ Last(stack).name = "AddHost"
      /\ Len(stack) \in DOMAIN stack /\ Last(stack) = stack[Len(stack)]
  BY Top DEF SaveAndConnect, OnTop, StoreInv, TypeOK
<1>2. id \in Ids /\ history' = AddFromDraft(e, target).history /\ SavePassword(id, target)
  BY DEF SaveAndConnect
<1>3. e \in Ids \cup {0} /\ (e # 0 => passwords[e] = None \/ savePassword)
  BY <1>1, PageKinds DEF StoreInv, FormsMaySave
<1>4. /\ passwords' \in [Ids -> Targets \cup {None}]
      /\ \A i \in Ids : passwords'[i] = passwords[i] \/ savePassword
  BY <1>2, Written
<1>5. sent' \in [to: Targets \cup {None}, with: Targets \cup {None}] /\ UNCHANGED savePassword
  BY DEF SaveAndConnect
<1>6. stack' \in Seq(Page) /\ StackShape' /\ FormsMaySave'
  <2> DEFINE p == [name |-> "Terminal"]
  <2>1. p \in Page /\ p.name \notin Roots /\ p.name # "AddHost"
    BY DEF Page, Roots
  <2>2. Push(p)
    BY DEF SaveAndConnect
  <2> HIDE DEF p
  <2> QED BY <1>4, <1>5, <2>1, <2>2, PushKeeps
<1>7. /\ history' \in Seq(Record) /\ \A k \in DOMAIN history' : history'[k].id = seq' - k
      /\ UnusedIdsHaveNone' /\ SavedPasswordFitsRecord'
  <2>1. CASE Edits(e)
    <3>1. id = e /\ e # 0
      BY <2>1, EditedHistory DEF Ids
    <3> HIDE DEF e
    <3> QED BY <1>2, <1>3, <2>1, <3>1, SaveEdited
  <2>2. CASE ~Edits(e)
    <3> HIDE DEF e
    <3>1. id = seq
      BY <1>2, <2>2, AddedHistory
    <3> QED BY <1>2, <2>2, <3>1, SaveAdded
  <2> QED BY <2>1, <2>2
<1> QED BY <1>4, <1>5, <1>6, <1>7 DEF StoreInv, TypeOK

----------------------------------------------------------------------------
(* The theorems *)

LEMMA StoreInit ==
  ASSUME Init PROVE StoreInv
<1>1. history = <<>> /\ stack = <<[name |-> "LynxHostPage"]>> /\ passwords = [i \in Ids |-> None] /\ savePassword = FALSE
      /\ sent = [to |-> None, with |-> None]
  BY DEF Init
<1>2. TypeOK
  <2>1. history \in Seq(Record) /\ stack \in Seq(Page) /\ DOMAIN history = {}
    BY <1>1 DEF Page
  <2>2. passwords \in [Ids -> Targets \cup {None}] /\ savePassword \in BOOLEAN
        /\ sent \in [to: Targets \cup {None}, with: Targets \cup {None}]
    BY <1>1
  <2> QED BY <2>1, <2>2 DEF TypeOK
<1>3. StackShape /\ FormsMaySave
  <2>1. DOMAIN stack = {1} /\ stack[1].name = "LynxHostPage"
    BY <1>1
  <2> QED BY <2>1 DEF StackShape, FormsMaySave, Roots
<1> QED BY <1>1, <1>2, <1>3
    DEF StoreInv, UnusedIdsHaveNone, SavedPasswordFitsRecord

LEMMA StoreNext ==
  ASSUME StoreInv, [Next]_vars PROVE StoreInv'
<1>1. CASE \E name \in {"HostList", "SFTPPage"} : OpenList(name)
  BY <1>1, OpenListKeeps
<1>2. CASE SetSavePassword
  BY <1>2, SetSavePasswordKeeps
<1>3. CASE AddNew
  BY <1>3, AddNewKeeps
<1>4. CASE ConnectListed
  BY <1>4, ConnectListedKeeps
<1>5. CASE Back
  BY <1>5, BackKeeps
<1>6. CASE \E target \in Targets : SaveAndConnect(target)
  BY <1>6, SaveAndConnectKeeps
<1>7. CASE UNCHANGED vars
  BY <1>7 DEF vars, StoreInv, TypeOK, StackShape, UnusedIdsHaveNone, FormsMaySave,
              SavedPasswordFitsRecord, seq
<1>8. CASE ShowIndex
  BY <1>8, ShowIndexKeeps
<1>9. CASE OpenLynxHost
  BY <1>9, OpenLynxHostKeeps
<1> QED BY <1>1, <1>2, <1>3, <1>4, <1>5, <1>6, <1>7, <1>8, <1>9 DEF Next

(* The invariant of the lists and forms: what a page of the stack may save  *)
(* belongs to the record it was opened on.                                  *)
THEOREM StoreInvCorrect == Spec => []StoreInv
<1>1. Init => StoreInv
  BY StoreInit
<1>2. StoreInv /\ [Next]_vars => StoreInv'
  BY StoreNext
<1> QED BY <1>1, <1>2, PTL DEF Spec

(* The store keeps its types, and ids are those of their places. *)
THEOREM TypeCorrect == Spec => []TypeOK
<1>1. StoreInv => TypeOK
  BY DEF StoreInv
<1> QED BY <1>1, StoreInvCorrect, PTL

(* A saved password is that of its record's target (Stores.ets:288), however *)
(* the user goes through the forms.                                          *)
THEOREM SavedPasswordFitsRecordCorrect == Spec => []SavedPasswordFitsRecord
<1>1. StoreInv => SavedPasswordFitsRecord
  BY DEF StoreInv
<1> QED BY <1>1, StoreInvCorrect, PTL

(* The saved password of an id belongs to the record that has the id. *)
LEMMA SavedForRecord ==
  ASSUME StoreInv, NEW i \in Ids, passwords[i] # None
  PROVE  [id |-> i, target |-> passwords[i]] \in ToSet(history)
<1>1. history \in Seq(Record) /\ DOMAIN history = 1..Len(history) /\ Len(history) \in Nat
  BY DEF StoreInv, TypeOK
<1>2. i < seq /\ i \in Nat /\ i >= 1 /\ seq = Len(history) + 1
  BY <1>1 DEF StoreInv, UnusedIdsHaveNone, Ids, seq
<1> DEFINE k == seq - i
<1>3. k \in DOMAIN history
  BY <1>1, <1>2
<1>4. history[k] \in Record /\ history[k].id = seq - k
      /\ passwords[history[k].id] \in {None, history[k].target}
  BY <1>1, <1>3, RecordFacts
<1>5. history[k].id = i
  BY <1>2, <1>4
<1>6. history[k] = [id |-> i, target |-> passwords[i]]
  BY <1>4, <1>5 DEF Record
<1> QED BY <1>3, <1>6 DEF ToSet

(* What a connect sends, unless a page shows a record as it was *)
LEMMA ConnectSends ==
  ASSUME StoreInv, [Next]_vars, sent' # sent, sent'.with # sent'.to
  PROVE  /\ ShowsHosts
         /\ \E item \in ToSet(Last(stack).hosts) \ ToSet(history) :
              /\ item.target = sent'.to
              /\ [id |-> item.id, target |-> sent'.with] \in ToSet(history)
<1>1. ConnectListed
  <2>1. \A target \in Targets : ~SaveAndConnect(target)
    BY DEF SaveAndConnect
  <2> QED BY <2>1
      DEF Next, vars, OpenList, ShowIndex, OpenLynxHost, SetSavePassword, AddNew, Back
<1>2. ShowsHosts
  BY <1>1 DEF ConnectListed
<1>3. PICK k \in DOMAIN Last(stack).hosts :
        Last(stack).hosts[k] \in Record /\ Connect(Last(stack).hosts[k])
  BY <1>1, Listed
<1> DEFINE item == Last(stack).hosts[k]
<1>4. item \in ToSet(Last(stack).hosts) /\ item.id \in Ids
  BY <1>3 DEF ToSet, Record
<1>5. sent' = [to |-> item.target, with |-> passwords[item.id]] /\ passwords[item.id] # None
  BY <1>3 DEF Connect
<1>6. item \notin ToSet(history)
  BY <1>5 DEF ToSet, StoreInv, SavedPasswordFitsRecord
<1>7. [id |-> item.id, target |-> sent'.with] \in ToSet(history)
  BY <1>4, <1>5, SavedForRecord
<1> QED BY <1>2, <1>4, <1>5, <1>6, <1>7

(* A password goes to another target than its own only from the stale copy   *)
(* of a record that HistoryPage, HostList or SFTPPage keeps, and then it is   *)
(* the one of the record as it is now (HistoryPage.ets:52, HostList.ets:40).  *)
THEOREM OnlyStaleCopyMisdirectsCorrect == Spec => OnlyStaleCopyMisdirects
<1>1. StoreInv /\ [Next]_vars
        => [ sent' # sent /\ sent'.with # sent'.to =>
               /\ ShowsHosts
               /\ \E item \in ToSet(Last(stack).hosts) \ ToSet(history) :
                    /\ item.target = sent'.to
                    /\ [id |-> item.id, target |-> sent'.with] \in ToSet(history) ]_vars
  BY ConnectSends
<1> QED BY <1>1, StoreInvCorrect, PTL DEF Spec, OnlyStaleCopyMisdirects
=============================================================================
