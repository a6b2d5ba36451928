-------------------------- MODULE ConnectionStore --------------------------
(***************************************************************************)
(* The hosts and saved passwords of ets/common/Stores.ets with the pages   *)
(* that use them: Index with its tabs (HistoryPage, SSHNewPage,            *)
(* SettingsPage), the host list, the form for a host, the SFTP page and    *)
(* the terminal, on the stack of the router.  A page below the top keeps   *)
(* its state, and its aboutToAppear does not run again when it comes back. *)
(*                                                                         *)
(* A target is host, port and user; a password is the target the user      *)
(* typed it for.  currentDraft is read by the page pushed together with it.*)
(***************************************************************************)
EXTENDS Integers, Sequences, SequencesExt

CONSTANTS
  Targets, None,
  MaxRecords,    \* bound on the records
  MaxIndexes     \* bound on the Index pages on the stack

ASSUME StoreAssumption == {MaxRecords, MaxIndexes} \subseteq Nat /\ None \notin Targets

VARIABLES
  history,        \* the records, the newest first
  passwords,      \* by id
  savePassword,   \* the setting
  stack,          \* the pages of the router, the top last
  sent            \* the last connect: to what target, and with what password

vars == <<history, passwords, savePassword, stack, sent>>

Ids == 1..MaxRecords

Record == [id: Ids, target: Targets]

(* hosts: the records a page took in aboutToAppear, and shows.  editingId 0: *)
(* the form is for a new host.                                              *)
Page ==
  [name: {"Index", "HostList", "SFTPPage"}, hosts: Seq(Record)]
    \cup [name: {"AddHost"}, editingId: Ids \cup {0}]
    \cup [name: {"Terminal", "LynxHostPage"}]

seq == Len(history) + 1

TypeOK ==
  /\ history \in Seq(Record)
  /\ \A k \in DOMAIN history : history[k].id = seq - k
  /\ passwords \in [Ids -> Targets \cup {None}]
  /\ savePassword \in BOOLEAN
  /\ stack \in Seq(Page)
  /\ sent \in [to: Targets \cup {None}, with: Targets \cup {None}]

Init ==
  /\ history = <<>>
  /\ passwords = [i \in Ids |-> None]
  /\ savePassword = FALSE
  /\ stack = <<[name |-> "LynxHostPage"]>>
  /\ sent = [to |-> None, with |-> None]

----------------------------------------------------------------------------

Push(page) == stack' = Append(stack, page)

OnTop(name) == stack # <<>> /\ Last(stack).name = name

(* ConnectionStore.list().slice(0, 3) *)
Recent == SubSeq(history, 1, IF Len(history) < 3 THEN Len(history) ELSE 3)

(* The button of LynxHostPage, which the app starts with: Index takes its   *)
(* place.  HistoryPage, its first tab, takes the three newest records.      *)
ShowIndex ==
  /\ OnTop("LynxHostPage")
  /\ stack' = Append(Front(stack), [name |-> "Index", hosts |-> Recent])
  /\ UNCHANGED <<history, passwords, savePassword, sent>>

(* HistoryPage leads to the host list, SSHNewPage to the SFTP page. *)
OpenList(name) ==
  /\ OnTop("Index")
  /\ Push([name |-> name, hosts |-> history])
  /\ UNCHANGED <<history, passwords, savePassword, sent>>

(* SettingsPage.  What is below an Index are Index pages too. *)
OpenLynxHost ==
  /\ OnTop("Index") /\ Len(stack) < MaxIndexes
  /\ Push([name |-> "LynxHostPage"])
  /\ UNCHANGED <<history, passwords, savePassword, sent>>

SetSavePassword ==
  /\ OnTop("Index")
  /\ savePassword' = ~savePassword
  /\ UNCHANGED <<history, passwords, stack, sent>>

(* 'Add host' and the quick command of SSHNewPage; 'Add host' of an empty *)
(* host list                                                              *)
AddNew ==
  /\ OnTop("Index") \/ (OnTop("HostList") /\ Last(stack).hosts = <<>>)
  /\ Push([name |-> "AddHost", editingId |-> 0])
  /\ UNCHANGED <<history, passwords, savePassword, sent>>

(* connect of HistoryPage, HostList and SFTPPage: the record is the one the *)
(* page took when it appeared, the password the one its id has now.         *)
Connect(item) ==
  LET password == passwords[item.id] IN
    /\ IF password = None
       THEN Push([name |-> "AddHost", editingId |-> item.id]) /\ UNCHANGED sent
       ELSE /\ sent' = [to |-> item.target, with |-> password]
            /\ IF OnTop("SFTPPage") THEN UNCHANGED stack ELSE Push([name |-> "Terminal"])
    /\ UNCHANGED <<history, passwords, savePassword>>

ShowsHosts == OnTop("Index") \/ OnTop("HostList") \/ OnTop("SFTPPage")

ConnectListed ==
  /\ ShowsHosts
  /\ \E k \in DOMAIN Last(stack).hosts : Connect(Last(stack).hosts[k])

AddFromDraft_alwaysNew(editingId, target) ==
  [id |-> IF editingId = 0 THEN seq ELSE editingId,
   history |-> <<[id |-> IF editingId = 0 THEN seq ELSE editingId, target |-> target]>> \o history]

(* addFromDraft, with the id of the record it returns *)
AddFromDraft(editingId, target) ==
  IF \E k \in DOMAIN history : history[k].id = editingId
  THEN [id |-> editingId,
        history |-> [k \in DOMAIN history |->
                      IF history[k].id = editingId THEN [history[k] EXCEPT !.target = target]
                      ELSE history[k]]]
  ELSE [id |-> seq, history |-> <<[id |-> seq, target |-> target]>> \o history]

SavePassword_firstOnly(id, target) ==
  passwords' = IF savePassword /\ passwords[id] = None
               THEN [passwords EXCEPT ![id] = target] ELSE passwords

SavePassword(id, target) ==
  passwords' = IF savePassword THEN [passwords EXCEPT ![id] = target] ELSE passwords

(* saveAndConnect of the form, with what the user has made of its fields *)
SaveAndConnect(target) ==
  /\ OnTop("AddHost")
  /\ LET added == AddFromDraft(Last(stack).editingId, target)
     IN /\ added.id \in Ids
        /\ history' = added.history
        /\ SavePassword(added.id, target)
  /\ Push([name |-> "Terminal"])
  /\ sent' = [to |-> target, with |-> target]
  /\ UNCHANGED savePassword

(* Back from the first page leaves the app. *)
Back ==
  /\ Len(stack) > 1
  /\ stack' = Front(stack)
  /\ UNCHANGED <<history, passwords, savePassword, sent>>

Next ==
  \/ \E name \in {"HostList", "SFTPPage"} : OpenList(name)
  \/ ShowIndex \/ OpenLynxHost \/ SetSavePassword \/ AddNew \/ ConnectListed \/ Back
  \/ \E target \in Targets : SaveAndConnect(target)

Spec == Init /\ [][Next]_vars

----------------------------------------------------------------------------
(* Properties *)

(* A record that was given another host or user does not keep the password  *)
(* of the old one: the form of a record with a saved password is reached    *)
(* only from the form that saved it, and the setting is out of reach there. *)
SavedPasswordFitsRecord ==
  \A k \in DOMAIN history : passwords[history[k].id] \in {None, history[k].target}

(* A connect sends the password of another target only for a copy of a       *)
(* record that was changed since: a page with copies (HistoryPage.ets:22,    *)
(* HostList.ets:18, SFTPPage.ets:33) is on top, the tapped copy is not a     *)
(* record any more, and the password is that of the record it has become.    *)
OnlyStaleCopyMisdirects ==
  [][ sent' # sent /\ sent'.with # sent'.to =>
        /\ ShowsHosts
        /\ \E item \in ToSet(Last(stack).hosts) \ ToSet(history) :
             /\ item.target = sent'.to
             /\ [id |-> item.id, target |-> sent'.with] \in ToSet(history) ]_vars
=============================================================================
