------------------------------- MODULE SftpProofs -------------------------------
(***************************************************************************)
(* The session of the SFTP page and what the page shows of it, for any     *)
(* number of sessions, connects and attempts; then the path, for any names *)
(* of directories.                                                         *)
(***************************************************************************)
EXTENDS SftpPage, FiniteSetTheorems, SequenceTheorems, TLAPS

----------------------------------------------------------------------------
(* The invariant *)

PageWith(path, files) ==
  [disposed: BOOLEAN, connectToken: Nat, connecting: BOOLEAN, connected: BOOLEAN,
   sessionId: Ids \cup {None}, keepalive: BOOLEAN, failures: Nat,
   currentPath: {path}, files: {files}]

Shaped(r) == r \in PageWith(r.currentPath, r.files)

ScreenOK(r) ==
  /\ r.connected <=> r.sessionId # None
  /\ r.keepalive <=> r.connected
  /\ r.connected => r.files = [session |-> r.sessionId, path |-> r.currentPath]
  /\ r.connecting => ~r.connected /\ r.files = NoFiles
  /\ r.disposed => ~r.connected

Tokens == 1..MaxConnects

ServiceOK ==
  /\ opening \in [Tokens -> Ids \cup {"none", "running", "failed"}]
  /\ attempts \in Nat
  /\ status \in [Ids -> {"fresh", "open", "closed"}] /\ user = None

HeldOnce ==
  \A i \in Ids :
    /\ Live(i) <=> page.sessionId = i \/ \E t \in Tokens : opening[t] = i
    /\ page.sessionId = i => \A t \in Tokens : opening[t] # i
    /\ \A s, t \in Tokens : opening[s] = i /\ opening[t] = i => s = t

(* A token the page has not reached has no connect, and while the connect of *)
(* the current token is under way the page has no session.                   *)
TokensOK(r) ==
  \A t \in Tokens :
    /\ t > r.connectToken => opening[t] = "none"
    /\ t = r.connectToken /\ opening[t] # "none" => r.sessionId = None

SftpInv == Shaped(page) /\ ScreenOK(page) /\ ServiceOK /\ HeldOnce /\ TokensOK(page)

----------------------------------------------------------------------------
(* The methods of the page *)

LEMMA NoneIsNoId ==
  /\ None \notin Ids /\ "none" \notin Ids /\ "running" \notin Ids /\ "failed" \notin Ids
  /\ MaxConnects \in Nat /\ MaxAttempts \in Nat
BY SftpAssumption

LEMMA CloseCurrentFields ==
  ASSUME NEW r, Shaped(r)
  PROVE  LET s == CloseCurrent(r)
         IN  /\ Shaped(s) /\ s.sessionId = None /\ ~s.connected /\ ~s.connecting /\ ~s.keepalive
             /\ s.disposed = r.disposed /\ s.connectToken = r.connectToken
             /\ s.currentPath = r.currentPath /\ s.files = r.files
BY DEF CloseCurrent, StopKeepalive, Shaped, PageWith

LEMMA ClosedScreen ==
  ASSUME NEW r, r.sessionId = None, ~r.connected, ~r.connecting, ~r.keepalive
  PROVE  ScreenOK(r)
BY DEF ScreenOK

LEMMA ListFilesFields ==
  ASSUME NEW r, Shaped(r), NEW path
  PROVE  LET s == ListFiles(r, path)
         IN  /\ Shaped(s) /\ s.sessionId = r.sessionId /\ s.connected = r.connected
             /\ s.connecting = r.connecting /\ s.keepalive = r.keepalive
             /\ s.disposed = r.disposed /\ s.connectToken = r.connectToken
             /\ s.sessionId # None => s.files = [session |-> s.sessionId, path |-> s.currentPath]
<1>1. CASE r.sessionId = None
  BY <1>1 DEF ListFiles
<1>2. CASE r.sessionId # None
  <2> DEFINE s == [r EXCEPT !.currentPath = path, !.files = [session |-> r.sessionId, path |-> path]]
  <2>1. PICK f : f = [session |-> r.sessionId, path |-> path]
    OBVIOUS
  <2>2. s = [r EXCEPT !.currentPath = path, !.files = f]
    BY <2>1
  <2>3. /\ Shaped(s) /\ s.sessionId = r.sessionId /\ s.connected = r.connected
        /\ s.connecting = r.connecting /\ s.keepalive = r.keepalive
        /\ s.disposed = r.disposed /\ s.connectToken = r.connectToken
        /\ s.files = f /\ s.currentPath = path
    BY <2>2 DEF Shaped, PageWith
  <2>4. ListFiles(r, path) = s
    BY <1>2 DEF ListFiles
  <2> HIDE DEF s
  <2> QED BY <2>1, <2>3, <2>4
<1> QED BY <1>1, <1>2

LEMMA ConnectedFields ==
  ASSUME NEW r, Shaped(r), NEW i \in Ids, ~r.disposed
  PROVE  LET s == Connected(r, i)
         IN  /\ Shaped(s) /\ ScreenOK(s) /\ s.sessionId = i
             /\ s.disposed = r.disposed /\ s.connectToken = r.connectToken
<1> DEFINE a == [r EXCEPT !.connecting = FALSE, !.sessionId = i, !.connected = TRUE]
           b == StartKeepalive(a)
           s == ListFiles(b, RootPath)
<1>1. /\ Shaped(a) /\ a.sessionId = i /\ a.connected /\ ~a.connecting
      /\ a.disposed = r.disposed /\ a.connectToken = r.connectToken
  BY DEF Shaped, PageWith
<1> HIDE DEF a
<1>2. /\ Shaped(b) /\ b.sessionId = i /\ b.connected /\ ~b.connecting /\ b.keepalive
      /\ b.disposed = r.disposed /\ b.connectToken = r.connectToken
  BY <1>1 DEF Shaped, PageWith, StartKeepalive, StopKeepalive
<1> HIDE DEF b
<1>3. /\ Shaped(s) /\ s.sessionId = i /\ s.connected /\ ~s.connecting /\ s.keepalive
      /\ s.disposed = r.disposed /\ s.connectToken = r.connectToken
      /\ s.sessionId # None => s.files = [session |-> s.sessionId, path |-> s.currentPath]
  BY <1>2, ListFilesFields
<1>4. Connected(r, i) = s
  BY DEF Connected, a, b
<1> HIDE DEF s
<1>5. ScreenOK(s)
  BY <1>3, NoneIsNoId DEF ScreenOK
<1> QED BY <1>3, <1>4, <1>5

----------------------------------------------------------------------------
(* Who holds which session *)

(* The page gives up its session, and no connect changes what it has. *)
LEMMA PageLoses ==
  ASSUME HeldOnce, ServiceOK, CloseSession(page.sessionId), page.sessionId \in Ids \cup {None},
         page'.sessionId = None,
         \A t \in Tokens, i \in Ids : opening'[t] = i <=> opening[t] = i
  PROVE  /\ HeldOnce'
         /\ status' \in [Ids -> {"fresh", "open", "closed"}] /\ user' = None
<1>1. /\ status' \in [Ids -> {"fresh", "open", "closed"}] /\ user' = None
      /\ \A i \in Ids : Live(i)' <=> Live(i) /\ i # page.sessionId
  <2>1. CASE page.sessionId = None
    BY <2>1, NoneIsNoId DEF CloseSession, Live, ServiceOK
  <2>2. CASE page.sessionId \in Ids
    BY <2>2 DEF CloseSession, Close, Live, ServiceOK, HeldOnce
  <2> QED BY <2>1, <2>2
<1>2. \A i \in Ids : page'.sessionId # i
  BY NoneIsNoId
<1> QED BY <1>1, <1>2 DEF HeldOnce

(* Neither the sessions nor who holds them change. *)
LEMMA NobodyLoses ==
  ASSUME HeldOnce, ServiceOK, UNCHANGED <<status, user>>, page'.sessionId = page.sessionId,
         \A t \in Tokens, i \in Ids : opening'[t] = i <=> opening[t] = i
  PROVE  /\ HeldOnce'
         /\ status' \in [Ids -> {"fresh", "open", "closed"}] /\ user' = None
BY DEF HeldOnce, ServiceOK, Live

LEMMA PageTypes ==
  ASSUME SftpInv
  PROVE  /\ page.sessionId \in Ids \cup {None} /\ page.connectToken \in Nat
         /\ page.disposed \in BOOLEAN /\ Shaped(page) /\ ScreenOK(page) /\ ServiceOK
         /\ HeldOnce /\ TokensOK(page)
BY DEF SftpInv, Shaped, PageWith

----------------------------------------------------------------------------
(* One lemma per action *)

LEMMA ConnectKeeps ==
  ASSUME SftpInv, NEW token \in Tokens, Connect(token) PROVE SftpInv'
<1> DEFINE r == CloseCurrent(page)
<1>1. /\ ~page.disposed /\ ~page.connected /\ token = page.connectToken + 1
      /\ CloseSession(page.sessionId) /\ UNCHANGED attempts
      /\ opening' = [opening EXCEPT ![token] = "running"]
      /\ page' = [r EXCEPT !.connectToken = token, !.connecting = TRUE,
                           !.currentPath = RootPath, !.files = NoFiles]
  BY DEF Connect
<1>2. /\ Shaped(r) /\ r.sessionId = None /\ ~r.connected /\ ~r.keepalive
      /\ r.disposed = page.disposed
  BY PageTypes, CloseCurrentFields
<1> HIDE DEF r
<1>3. token \in Nat
  BY DEF Tokens
<1>4. PICK root, none : root = RootPath /\ none = NoFiles
  OBVIOUS
<1>5. /\ Shaped(page') /\ page'.connectToken = token /\ page'.connecting
      /\ page'.sessionId = None /\ ~page'.connected /\ ~page'.keepalive
      /\ page'.files = none /\ ~page'.disposed
  BY <1>1, <1>2, <1>3, <1>4 DEF Shaped, PageWith
<1>6. ScreenOK(page')
  BY <1>4, <1>5 DEF ScreenOK
<1>7. opening[token] = "none"
  BY <1>1, <1>3, PageTypes DEF TokensOK
<1>8. /\ opening'[token] = "running" /\ \A t \in Tokens \ {token} : opening'[t] = opening[t]
      /\ opening' \in [Tokens -> Ids \cup {"none", "running", "failed"}]
  BY <1>1, PageTypes DEF ServiceOK
<1>9. \A t \in Tokens, i \in Ids : opening'[t] = i <=> opening[t] = i
  BY <1>7, <1>8, NoneIsNoId
<1>10. HeldOnce' /\ ServiceOK'
  BY <1>1, <1>5, <1>8, <1>9, PageTypes, PageLoses DEF ServiceOK
<1>11. \A t \in Tokens : t \in Nat
  BY DEF Tokens
<1>12. TokensOK(page)'
  BY <1>1, <1>3, <1>5, <1>8, <1>11, PageTypes DEF TokensOK
<1> QED BY <1>5, <1>6, <1>10, <1>12 DEF SftpInv, TokensOK

LEMMA OpenEndsKeeps ==
  ASSUME SftpInv, NEW token \in Tokens, OpenEnds(token) PROVE SftpInv'
<1>1. opening[token] = "running" /\ UNCHANGED <<page, attempts>>
  BY DEF OpenEnds
<1>2. \A i \in Ids : opening[token] # i
  BY <1>1, NoneIsNoId
<1>3. PICK x \in Ids \cup {"failed"} :
        /\ opening' = [opening EXCEPT ![token] = x]
        /\ IF x \in Ids THEN Open(x) ELSE UNCHANGED <<status, user>>
  BY NoneIsNoId DEF OpenEnds
<1>4. /\ opening'[token] = x /\ \A t \in Tokens \ {token} : opening'[t] = opening[t]
      /\ opening' \in [Tokens -> Ids \cup {"none", "running", "failed"}]
  BY <1>3, PageTypes DEF ServiceOK
<1>5. HeldOnce' /\ ServiceOK'
  <2>1. CASE x \in Ids
    <3>1. /\ status' \in [Ids -> {"fresh", "open", "closed"}] /\ user' = None
          /\ ~Live(x) /\ \A i \in Ids : Live(i)' <=> Live(i) \/ i = x
      BY <1>3, <2>1, PageTypes DEF Open, Live, ServiceOK
    <3>2. page.sessionId # x /\ \A t \in Tokens : opening[t] # x
      BY <2>1, <3>1, PageTypes DEF HeldOnce
    <3>3. HeldOnce'
      BY <1>1, <1>2, <1>4, <3>1, <3>2, PageTypes DEF HeldOnce
    <3> QED BY <1>1, <1>4, <3>1, <3>3, PageTypes DEF ServiceOK
  <2>2. CASE x = "failed"
    <3>1. \A t \in Tokens, i \in Ids : opening'[t] = i <=> opening[t] = i
      BY <1>2, <1>4, <2>2, NoneIsNoId
    <3> QED BY <1>1, <1>3, <1>4, <2>2, <3>1, NoneIsNoId, PageTypes, NobodyLoses DEF ServiceOK
  <2> QED BY <2>1, <2>2
<1>6. TokensOK(page)'
  BY <1>1, <1>4, PageTypes DEF TokensOK
<1> QED BY <1>1, <1>5, <1>6, PageTypes DEF SftpInv, Shaped, ScreenOK

(* A connect that is looked at: its session goes to the page, which has none, *)
(* or is closed.                                                             *)
LEMMA ResumeKeeps ==
  ASSUME SftpInv, NEW token \in Tokens, Resume(token) PROVE SftpInv'
<1>1. PICK i : i = IF opening[token] = "failed" THEN None ELSE opening[token]
  OBVIOUS
<1>2. /\ opening[token] \in Ids \cup {"failed"} /\ UNCHANGED attempts
      /\ opening' = [opening EXCEPT ![token] = "none"]
      /\ IF Outdated(token) THEN CloseSession(i) /\ UNCHANGED page
         ELSE /\ page' = IF i = None THEN [page EXCEPT !.connecting = FALSE] ELSE Connected(page, i)
              /\ UNCHANGED <<status, user>>
  BY <1>1 DEF Resume
<1>3. i \in Ids \cup {None} /\ opening[token] # "none" /\ (\A k \in Ids : opening[token] = k <=> k = i)
  BY <1>1, <1>2, NoneIsNoId
<1>4. /\ opening'[token] = "none" /\ \A t \in Tokens \ {token} : opening'[t] = opening[t]
      /\ opening' \in [Tokens -> Ids \cup {"none", "running", "failed"}]
  BY <1>2, PageTypes DEF ServiceOK
<1>5. \A k \in Ids : opening'[token] # k
  BY <1>4, NoneIsNoId
<1>6. CASE Outdated(token)
  <2>1. UNCHANGED page /\ CloseSession(i)
    BY <1>2, <1>6
  <2>2. /\ status' \in [Ids -> {"fresh", "open", "closed"}] /\ user' = None
        /\ \A k \in Ids : Live(k)' <=> Live(k) /\ k # i
    <3>1. CASE i = None
      BY <2>1, <3>1, NoneIsNoId, PageTypes DEF CloseSession, Live, ServiceOK
    <3>2. CASE i \in Ids
      <4>1. Live(i)
        BY <1>3, <3>2, PageTypes DEF HeldOnce
      <4> QED BY <2>1, <3>2, <4>1, PageTypes DEF CloseSession, Close, Live, ServiceOK
    <3> QED BY <1>3, <3>1, <3>2
  <2>3. HeldOnce'
    BY <1>3, <1>4, <1>5, <2>1, <2>2, PageTypes DEF HeldOnce
  <2>4. ServiceOK'
    BY <1>2, <1>4, <2>2, PageTypes DEF ServiceOK
  <2>5. TokensOK(page)'
    BY <1>4, <2>1, PageTypes DEF TokensOK
  <2> QED BY <2>1, <2>3, <2>4, <2>5, PageTypes DEF SftpInv, Shaped, ScreenOK
<1>7. CASE ~Outdated(token)
  <2>1. /\ ~page.disposed /\ token = page.connectToken /\ page.sessionId = None
        /\ UNCHANGED <<status, user>>
        /\ page' = IF i = None THEN [page EXCEPT !.connecting = FALSE] ELSE Connected(page, i)
    BY <1>2, <1>3, <1>7, PageTypes DEF Outdated, TokensOK
  <2>2. /\ Shaped(page') /\ ScreenOK(page') /\ page'.sessionId = i
        /\ page'.connectToken = page.connectToken
    <3>1. CASE i = None
      <4>1. page' = [page EXCEPT !.connecting = FALSE]
        BY <2>1, <3>1
      <4>2. /\ Shaped(page') /\ ~page'.connecting /\ page'.sessionId = None
            /\ page'.connected = page.connected /\ page'.keepalive = page.keepalive
            /\ page'.connectToken = page.connectToken
        BY <2>1, <4>1, PageTypes DEF Shaped, PageWith
      <4>3. ~page'.connected /\ ~page'.keepalive
        BY <2>1, <4>2, PageTypes DEF ScreenOK
      <4> QED BY <3>1, <4>2, <4>3, ClosedScreen
    <3>2. CASE i \in Ids
      <4>1. page' = Connected(page, i)
        BY <2>1, <3>2, NoneIsNoId
      <4>2. Shaped(page) /\ ~page.disposed
        BY <2>1, PageTypes
      <4> DEFINE s == Connected(page, i)
      <4>3. Shaped(s) /\ ScreenOK(s) /\ s.sessionId = i /\ s.connectToken = page.connectToken
        BY <3>2, <4>2, ConnectedFields
      <4> HIDE DEF s
      <4>4. page' = s
        BY <4>1 DEF s
      <4> QED BY <4>3, <4>4
    <3> QED BY <1>3, <3>1, <3>2
  <2>3. \A k \in Ids : page.sessionId # k
    BY <2>1, NoneIsNoId
  <2>4. HeldOnce'
    BY <1>3, <1>4, <1>5, <2>1, <2>2, <2>3, PageTypes DEF HeldOnce, Live
  <2>5. ServiceOK'
    BY <1>2, <1>4, <2>1, PageTypes DEF ServiceOK
  <2>6. \A t \in Tokens : /\ t > page'.connectToken => opening'[t] = "none"
                          /\ t = page'.connectToken => opening'[t] = "none"
    BY <1>4, <2>1, <2>2, PageTypes DEF TokensOK
  <2> QED BY <2>2, <2>4, <2>5, <2>6 DEF SftpInv, TokensOK
<1> QED BY <1>6, <1>7

LEMMA NavigateKeeps ==
  ASSUME SftpInv, NEW path, Navigate(path) PROVE SftpInv'
<1> DEFINE s == ListFiles(page, path)
<1>1. page' = s /\ page.connected /\ UNCHANGED <<opening, attempts, status, user>>
  BY DEF Navigate, service
<1>2. /\ Shaped(s) /\ s.sessionId = page.sessionId /\ s.connected = page.connected
      /\ s.connecting = page.connecting /\ s.keepalive = page.keepalive
      /\ s.disposed = page.disposed /\ s.connectToken = page.connectToken
      /\ s.sessionId # None => s.files = [session |-> s.sessionId, path |-> s.currentPath]
  BY PageTypes, ListFilesFields
<1> HIDE DEF s
<1>3. ScreenOK(s)
  BY <1>1, <1>2, PageTypes DEF ScreenOK
<1>4. HeldOnce' /\ ServiceOK'
  BY <1>1, <1>2, PageTypes, NobodyLoses DEF ServiceOK
<1>5. TokensOK(page)'
  BY <1>1, <1>2, PageTypes DEF TokensOK
<1> QED BY <1>1, <1>2, <1>3, <1>4, <1>5 DEF SftpInv

LEMMA FailureFields ==
  ASSUME NEW r, Shaped(r), NEW n \in Nat
  PROVE  LET s == [r EXCEPT !.failures = n]
         IN  /\ Shaped(s) /\ s.sessionId = r.sessionId /\ s.connected = r.connected
             /\ s.connecting = r.connecting /\ s.keepalive = r.keepalive
             /\ s.disposed = r.disposed /\ s.connectToken = r.connectToken
             /\ s.files = r.files /\ s.currentPath = r.currentPath /\ s.failures = n
BY DEF Shaped, PageWith

(* Only the count of failures changes. *)
LEMMA FailureKeeps ==
  ASSUME SftpInv, NEW n \in Nat, page' = [page EXCEPT !.failures = n],
         UNCHANGED <<opening, attempts, status, user>>
  PROVE  SftpInv'
<1> DEFINE s == [page EXCEPT !.failures = n]
<1>1. /\ Shaped(s) /\ s.sessionId = page.sessionId /\ s.connected = page.connected
      /\ s.connecting = page.connecting /\ s.keepalive = page.keepalive
      /\ s.disposed = page.disposed /\ s.connectToken = page.connectToken
      /\ s.files = page.files /\ s.currentPath = page.currentPath
  BY PageTypes, FailureFields
<1>2. page' = s
  OBVIOUS
<1> HIDE DEF s
<1>3. ScreenOK(s)
  BY <1>1, PageTypes DEF ScreenOK
<1>4. HeldOnce' /\ ServiceOK'
  BY <1>1, <1>2, PageTypes, NobodyLoses DEF ServiceOK
<1>5. TokensOK(page)'
  BY <1>1, <1>2, PageTypes DEF TokensOK
<1> QED BY <1>1, <1>2, <1>3, <1>4, <1>5 DEF SftpInv

(* The page gives up its session, if it has one. *)
LEMMA ClosedKeeps ==
  ASSUME SftpInv, NEW r, page' = r, Shaped(r), r.sessionId = None,
         ~r.connected, ~r.connecting, ~r.keepalive, r.connectToken >= page.connectToken,
         r.connectToken \in Nat, CloseSession(page.sessionId), UNCHANGED <<opening, attempts>>
  PROVE  SftpInv'
<1>1. ScreenOK(r)
  BY ClosedScreen
<1>2. HeldOnce' /\ ServiceOK'
  BY PageTypes, PageLoses DEF ServiceOK
<1>3. \A t \in Tokens : t \in Nat
  BY DEF Tokens
<1>4. TokensOK(page)'
  BY <1>3, PageTypes DEF TokensOK
<1> QED BY <1>1, <1>2, <1>4 DEF SftpInv

LEMMA KeepaliveKeeps ==
  ASSUME SftpInv, KeepaliveTick PROVE SftpInv'
<1>1. CASE KeepaliveSucceeds
  BY <1>1, FailureKeeps DEF KeepaliveSucceeds
<1>2. CASE KeepaliveFails
  <2>1. PICK n \in Nat : n = page.failures + 1
    BY PageTypes DEF Shaped, PageWith
  <2> DEFINE r == [page EXCEPT !.failures = n]
             s == CloseCurrent(r)
  <2>2. /\ UNCHANGED <<opening, attempts>>
        /\ \/ page' = s /\ CloseSession(page.sessionId)
           \/ page' = r /\ UNCHANGED <<status, user>>
    BY <1>2, <2>1 DEF KeepaliveFails, CountFailure
  <2>3. CASE page' = r /\ UNCHANGED <<status, user>>
    BY <2>2, <2>3, FailureKeeps
  <2>4. CASE page' = s /\ CloseSession(page.sessionId)
    <3>1. Shaped(r) /\ r.connectToken = page.connectToken
      BY PageTypes, FailureFields
    <3> HIDE DEF r
    <3>2. /\ Shaped(s) /\ s.sessionId = None /\ ~s.connected /\ ~s.connecting /\ ~s.keepalive
          /\ s.connectToken = page.connectToken
      BY <3>1, CloseCurrentFields
    <3> HIDE DEF s
    <3> QED BY <2>2, <2>4, <3>2, PageTypes, ClosedKeeps
  <2> QED BY <2>2, <2>3, <2>4
<1> QED BY <1>1, <1>2 DEF KeepaliveTick

LEMMA DisappearKeeps ==
  ASSUME SftpInv, AboutToDisappear PROVE SftpInv'
<1> DEFINE r == CloseCurrent(page)
<1>1. /\ Shaped(r) /\ r.sessionId = None /\ ~r.connected /\ ~r.connecting /\ ~r.keepalive
      /\ r.connectToken = page.connectToken
  BY PageTypes, CloseCurrentFields
<1>2. PICK n \in Nat : n = r.connectToken + 1
  BY <1>1, PageTypes
<1>3. page' = [r EXCEPT !.disposed = TRUE, !.connectToken = n]
  BY <1>2 DEF AboutToDisappear
<1>4. CloseSession(page.sessionId) /\ UNCHANGED <<opening, attempts>>
  BY DEF AboutToDisappear
<1> HIDE DEF r
<1> DEFINE s == [r EXCEPT !.disposed = TRUE, !.connectToken = n]
<1>5. /\ Shaped(s) /\ s.sessionId = None /\ ~s.connected /\ ~s.connecting /\ ~s.keepalive
      /\ s.connectToken = n
  BY <1>1 DEF Shaped, PageWith
<1>6. page' = s
  BY <1>3
<1> HIDE DEF s
<1> QED BY <1>1, <1>2, <1>4, <1>5, <1>6, PageTypes, ClosedKeeps

LEMMA NothingKeeps ==
  ASSUME SftpInv, UNCHANGED <<page, opening, attempts, status, user>> PROVE SftpInv'
<1>1. HeldOnce' /\ ServiceOK' /\ TokensOK(page)'
  BY PageTypes DEF HeldOnce, Live, ServiceOK, TokensOK
<1> QED BY <1>1, PageTypes DEF SftpInv

LEMMA InitEstablishes ==
  ASSUME Init PROVE SftpInv
<1>1. PICK root, none : root = RootPath /\ none = NoFiles
  OBVIOUS
<1>2. /\ page = [disposed |-> FALSE, connectToken |-> 0, connecting |-> FALSE, connected |-> FALSE,
                 sessionId |-> None, keepalive |-> FALSE, failures |-> 0,
                 currentPath |-> root, files |-> none]
      /\ opening = [t \in Tokens |-> "none"] /\ attempts \in 1..MaxAttempts
      /\ status = [i \in Ids |-> "fresh"] /\ user = None
  BY <1>1 DEF Init, ServiceInit, TableInit, Tokens
<1>3. Shaped(page) /\ ScreenOK(page)
  BY <1>2 DEF Shaped, PageWith, ScreenOK
<1>4. ServiceOK
  BY <1>2, NoneIsNoId DEF ServiceOK
<1>5. page.sessionId = None /\ \A t \in Tokens : opening[t] = "none"
  BY <1>2
<1>6. \A i \in Ids : ~Live(i)
  BY <1>2 DEF Live
<1>7. HeldOnce
  BY <1>5, <1>6, NoneIsNoId DEF HeldOnce
<1>8. TokensOK(page)
  BY <1>5 DEF TokensOK
<1> QED BY <1>3, <1>4, <1>7, <1>8 DEF SftpInv

LEMMA NextKeeps ==
  ASSUME SftpInv, [Next]_vars PROVE SftpInv'
<1>1. ASSUME NEW token \in 1..MaxConnects, Connect(token) \/ OpenEnds(token) \/ Resume(token)
      PROVE  SftpInv'
  BY <1>1, ConnectKeeps, OpenEndsKeeps, ResumeKeeps DEF Tokens
<1>2. CASE (\E name \in DirNames : GoDown(name)) \/ GoUp
  BY <1>2, NavigateKeeps DEF GoDown, GoUp
<1>3. CASE KeepaliveTick \/ AboutToDisappear
  BY <1>3, KeepaliveKeeps, DisappearKeeps
<1>4. CASE \E i \in Ids : Server(i)
  BY <1>4, NothingKeeps DEF Server, ServerGone
<1>5. CASE UNCHANGED vars
  BY <1>5, NothingKeeps DEF vars
<1> QED BY <1>1, <1>2, <1>3, <1>4, <1>5 DEF Next

----------------------------------------------------------------------------
(* Sequences put together *)

LEMMA LeastNat ==
  ASSUME NEW T \in SUBSET Nat, T # {}
  PROVE  \E x \in T : \A y \in T : x <= y
<1> DEFINE below == {T \cap (0..x) : x \in T}
<1>1. below \subseteq FiniteSubsetsOf(Nat)
  <2>1. ASSUME NEW x \in T PROVE IsFiniteSet(T \cap (0..x))
    <3>1. x \in Nat /\ \A s \in T \cap (0..x) : s <= x
      OBVIOUS
    <3>2. T \cap (0..x) \in SUBSET Nat
      OBVIOUS
    <3> QED BY <3>1, <3>2, FS_BoundedSetOfNaturals
  <2> QED BY <2>1 DEF FiniteSubsetsOf
<1>2. below # {}
  OBVIOUS
<1>3. PICK U \in below : \A V \in below : ~(<<V, U>> \in StrictSubsetOrdering(Nat))
  BY <1>1, <1>2, FS_StrictSubsetOrderingWellFounded, WFMin
<1>4. PICK x \in T : U = T \cap (0..x)
  BY <1>3
<1>5. ASSUME NEW y \in T, y < x PROVE FALSE
  <2>1. T \cap (0..y) \in below
    OBVIOUS
  <2>2. T \cap (0..y) \subseteq U /\ x \in U /\ x \notin T \cap (0..y)
    BY <1>4, <1>5
  <2>3. T \cap (0..y) \in SUBSET Nat /\ U \in SUBSET Nat
    BY <1>4
  <2> QED BY <1>3, <2>1, <2>2, <2>3 DEF StrictSubsetOrdering
<1> QED BY <1>5

(* f is what FlattenSeq computes of the first n elements of s. *)
Flattens(s, n, f) == f = [i \in 1..n |-> IF i = 1 THEN s[i] ELSE f[i-1] \o s[i]]

LEMMA FlattensExists ==
  ASSUME NEW s, NEW n \in Nat PROVE \E f : Flattens(s, n, f)
<1> DEFINE T == {k \in Nat : ~ \E f : Flattens(s, k, f)}
<1>1. ASSUME T # {} PROVE FALSE
  <2>1. PICK k \in T : \A j \in T : k <= j
    BY <1>1, LeastNat
  <2>2. CASE k = 0
    <3> DEFINE f == [i \in 1..k |-> s[i]]
    <3>1. 1..k = {}
      BY <2>2
    <3>2. f = [i \in 1..k |-> IF i = 1 THEN s[i] ELSE f[i-1] \o s[i]]
      BY <3>1
    <3> QED BY <2>1, <3>2 DEF Flattens
  <2>3. CASE k # 0
    <3>1. k - 1 \in Nat /\ k - 1 \notin T
      BY <2>1, <2>3
    <3>2. PICK g : Flattens(s, k - 1, g)
      BY <3>1
    <3> DEFINE last == IF k = 1 THEN s[k] ELSE g[k-1] \o s[k]
               f == [i \in 1..k |-> IF i = k THEN last ELSE g[i]]
    <3>3. \A i \in 1..(k - 1) : g[i] = IF i = 1 THEN s[i] ELSE g[i-1] \o s[i]
      BY <3>2 DEF Flattens
    <3>4. ASSUME NEW i \in 1..k PROVE f[i] = IF i = 1 THEN s[i] ELSE f[i-1] \o s[i]
      <4>1. CASE i = k
        BY <4>1, <2>1
      <4>2. CASE i # k
        <5>1. i \in 1..(k - 1) /\ f[i] = g[i] /\ (i # 1 => f[i-1] = g[i-1])
          BY <4>2, <2>1
        <5> QED BY <5>1, <3>3
      <4> QED BY <4>1, <4>2
    <3>5. f = [i \in 1..k |-> IF i = 1 THEN s[i] ELSE f[i-1] \o s[i]]
      <4>1. f = [i \in 1..k |-> f[i]]
        OBVIOUS
      <4> HIDE DEF f
      <4> QED BY <4>1, <3>4
    <3> QED BY <2>1, <3>5 DEF Flattens
  <2> QED BY <2>2, <2>3
<1> QED BY <1>1

(* The same, element by element *)
Unfolded(s, n, f) == f[1] = s[1] /\ \A i \in 2..n : f[i] = f[i - 1] \o s[i]

LEMMA FlattensValues ==
  ASSUME NEW s, NEW n \in Nat, n # 0, NEW f, Flattens(s, n, f)
  PROVE  Unfolded(s, n, f)
<1>1. \A i \in 1..n : f[i] = IF i = 1 THEN s[i] ELSE f[i-1] \o s[i]
  BY DEF Flattens
<1>2. f[1] = s[1]
  BY <1>1
<1>3. ASSUME NEW i \in 2..n PROVE f[i] = f[i - 1] \o s[i]
  <2>1. i \in 1..n /\ i # 1
    OBVIOUS
  <2> QED BY <1>1, <2>1
<1> QED BY <1>2, <1>3 DEF Unfolded

LEMMA FlattenSeqIs ==
  ASSUME NEW s, Len(s) \in Nat, Len(s) # 0
  PROVE  \E f : Flattens(s, Len(s), f) /\ FlattenSeq(s) = f[Len(s)]
<1> DEFINE F == CHOOSE f : Flattens(s, Len(s), f)
<1>1. Flattens(s, Len(s), F)
  BY FlattensExists
<1>2. FlattenSeq(s) = F[Len(s)]
  BY DEF FlattenSeq, Flattens
<1> HIDE DEF F
<1> QED BY <1>1, <1>2

(* What holds of every beginning holds of the whole. *)
LEMMA FlattenSeqType ==
  ASSUME NEW S, NEW s \in Seq(Seq(S)) PROVE FlattenSeq(s) \in Seq(S)
<1>1. CASE Len(s) = 0
  <2>1. s = <<>>
    BY <1>1
  <2> QED BY <2>1 DEF FlattenSeq
<1>2. CASE Len(s) # 0
  <2>1. PICK f : Flattens(s, Len(s), f) /\ FlattenSeq(s) = f[Len(s)]
    BY <1>2, FlattenSeqIs
  <2>2. f[1] = s[1] /\ \A i \in 2..Len(s) : f[i] = f[i - 1] \o s[i]
    <3>1. PICK n \in Nat : n = Len(s) /\ n # 0
      BY <1>2
    <3>2. Flattens(s, n, f)
      BY <2>1, <3>1
    <3>3. Unfolded(s, n, f)
      BY <3>1, <3>2, FlattensValues
    <3> QED BY <3>1, <3>3 DEF Unfolded
  <2> DEFINE T == {i \in 1..Len(s) : f[i] \notin Seq(S)}
  <2>3. ASSUME T # {} PROVE FALSE
    <3>0. T \in SUBSET Nat
      OBVIOUS
    <3>1. PICK k \in T : \A j \in T : k <= j
      <4> HIDE DEF T
      <4> QED BY <2>3, <3>0, LeastNat
    <3>2. k # 1
      BY <2>2, <3>1
    <3>3. k - 1 \in 1..Len(s) /\ k \in 2..Len(s) /\ k - 1 \notin T
      BY <3>1, <3>2
    <3>4. f[k - 1] \in Seq(S) /\ s[k] \in Seq(S)
      BY <3>3
    <3>5. f[k] = f[k - 1] \o s[k]
      BY <2>2, <3>3
    <3>6. f[k] \in Seq(S)
      BY <3>4, <3>5, ConcatProperties
    <3> QED BY <3>1, <3>6
  <2>4. Len(s) \in 1..Len(s)
    BY <1>2
  <2> QED BY <2>1, <2>3, <2>4
<1> QED BY <1>1, <1>2

LEMMA FlattenSeqAppend ==
  ASSUME NEW S, NEW s \in Seq(Seq(S)), NEW x \in Seq(S)
  PROVE  FlattenSeq(Append(s, x)) = FlattenSeq(s) \o x
<1> PICK t : t = Append(s, x)
  OBVIOUS
<1>1. /\ t \in Seq(Seq(S)) /\ Len(t) = Len(s) + 1 /\ t[Len(t)] = x
      /\ \A i \in 1..Len(s) : t[i] = s[i]
  OBVIOUS
<1>2. PICK g : Flattens(t, Len(t), g) /\ FlattenSeq(t) = g[Len(t)]
  <2>1. Len(t) \in Nat /\ Len(t) # 0
    BY <1>1
  <2> QED BY <2>1, FlattenSeqIs
<1>3. g[1] = t[1] /\ \A i \in 2..Len(t) : g[i] = g[i - 1] \o t[i]
  <2>1. Len(t) \in Nat /\ Len(t) # 0
    BY <1>1
  <2>2. Unfolded(t, Len(t), g)
    BY <2>1, <1>2, FlattensValues
  <2> QED BY <2>2 DEF Unfolded
<1>4. CASE Len(s) = 0
  <2>1. s = <<>> /\ Len(t) = 1
    BY <1>1, <1>4
  <2>2. FlattenSeq(s) = <<>>
    BY <2>1 DEF FlattenSeq
  <2> QED BY <2>1, <2>2, <1>1, <1>2, <1>3
<1>5. CASE Len(s) # 0
  <2>1. PICK f : Flattens(s, Len(s), f) /\ FlattenSeq(s) = f[Len(s)]
    BY <1>5, FlattenSeqIs
  <2>2. f[1] = s[1] /\ \A i \in 2..Len(s) : f[i] = f[i - 1] \o s[i]
    <3>1. Len(s) \in Nat /\ Len(s) # 0
      BY <1>5
    <3>2. Unfolded(s, Len(s), f)
      BY <3>1, <2>1, FlattensValues
    <3> QED BY <3>2 DEF Unfolded
  <2> DEFINE T == {i \in 1..Len(s) : f[i] # g[i]}
  <2>3. ASSUME T # {} PROVE FALSE
    <3>0. T \in SUBSET Nat
      OBVIOUS
    <3>1. PICK k \in T : \A j \in T : k <= j
      <4> HIDE DEF T
      <4> QED BY <2>3, <3>0, LeastNat
    <3>2. k # 1
      BY <2>2, <3>1, <1>1, <1>3
    <3>3. k - 1 \in 1..Len(s) /\ k \in 2..Len(s) /\ k \in 2..Len(t) /\ k - 1 \notin T
      BY <3>1, <3>2, <1>1
    <3>4. f[k - 1] = g[k - 1] /\ s[k] = t[k]
      BY <3>3, <1>1
    <3> QED BY <3>1, <3>3, <3>4, <2>2, <1>3
  <2>4. f[Len(s)] = g[Len(s)]
    <3>1. Len(s) \in 1..Len(s)
      BY <1>5
    <3> QED BY <2>3, <3>1
  <2>5. Len(t) \in 2..Len(t) /\ Len(t) - 1 = Len(s)
    BY <1>1, <1>5
  <2>6. g[Len(t)] = g[Len(s)] \o x
    BY <1>1, <1>3, <2>5
  <2> QED BY <1>2, <2>1, <2>4, <2>6
<1> QED BY <1>4, <1>5

LEMMA FlattenSingletons ==
  ASSUME NEW S, NEW s \in Seq(S)
  PROVE  FlattenSeq([k \in DOMAIN s |-> <<s[k]>>]) = s
<1> PICK t : t = [k \in DOMAIN s |-> <<s[k]>>]
  OBVIOUS
<1>1. /\ t \in Seq(Seq(S)) /\ Len(t) = Len(s)
      /\ \A i \in 1..Len(s) : t[i] = <<s[i]>> /\ s[i] \in S
  <2>1. DOMAIN s = 1..Len(s) /\ \A i \in 1..Len(s) : s[i] \in S
    OBVIOUS
  <2>2. t \in [1..Len(s) -> Seq(S)]
    <3>1. \A i \in 1..Len(s) : <<s[i]>> \in Seq(S)
      BY <2>1
    <3> QED BY <2>1, <3>1
  <2>3. Len(s) \in Nat
    OBVIOUS
  <2>4. t \in Seq(Seq(S)) /\ Len(t) = Len(s)
    BY <2>2, <2>3
  <2> QED BY <2>1, <2>4
<1>2. CASE Len(s) = 0
  <2>1. s = <<>> /\ t = <<>>
    BY <1>1, <1>2
  <2> QED BY <2>1 DEF FlattenSeq
<1>3. CASE Len(s) # 0
  <2>1. PICK f : Flattens(t, Len(t), f) /\ FlattenSeq(t) = f[Len(t)]
    <3>1. Len(t) \in Nat /\ Len(t) # 0
      BY <1>1, <1>3
    <3> QED BY <3>1, FlattenSeqIs
  <2>2. f[1] = t[1] /\ \A i \in 2..Len(s) : f[i] = f[i - 1] \o t[i]
    <3>1. Len(t) \in Nat /\ Len(t) # 0 /\ Len(t) = Len(s)
      BY <1>1, <1>3
    <3>2. Unfolded(t, Len(t), f)
      BY <2>1, <3>1, FlattensValues
    <3> QED BY <3>1, <3>2 DEF Unfolded
  <2> DEFINE T == {i \in 1..Len(s) : f[i] # SubSeq(s, 1, i)}
  <2>3. ASSUME T # {} PROVE FALSE
    <3>0. T \in SUBSET Nat
      OBVIOUS
    <3>1. PICK k \in T : \A j \in T : k <= j
      <4> HIDE DEF T
      <4> QED BY <2>3, <3>0, LeastNat
    <3>2. k # 1
      <4>1. 1 \in 1..Len(s) /\ t[1] = <<s[1]>>
        BY <1>1, <1>3
      <4>2. SubSeq(s, 1, 1) = <<s[1]>>
        <5>1. SubSeq(s, 1, 1) \in Seq(S) /\ Len(SubSeq(s, 1, 1)) = 1 /\ SubSeq(s, 1, 1)[1] = s[1]
          BY <4>1
        <5>2. <<s[1]>> \in Seq(S) /\ Len(<<s[1]>>) = 1 /\ <<s[1]>>[1] = s[1]
          BY <4>1, <1>1
        <5>3. PICK u \in Seq(S), v \in Seq(S) : u = SubSeq(s, 1, 1) /\ v = <<s[1]>>
          BY <5>1, <5>2
        <5>4. Len(u) = Len(v) /\ \A i \in 1..Len(u) : u[i] = v[i]
          BY <5>1, <5>2, <5>3
        <5>5. u = v
          BY <5>4, SeqEqual
        <5> QED BY <5>3, <5>5
      <4>3. 1 \notin T
        BY <2>2, <4>1, <4>2
      <4> QED BY <3>1, <4>3
    <3>3. k - 1 \in 1..Len(s) /\ k \in 2..Len(s) /\ k - 1 \notin T
      BY <3>1, <3>2
    <3>4. f[k] = SubSeq(s, 1, k - 1) \o <<s[k]>>
      BY <3>3, <2>2, <1>1
    <3>5. SubSeq(s, 1, k - 1) \o <<s[k]>> = SubSeq(s, 1, k)
      BY <3>3
    <3> QED BY <3>1, <3>4, <3>5
  <2>4. f[Len(s)] = SubSeq(s, 1, Len(s))
    BY <1>3, <2>3
  <2>5. SubSeq(s, 1, Len(s)) = s
    OBVIOUS
  <2> QED BY <2>1, <2>4, <2>5, <1>1
<1> QED BY <1>2, <1>3

----------------------------------------------------------------------------
(* Paths *)

(* A name comes out of 'ls -la' as it went in. *)
LEMMA ParsedNameIsName ==
  ASSUME NEW name \in DirNames PROVE ParsedName(name) = name
<1>1. name \in Seq(Chars) /\ \A k \in DOMAIN name : name[k] = " " => k > 1 /\ name[k - 1] # " "
  BY SftpAssumption
<1>2. [k \in DOMAIN name |-> IF name[k] # " " \/ (k > 1 /\ name[k - 1] # " ") THEN <<name[k]>> ELSE <<>>]
        = [k \in DOMAIN name |-> <<name[k]>>]
  BY <1>1
<1>3. ParsedName(name) = FlattenSeq([k \in DOMAIN name |-> <<name[k]>>])
  BY <1>2 DEF ParsedName
<1> QED BY <1>1, <1>3, FlattenSingletons

Parts(c) == [k \in DOMAIN c |-> RootPath \o c[k]]

PathOf(c) == IF c = <<>> THEN RootPath ELSE FlattenSeq(Parts(c))

LEMMA RootPathType == RootPath \in Seq(Chars) /\ Len(RootPath) = 1 /\ RootPath[1] = "/"
<1>1. PICK slash \in Chars : slash = "/"
  BY SftpAssumption
<1>2. RootPath = <<slash>>
  BY <1>1 DEF RootPath
<1>3. <<slash>> \in Seq(Chars) /\ Len(<<slash>>) = 1 /\ <<slash>>[1] = slash
  OBVIOUS
<1> QED BY <1>1, <1>2, <1>3

LEMMA PartOf ==
  ASSUME NEW name \in DirNames
  PROVE  /\ name \in Seq(Chars) /\ Len(name) \in Nat \ {0} /\ \A k \in 1..Len(name) : name[k] # "/"
         /\ RootPath \o name \in Seq(Chars) /\ RootPath \o name # <<>>
<1>1. name \in Seq(Chars) /\ name # <<>> /\ \A k \in DOMAIN name : name[k] # "/"
  BY SftpAssumption
<1>2. RootPath \o name \in Seq(Chars) /\ Len(RootPath \o name) = 1 + Len(name)
  BY <1>1, RootPathType, ConcatProperties
<1> QED BY <1>1, <1>2

LEMMA PartsType ==
  ASSUME NEW c \in Seq(DirNames) PROVE Parts(c) \in Seq(Seq(Chars)) /\ Len(Parts(c)) = Len(c)
<1>1. \A k \in 1..Len(c) : c[k] \in DirNames
  OBVIOUS
<1>2. \A k \in 1..Len(c) : RootPath \o c[k] \in Seq(Chars)
  BY <1>1, PartOf
<1>3. Parts(c) \in [1..Len(c) -> Seq(Chars)]
  BY <1>2 DEF Parts
<1> QED BY <1>3

LEMMA PartsAppend ==
  ASSUME NEW c \in Seq(DirNames), NEW name \in DirNames
  PROVE  Parts(Append(c, name)) = Append(Parts(c), RootPath \o name)
<1> PICK d : d = Append(c, name)
  OBVIOUS
<1>1. /\ d \in Seq(DirNames) /\ Len(d) = Len(c) + 1 /\ d[Len(d)] = name
      /\ \A k \in 1..Len(c) : d[k] = c[k]
  OBVIOUS
<1> PICK u, v : u = Parts(d) /\ v = Append(Parts(c), RootPath \o name)
  OBVIOUS
<1>2. /\ u \in Seq(Seq(Chars)) /\ Len(u) = Len(c) + 1
      /\ \A k \in 1..Len(d) : u[k] = RootPath \o d[k]
  <2>1. Parts(d) \in Seq(Seq(Chars)) /\ Len(Parts(d)) = Len(d)
    BY <1>1, PartsType
  <2>2. \A k \in 1..Len(d) : Parts(d)[k] = RootPath \o d[k]
    BY <1>1 DEF Parts
  <2> QED BY <1>1, <2>1, <2>2
<1>3. /\ v \in Seq(Seq(Chars)) /\ Len(v) = Len(c) + 1 /\ v[Len(v)] = RootPath \o name
      /\ \A k \in 1..Len(c) : v[k] = RootPath \o c[k]
  <2>1. Parts(c) \in Seq(Seq(Chars)) /\ Len(Parts(c)) = Len(c) /\ RootPath \o name \in Seq(Chars)
    BY PartsType, PartOf
  <2>2. \A k \in 1..Len(c) : Parts(c)[k] = RootPath \o c[k]
    BY DEF Parts
  <2>3. v \in Seq(Seq(Chars)) /\ Len(v) = Len(c) + 1 /\ v[Len(c) + 1] = RootPath \o name
        /\ \A k \in 1..Len(c) : v[k] = Parts(c)[k]
    BY <2>1, AppendProperties
  <2> QED BY <2>2, <2>3
<1>4. ASSUME NEW k \in 1..Len(u) PROVE u[k] = v[k]
  <2>1. CASE k = Len(d)
    BY <2>1, <1>1, <1>2, <1>3
  <2>2. CASE k # Len(d)
    <3>1. k \in 1..Len(c) /\ k \in 1..Len(d)
      BY <2>2, <1>1, <1>2
    <3> QED BY <3>1, <1>1, <1>2, <1>3
  <2> QED BY <2>1, <2>2
<1>5. u = v
  BY <1>2, <1>3, <1>4, SeqEqual
<1> QED BY <1>5

(* The path of a directory is that of its parent, of which '/' is nothing, *)
(* with the name behind.                                                   *)
LEMMA PathOfChild ==
  ASSUME NEW c \in Seq(DirNames), NEW name \in DirNames
  PROVE  /\ FlattenSeq(Parts(c)) \in Seq(Chars)
         /\ PathOf(Append(c, name)) = FlattenSeq(Parts(c)) \o (RootPath \o name)
         /\ FlattenSeq(Parts(c)) = <<>> <=> c = <<>>
<1>1. /\ \A d \in Seq(DirNames) : FlattenSeq(Parts(d)) \in Seq(Chars)
      /\ \A d \in Seq(DirNames), e \in DirNames :
           FlattenSeq(Parts(Append(d, e))) = FlattenSeq(Parts(d)) \o (RootPath \o e)
  <2>1. ASSUME NEW d \in Seq(DirNames) PROVE FlattenSeq(Parts(d)) \in Seq(Chars)
    BY PartsType, FlattenSeqType
  <2>2. ASSUME NEW d \in Seq(DirNames), NEW e \in DirNames
        PROVE  FlattenSeq(Parts(Append(d, e))) = FlattenSeq(Parts(d)) \o (RootPath \o e)
    <3>1. Parts(d) \in Seq(Seq(Chars)) /\ RootPath \o e \in Seq(Chars)
      BY PartsType, PartOf
    <3>2. FlattenSeq(Append(Parts(d), RootPath \o e)) = FlattenSeq(Parts(d)) \o (RootPath \o e)
      BY <3>1, FlattenSeqAppend
    <3> QED BY <3>2, PartsAppend
  <2> QED BY <2>1, <2>2
<1>2. Append(c, name) # <<>>
  BY AppendProperties
<1>3. CASE c = <<>>
  <2>1. Len(Parts(c)) = 0 /\ Parts(c) \in Seq(Seq(Chars))
    BY <1>3, PartsType
  <2>2. FlattenSeq(Parts(c)) = <<>>
    BY <2>1 DEF FlattenSeq
  <2> QED BY <1>1, <1>2, <1>3, <2>2 DEF PathOf
<1>4. CASE c # <<>>
  <2>1. PICK d \in Seq(DirNames), e \in DirNames : c = Append(d, e)
    BY <1>4, SequenceEmptyOrAppend
  <2>2. FlattenSeq(Parts(c)) = FlattenSeq(Parts(d)) \o (RootPath \o e)
    BY <1>1, <2>1
  <2>3. FlattenSeq(Parts(d)) \in Seq(Chars) /\ RootPath \o e \in Seq(Chars) /\ RootPath \o e # <<>>
    BY <1>1, PartOf
  <2>4. FlattenSeq(Parts(c)) # <<>>
    BY <2>2, <2>3, ConcatEqualIffEmpty
  <2> QED BY <1>1, <1>2, <1>4, <2>4 DEF PathOf
<1> QED BY <1>3, <1>4

(* A path with a name at its end: its last slash is the one before the name. *)
LEMMA PathEnd ==
  ASSUME NEW q \in Seq(Chars), NEW name \in DirNames, NEW p, p = q \o (RootPath \o name)
  PROVE  /\ p \in Seq(Chars) /\ p # <<>> /\ p # RootPath
         /\ ~EndsWithSlash(p)
         /\ LastSlash(p) = Len(q) + 1
         /\ SubSeq(p, 1, Len(q)) = q
<1>1. /\ name \in Seq(Chars) /\ Len(name) \in Nat \ {0} /\ \A k \in 1..Len(name) : name[k] # "/"
  BY PartOf
<1> PICK part : part = RootPath \o name
  OBVIOUS
<1>2. /\ part \in Seq(Chars) /\ Len(part) = 1 + Len(name) /\ part[1] = "/"
      /\ \A k \in 2..Len(part) : part[k] # "/"
  <2>1. /\ part \in Seq(Chars) /\ Len(part) = 1 + Len(name)
        /\ \A k \in 1..(1 + Len(name)) : part[k] = IF k <= 1 THEN RootPath[k] ELSE name[k - 1]
    <3>1. PICK root \in Seq(Chars), last \in Seq(Chars) : root = RootPath /\ last = name
      BY <1>1, RootPathType
    <3>2. Len(root) = 1 /\ part = root \o last
      BY <3>1, RootPathType
    <3>3. /\ root \o last \in Seq(Chars) /\ Len(root \o last) = Len(root) + Len(last)
          /\ \A k \in 1..(Len(root) + Len(last)) :
               (root \o last)[k] = IF k <= Len(root) THEN root[k] ELSE last[k - Len(root)]
      BY ConcatProperties
    <3> QED BY <3>1, <3>2, <3>3
  <2>2. part[1] = "/"
    BY <1>1, <2>1, RootPathType
  <2>3. ASSUME NEW k \in 2..Len(part) PROVE part[k] # "/"
    <3>1. k \in 1..(1 + Len(name)) /\ ~(k <= 1) /\ k - 1 \in 1..Len(name)
      BY <1>1, <2>1
    <3> QED BY <3>1, <1>1, <2>1
  <2> QED BY <2>1, <2>2, <2>3
<1>3. /\ p \in Seq(Chars) /\ Len(p) = Len(q) + Len(part)
      /\ \A k \in 1..(Len(q) + Len(part)) : p[k] = IF k <= Len(q) THEN q[k] ELSE part[k - Len(q)]
  <2>1. PICK s \in Seq(Chars) : s = part
    BY <1>2
  <2>2. /\ q \o s \in Seq(Chars) /\ Len(q \o s) = Len(q) + Len(s)
        /\ \A k \in 1..(Len(q) + Len(s)) : (q \o s)[k] = IF k <= Len(q) THEN q[k] ELSE s[k - Len(q)]
    BY ConcatProperties
  <2>3. p = q \o s
    BY <2>1
  <2> QED BY <2>1, <2>2, <2>3
<1> PICK n \in Nat : n = Len(q)
  OBVIOUS
<1>4. n + 1 \in 1..Len(p) /\ p[n + 1] = "/" /\ Len(p) > n + 1
  <2>1. n + 1 \in 1..(Len(q) + Len(part)) /\ ~(n + 1 <= Len(q)) /\ (n + 1) - Len(q) = 1
    BY <1>1, <1>2
  <2> QED BY <2>1, <1>1, <1>2, <1>3
<1>5. ASSUME NEW k \in 1..Len(p), k > n + 1 PROVE p[k] # "/"
  <2>1. k \in 1..(Len(q) + Len(part)) /\ ~(k <= Len(q)) /\ k - Len(q) \in 2..Len(part)
    BY <1>2, <1>3, <1>5
  <2> QED BY <2>1, <1>2, <1>3
<1>6. ~EndsWithSlash(p) /\ p # <<>> /\ p # RootPath
  <2>1. Len(p) \in 1..Len(p) /\ Len(p) > 1
    BY <1>3, <1>4
  <2>2. p[Len(p)] # "/"
    BY <2>1, <1>4, <1>5
  <2>3. Len(RootPath) = 1 /\ Len(<<>>) = 0
    BY RootPathType
  <2>4. p # <<>> /\ p # RootPath
    BY <2>1, <2>3
  <2> QED BY <2>2, <2>4 DEF EndsWithSlash, Last
<1>7. LastSlash(p) = n + 1
  <2> DEFINE slashes == {k \in DOMAIN p : p[k] = "/"}
  <2>1. DOMAIN p = 1..Len(p)
    BY <1>3
  <2>2. n + 1 \in slashes
    BY <2>1, <1>4
  <2>3. ASSUME NEW j \in slashes PROVE j \in Int /\ j <= n + 1
    <3>1. j \in 1..Len(p) /\ p[j] = "/"
      BY <2>1
    <3> HIDE DEF slashes
    <3>2. ~(j > n + 1)
      BY <3>1, <1>5
    <3> QED BY <3>1, <3>2
  <2>4. LastSlash(p) = CHOOSE k \in slashes : \A j \in slashes : j <= k
    BY DEF LastSlash
  <2> HIDE DEF slashes
  <2>5. \E k \in slashes : \A j \in slashes : j <= k
    BY <2>2, <2>3
  <2>6. LastSlash(p) \in slashes /\ \A j \in slashes : j <= LastSlash(p)
    BY <2>4, <2>5
  <2> QED BY <2>2, <2>3, <2>6
<1>8. SubSeq(p, 1, n) = q
  <2>1. \A k \in 1..n : p[k] \in Chars /\ p[k] = q[k]
    BY <1>3, <1>4
  <2>2. /\ SubSeq(p, 1, n) \in Seq(Chars) /\ Len(SubSeq(p, 1, n)) = n
        /\ \A k \in 1..n : SubSeq(p, 1, n)[k] = p[k]
    BY <2>1, <1>4
  <2>3. PICK u : u = SubSeq(p, 1, n)
    OBVIOUS
  <2>4. u \in Seq(Chars) /\ Len(u) = Len(q) /\ \A k \in 1..Len(u) : u[k] = q[k]
    BY <2>1, <2>2, <2>3
  <2>5. u = q
    BY <2>4, SeqEqual
  <2> QED BY <2>3, <2>5
<1> QED BY <1>3, <1>6, <1>7, <1>8

LEMMA PathOfType ==
  ASSUME NEW c \in Seq(DirNames) PROVE PathOf(c) \in Seq(Chars)
<1>1. FlattenSeq(Parts(c)) \in Seq(Chars)
  BY PartsType, FlattenSeqType
<1> QED BY <1>1, RootPathType DEF PathOf

(* Going down leads to the path of the directory that was tapped. *)
LEMMA DownNames ==
  ASSUME NEW c \in Seq(DirNames), NEW name \in DirNames
  PROVE  Down(PathOf(c), name) = PathOf(Append(c, name))
<1> PICK q : q = FlattenSeq(Parts(c))
  OBVIOUS
<1>1. q \in Seq(Chars) /\ PathOf(Append(c, name)) = q \o (RootPath \o name) /\ (q = <<>> <=> c = <<>>)
  BY PathOfChild
<1>2. name \in Seq(Chars)
  BY PartOf
<1>3. CASE c = <<>>
  <2>1. PathOf(c) = RootPath /\ EndsWithSlash(RootPath)
    BY <1>3, RootPathType DEF PathOf, EndsWithSlash, Last
  <2>2. RootPath \o name \in Seq(Chars)
    BY PartOf
  <2>3. q \o (RootPath \o name) = RootPath \o name
    BY <1>1, <1>3, <2>2, ConcatEmptySeq
  <2> QED BY <1>1, <2>1, <2>3 DEF Down
<1>4. CASE c # <<>>
  <2>1. PathOf(c) = q
    BY <1>4 DEF PathOf
  <2>2. ~EndsWithSlash(q)
    <3>1. PICK d \in Seq(DirNames), e \in DirNames : c = Append(d, e)
      BY <1>4, SequenceEmptyOrAppend
    <3>2. FlattenSeq(Parts(d)) \in Seq(Chars) /\ q = FlattenSeq(Parts(d)) \o (RootPath \o e)
      BY <2>1, <3>1, PathOfChild
    <3> QED BY <3>2, PathEnd
  <2>3. Down(q, name) = Append(q, "/") \o name
    BY <2>2 DEF Down
  <2>4. Append(q, "/") = q \o RootPath
    BY <1>1, AppendIsConcat DEF RootPath
  <2>5. (q \o RootPath) \o name = q \o (RootPath \o name)
    BY <1>1, <1>2, RootPathType, ConcatAssociative
  <2> QED BY <1>1, <2>1, <2>3, <2>4, <2>5
<1> QED BY <1>3, <1>4

(* Going up leads to the path of the directory around it. *)
LEMMA UpNames ==
  ASSUME NEW c \in Seq(DirNames), c # <<>>
  PROVE  /\ Front(c) \in Seq(DirNames) /\ Len(Front(c)) = Len(c) - 1
         /\ Up(PathOf(c)) = PathOf(Front(c))
<1>1. PICK d \in Seq(DirNames), e \in DirNames : c = Append(d, e)
  BY SequenceEmptyOrAppend
<1>2. Front(c) = d /\ Len(c) = Len(d) + 1
  <2>1. Len(c) = Len(d) + 1 /\ \A k \in 1..Len(d) : c[k] = d[k]
    BY <1>1
  <2> PICK n \in Nat : n = Len(d)
    OBVIOUS
  <2>2. PICK u : n = Len(d) /\ u = SubSeq(c, 1, n)
    OBVIOUS
  <2>3. u \in Seq(DirNames) /\ Len(u) = n /\ \A k \in 1..n : u[k] = c[k]
    BY <2>1, <2>2
  <2>4. u = d
    BY <2>1, <2>2, <2>3, SeqEqual
  <2>5. Front(c) = u
    BY <2>1, <2>2 DEF Front
  <2> QED BY <2>1, <2>4, <2>5
<1> PICK q : q = FlattenSeq(Parts(d))
  OBVIOUS
<1> PICK p : p = PathOf(c)
  OBVIOUS
<1>3. q \in Seq(Chars) /\ p = q \o (RootPath \o e) /\ (q = <<>> <=> d = <<>>)
  BY <1>1, PathOfChild
<1>4. ~EndsWithSlash(p) /\ LastSlash(p) = Len(q) + 1 /\ SubSeq(p, 1, Len(q)) = q
  BY <1>3, PathEnd
<1>5. LastSlash(p) - 1 = Len(q)
  BY <1>3, <1>4
<1>6. Up(p) = IF q = <<>> THEN RootPath ELSE q
  BY <1>4, <1>5 DEF Up
<1> QED BY <1>2, <1>3, <1>6 DEF PathOf

----------------------------------------------------------------------------
(* The path of the page *)

Files == [session: Ids \cup {None}, path: Seq(Chars)]

(* While the connect of the current token is under way, no directory has   *)
(* been gone down through: the page that it ends on is at '/'.             *)
PathInv ==
  /\ page.currentPath \in Seq(Chars) /\ page.files \in Files
  /\ page.connectToken <= MaxConnects + 1
  /\ ~page.disposed => page.connectToken <= MaxConnects
  /\ attempts \in 1..MaxAttempts /\ page.failures < attempts
  /\ chosen \in Seq(DirNames) /\ Len(chosen) <= MaxDepth
  /\ gone \subseteq Ids /\ refused \subseteq Ids
  /\ page.connected => page.currentPath = PathOf(chosen)
  /\ \A t \in Tokens : t = page.connectToken /\ opening[t] # "none" => chosen = <<>>

LEMMA PathConstants ==
  /\ MaxDepth \in Nat /\ MaxConnects \in Nat
  /\ NoFiles \in Files /\ RootPath \in Seq(Chars) /\ PathOf(<<>>) = RootPath
BY SftpAssumption, RootPathType DEF NoFiles, Files, PathOf

LEMMA ClosedFailures ==
  ASSUME NEW r, Shaped(r) PROVE CloseCurrent(r).failures = 0
BY DEF CloseCurrent, StopKeepalive, Shaped, PageWith

LEMMA ListFilesPath ==
  ASSUME NEW r, Shaped(r), r.sessionId # None, NEW path \in Seq(Chars)
  PROVE  LET s == ListFiles(r, path)
         IN  s.failures = r.failures /\ s.currentPath = path /\ s.files \in Files
<1>1. PICK f : f = [session |-> r.sessionId, path |-> path]
  OBVIOUS
<1>2. f \in Files
  BY <1>1 DEF Files, Shaped, PageWith
<1>3. ListFiles(r, path) = [r EXCEPT !.currentPath = path, !.files = f]
  BY <1>1 DEF ListFiles
<1>4. LET s == [r EXCEPT !.currentPath = path, !.files = f]
      IN  s.failures = r.failures /\ s.currentPath = path /\ s.files = f
  BY DEF Shaped, PageWith
<1> QED BY <1>2, <1>3, <1>4

LEMMA ConnectedPath ==
  ASSUME NEW r, Shaped(r), NEW i \in Ids
  PROVE  LET s == Connected(r, i)
         IN  s.failures = 0 /\ s.currentPath = RootPath /\ s.files \in Files
<1> DEFINE a == [r EXCEPT !.connecting = FALSE, !.sessionId = i, !.connected = TRUE]
           b == StartKeepalive(a)
<1>1. Shaped(a) /\ a.sessionId = i
  BY DEF Shaped, PageWith
<1> HIDE DEF a
<1>2. Shaped(b) /\ b.sessionId = i /\ b.failures = 0
  BY <1>1 DEF Shaped, PageWith, StartKeepalive, StopKeepalive
<1>3. Connected(r, i) = ListFiles(b, RootPath)
  BY DEF Connected, a, b
<1> HIDE DEF b
<1> QED BY <1>2, <1>3, ListFilesPath, PathConstants, NoneIsNoId

LEMMA PathOfPage ==
  ASSUME PathInv
  PROVE  /\ page.currentPath \in Seq(Chars) /\ page.files \in Files
         /\ attempts \in 1..MaxAttempts /\ page.failures < attempts
         /\ chosen \in Seq(DirNames) /\ Len(chosen) <= MaxDepth
BY DEF PathInv

LEMMA ConnectKeepsPath ==
  ASSUME SftpInv, PathInv, NEW token \in Tokens, Connect(token) PROVE PathInv'
<1> DEFINE r == CloseCurrent(page)
<1>1. /\ page' = [r EXCEPT !.connectToken = token, !.connecting = TRUE,
                           !.currentPath = RootPath, !.files = NoFiles]
      /\ ~page.disposed /\ chosen' = <<>> /\ UNCHANGED <<attempts, gone, refused>>
  BY DEF Connect
<1>2. Shaped(r) /\ ~r.connected /\ r.failures = 0
  BY PageTypes, CloseCurrentFields, ClosedFailures
<1> HIDE DEF r
<1>3. PICK root, none : root = RootPath /\ none = NoFiles
  OBVIOUS
<1>4. /\ page'.currentPath = root /\ page'.files = none /\ page'.connectToken = token
      /\ page'.failures = 0 /\ ~page'.connected
  BY <1>1, <1>2, <1>3 DEF Shaped, PageWith
<1>5. token <= MaxConnects /\ token \in Nat
  BY DEF Tokens
<1>6. attempts' \in 1..MaxAttempts /\ page'.failures < attempts'
  BY <1>1, <1>4, NoneIsNoId DEF PathInv
<1>7. chosen' \in Seq(DirNames) /\ Len(chosen') <= MaxDepth
  BY <1>1, PathConstants
<1> QED BY <1>1, <1>3, <1>4, <1>5, <1>6, <1>7, PathConstants DEF PathInv

LEMMA OpenEndsKeepsPath ==
  ASSUME SftpInv, PathInv, NEW token \in Tokens, OpenEnds(token) PROVE PathInv'
<1>1. UNCHANGED <<page, attempts, chosen, gone, refused>> /\ opening[token] = "running"
  BY DEF OpenEnds
<1>2. \A t \in Tokens : opening'[t] # "none" => opening[t] # "none"
  BY <1>1, PageTypes DEF OpenEnds, ServiceOK
<1> QED BY <1>1, <1>2 DEF PathInv

LEMMA ResumeKeepsPath ==
  ASSUME SftpInv, PathInv, NEW token \in Tokens, Resume(token) PROVE PathInv'
<1>1. PICK i : i = IF opening[token] = "failed" THEN None ELSE opening[token]
  OBVIOUS
<1>2. /\ opening[token] \in Ids \cup {"failed"} /\ UNCHANGED <<attempts, chosen, gone, refused>>
      /\ opening' = [opening EXCEPT ![token] = "none"]
      /\ IF Outdated(token) THEN UNCHANGED page
         ELSE page' = IF i = None THEN [page EXCEPT !.connecting = FALSE] ELSE Connected(page, i)
  BY <1>1 DEF Resume
<1>3. \A t \in Tokens : opening'[t] # "none" => opening[t] # "none"
  BY <1>2, PageTypes DEF ServiceOK
<1>4. CASE Outdated(token)
  BY <1>2, <1>3, <1>4 DEF PathInv
<1>5. CASE ~Outdated(token) /\ i = None
  <2>1. page' = [page EXCEPT !.connecting = FALSE]
    BY <1>2, <1>5
  <2>2. /\ page'.currentPath = page.currentPath /\ page'.files = page.files
        /\ page'.connectToken = page.connectToken /\ page'.failures = page.failures
        /\ page'.connected = page.connected /\ page'.disposed = page.disposed
    BY <2>1, PageTypes DEF Shaped, PageWith
  <2> QED BY <1>2, <1>3, <2>2 DEF PathInv
<1>6. CASE ~Outdated(token) /\ i # None
  <2>1. i \in Ids /\ page' = Connected(page, i) /\ token = page.connectToken /\ ~page.disposed
    BY <1>1, <1>2, <1>6 DEF Outdated
  <2>2. chosen = <<>>
    BY <1>2, <2>1, NoneIsNoId DEF PathInv
  <2> DEFINE s == Connected(page, i)
  <2>3. /\ s.failures = 0 /\ s.currentPath = RootPath /\ s.files \in Files
        /\ s.connectToken = page.connectToken /\ s.disposed = page.disposed
    BY <2>1, PageTypes, ConnectedPath, ConnectedFields
  <2> HIDE DEF s
  <2>4. page' = s
    BY <2>1 DEF s
  <2>5. attempts' \in 1..MaxAttempts /\ page'.failures < attempts'
    BY <1>2, <2>3, <2>4, NoneIsNoId DEF PathInv
  <2> QED BY <1>2, <1>3, <2>2, <2>3, <2>4, <2>5, PathConstants DEF PathInv
<1> QED BY <1>4, <1>5, <1>6

(* A step to the path of another chosen directory *)
LEMMA NavigateKeepsPath ==
  ASSUME SftpInv, PathInv, NEW path \in Seq(Chars), Navigate(path),
         chosen' \in Seq(DirNames), Len(chosen') <= MaxDepth, path = PathOf(chosen')
  PROVE  PathInv'
<1> DEFINE s == ListFiles(page, path)
<1>1. page' = s /\ page.connected /\ UNCHANGED <<opening, attempts, gone, refused>>
  BY DEF Navigate, service
<1>2. page.sessionId # None
  BY <1>1, PageTypes DEF ScreenOK
<1>3. /\ s.connectToken = page.connectToken /\ s.disposed = page.disposed
      /\ s.failures = page.failures /\ s.currentPath = path /\ s.files \in Files
  BY <1>2, PageTypes, ListFilesFields, ListFilesPath
<1> HIDE DEF s
<1>4. \A t \in Tokens : ~(t = page.connectToken /\ opening[t] # "none")
  BY <1>2, PageTypes DEF TokensOK
<1> QED BY <1>1, <1>3, <1>4 DEF PathInv

LEMMA GoDownKeepsPath ==
  ASSUME SftpInv, PathInv, NEW name \in DirNames, GoDown(name) PROVE PathInv'
<1>1. PICK path : path = Down(page.currentPath, ParsedName(name))
  OBVIOUS
<1>2. Len(chosen) < MaxDepth /\ chosen' = Append(chosen, name) /\ Navigate(path) /\ page.connected
  BY <1>1 DEF GoDown, Navigate
<1>3. chosen \in Seq(DirNames) /\ page.currentPath = PathOf(chosen)
  BY <1>2 DEF PathInv
<1>4. path = PathOf(chosen')
  BY <1>1, <1>2, <1>3, ParsedNameIsName, DownNames
<1>5. chosen' \in Seq(DirNames) /\ Len(chosen') = Len(chosen) + 1
  BY <1>2, <1>3
<1>6. Len(chosen') <= MaxDepth
  BY <1>2, <1>3, <1>5, PathConstants
<1>7. path \in Seq(Chars)
  BY <1>4, <1>5, PathOfType
<1> QED BY <1>2, <1>4, <1>5, <1>6, <1>7, NavigateKeepsPath

LEMMA GoUpKeepsPath ==
  ASSUME SftpInv, PathInv, GoUp PROVE PathInv'
<1>1. PICK path : path = Up(page.currentPath)
  OBVIOUS
<1>2. page.currentPath # RootPath /\ chosen' = Front(chosen) /\ Navigate(path) /\ page.connected
  BY <1>1 DEF GoUp, Navigate
<1>3. chosen \in Seq(DirNames) /\ page.currentPath = PathOf(chosen) /\ Len(chosen) <= MaxDepth
  BY <1>2 DEF PathInv
<1>4. chosen # <<>>
  BY <1>2, <1>3 DEF PathOf
<1>5. chosen' \in Seq(DirNames) /\ Len(chosen') = Len(chosen) - 1 /\ path = PathOf(chosen')
  BY <1>1, <1>2, <1>3, <1>4, UpNames
<1>6. Len(chosen') <= MaxDepth
  BY <1>3, <1>5, PathConstants
<1>7. path \in Seq(Chars)
  BY <1>5, PathOfType
<1> QED BY <1>2, <1>5, <1>6, <1>7, NavigateKeepsPath

(* The page keeps its path, and perhaps gives up its session. *)
LEMMA SamePathKeeps ==
  ASSUME SftpInv, PathInv,
         page'.currentPath = page.currentPath, page'.files = page.files,
         page'.connectToken = page.connectToken, page'.disposed = page.disposed,
         page'.connected => page.connected, page'.failures < attempts,
         UNCHANGED <<opening, attempts, chosen>>, gone' \subseteq Ids, refused' \subseteq Ids
  PROVE  PathInv'
BY DEF PathInv

LEMMA KeepaliveKeepsPath ==
  ASSUME SftpInv, PathInv, KeepaliveTick PROVE PathInv'
<1>1. attempts \in 1..MaxAttempts /\ page.failures \in Nat /\ gone \subseteq Ids /\ refused \subseteq Ids
  BY PageTypes DEF PathInv, Shaped, PageWith
<1>2. CASE KeepaliveSucceeds
  <2>1. page' = [page EXCEPT !.failures = 0] /\ UNCHANGED <<opening, attempts, chosen, gone, refused>>
    BY <1>2 DEF KeepaliveSucceeds, KeepaliveSent
  <2>2. /\ page'.currentPath = page.currentPath /\ page'.files = page.files /\ page'.failures = 0
        /\ page'.connectToken = page.connectToken /\ page'.disposed = page.disposed
        /\ page'.connected = page.connected
    BY <2>1, PageTypes, FailureFields
  <2>3. page'.failures < attempts
    BY <1>1, <2>2, NoneIsNoId
  <2> QED BY <1>1, <2>1, <2>2, <2>3, SamePathKeeps
<1>3. CASE KeepaliveFails
  <2>1. PICK n \in Nat : n = page.failures + 1
    BY <1>1
  <2> DEFINE r == [page EXCEPT !.failures = n]
             s == CloseCurrent(r)
  <2>2. /\ Shaped(r) /\ r.currentPath = page.currentPath /\ r.files = page.files /\ r.failures = n
        /\ r.connectToken = page.connectToken /\ r.disposed = page.disposed
        /\ r.connected = page.connected
    BY PageTypes, FailureFields
  <2>3. CountFailure(page) = r
    BY <2>1 DEF CountFailure
  <2>4. /\ UNCHANGED <<opening, attempts, chosen, gone>> /\ refused' = refused \cup {page.sessionId}
        /\ \/ page' = s
           \/ page' = r /\ ~(r.failures >= attempts)
    BY <1>3, <2>3 DEF KeepaliveFails, KeepaliveRefused
  <2> HIDE DEF r
  <2>5. /\ s.currentPath = r.currentPath /\ s.files = r.files /\ s.failures = 0
        /\ s.connectToken = r.connectToken /\ s.disposed = r.disposed /\ ~s.connected
    BY <2>2, CloseCurrentFields, ClosedFailures
  <2> HIDE DEF s
  <2>6. page.sessionId \in Ids
    BY <1>3, PageTypes DEF KeepaliveFails, ScreenOK, Shaped, PageWith
  <2>7. page'.failures < attempts
    BY <1>1, <2>2, <2>4, <2>5, NoneIsNoId
  <2> QED BY <1>1, <2>2, <2>4, <2>5, <2>6, <2>7, SamePathKeeps
<1> QED BY <1>2, <1>3 DEF KeepaliveTick

LEMMA DisappearKeepsPath ==
  ASSUME SftpInv, PathInv, AboutToDisappear PROVE PathInv'
<1> DEFINE r == CloseCurrent(page)
<1>1. /\ Shaped(r) /\ r.connectToken = page.connectToken /\ ~r.connected /\ r.failures = 0
      /\ r.currentPath = page.currentPath /\ r.files = page.files
  BY PageTypes, CloseCurrentFields, ClosedFailures
<1>2. PICK n \in Nat : n = r.connectToken + 1
  BY <1>1, PageTypes
<1>3. /\ page' = [r EXCEPT !.disposed = TRUE, !.connectToken = n] /\ ~page.disposed
      /\ UNCHANGED <<opening, attempts, chosen, gone, refused>>
  BY <1>2 DEF AboutToDisappear
<1> HIDE DEF r
<1>4. /\ page'.currentPath = page.currentPath /\ page'.files = page.files /\ page'.failures = 0
      /\ page'.connectToken = n /\ page'.disposed /\ ~page'.connected
  BY <1>1, <1>3 DEF Shaped, PageWith
<1>5. n <= MaxConnects + 1 /\ n > page.connectToken
  BY <1>1, <1>2, <1>3, PageTypes, NoneIsNoId DEF PathInv
<1>6. attempts' \in 1..MaxAttempts /\ page'.failures < attempts'
  BY <1>3, <1>4, NoneIsNoId DEF PathInv
<1>7. \A t \in Tokens : t = n => opening[t] = "none"
  BY <1>5, PageTypes DEF TokensOK
<1> QED BY <1>3, <1>4, <1>5, <1>6, <1>7 DEF PathInv

LEMMA InitEstablishesPath ==
  ASSUME Init PROVE PathInv
<1>1. PICK root, none : root = RootPath /\ none = NoFiles
  OBVIOUS
<1>2. /\ page = [disposed |-> FALSE, connectToken |-> 0, connecting |-> FALSE, connected |-> FALSE,
                 sessionId |-> None, keepalive |-> FALSE, failures |-> 0,
                 currentPath |-> root, files |-> none]
      /\ attempts \in 1..MaxAttempts /\ chosen = <<>> /\ gone = {} /\ refused = {}
  BY <1>1 DEF Init, ServiceInit
<1>3. /\ page.currentPath = root /\ page.files = none /\ page.connectToken = 0
      /\ page.failures = 0 /\ ~page.connected
  BY <1>2
<1>4. page.failures < attempts
  BY <1>2, <1>3, NoneIsNoId
<1>5. chosen \in Seq(DirNames) /\ Len(chosen) <= MaxDepth
  BY <1>2, PathConstants
<1>6. 0 <= MaxConnects /\ 0 <= MaxConnects + 1
  BY PathConstants
<1> QED BY <1>1, <1>2, <1>3, <1>4, <1>5, <1>6, PathConstants DEF PathInv

LEMMA NextKeepsPath ==
  ASSUME SftpInv, PathInv, [Next]_vars PROVE PathInv'
<1>1. ASSUME NEW token \in 1..MaxConnects, Connect(token) \/ OpenEnds(token) \/ Resume(token)
      PROVE  PathInv'
  BY <1>1, ConnectKeepsPath, OpenEndsKeepsPath, ResumeKeepsPath DEF Tokens
<1>2. CASE (\E name \in DirNames : GoDown(name)) \/ GoUp
  BY <1>2, GoDownKeepsPath, GoUpKeepsPath
<1>3. CASE KeepaliveTick \/ AboutToDisappear
  BY <1>3, KeepaliveKeepsPath, DisappearKeepsPath
<1>4. ASSUME NEW i \in Ids, Server(i) PROVE PathInv'
  <2>1. UNCHANGED <<page, opening, attempts, chosen, refused>> /\ gone' = gone \cup {i}
    BY <1>4 DEF Server, ServerGone
  <2> QED BY <2>1 DEF PathInv
<1>5. CASE UNCHANGED vars
  BY <1>5 DEF vars, PathInv
<1> QED BY <1>1, <1>2, <1>3, <1>4, <1>5 DEF Next

----------------------------------------------------------------------------
(* The results *)

(* The invariant of the SFTP page: session, tokens and screen together. *)
THEOREM SftpInvCorrect == Spec => []SftpInv
BY InitEstablishes, NextKeeps, PTL DEF Spec

(* Every open session is the one the page shows or the result of one connect *)
(* that will still be looked at, and a page that has been left has none.     *)
THEOREM SessionIsHeldOnceCorrect == Spec => []SessionIsHeldOnce
<1>1. ASSUME SftpInv PROVE SessionIsHeldOnce
  <2>1. page.disposed => page.sessionId = None
    BY <1>1, PageTypes DEF ScreenOK
  <2>2. ASSUME NEW i \in Ids
        PROVE  LET connects == {t \in 1..MaxConnects : opening[t] = i} IN
                 /\ Live(i) <=> (page.sessionId = i \/ connects # {})
                 /\ page.sessionId = i => connects = {}
                 /\ \A s, t \in connects : s = t
    BY <1>1, PageTypes DEF HeldOnce, Tokens
  <2> QED BY <2>1, <2>2 DEF SessionIsHeldOnce
<1> QED BY <1>1, SftpInvCorrect, PTL

(* The list on the screen is that of the page's session and path. *)
THEOREM ScreenShowsSessionCorrect == Spec => []ScreenShowsSession
<1>1. SftpInv => ScreenShowsSession
  BY PageTypes DEF ScreenOK, ScreenShowsSession
<1> QED BY <1>1, SftpInvCorrect, PTL

(* Session, tokens, screen and path together. *)
THEOREM PathInvCorrect == Spec => [](SftpInv /\ PathInv)
<1>1. Init => SftpInv /\ PathInv
  BY InitEstablishes, InitEstablishesPath
<1>2. SftpInv /\ PathInv /\ [Next]_vars => (SftpInv /\ PathInv)'
  BY NextKeeps, NextKeepsPath
<1> QED BY <1>1, <1>2, PTL DEF Spec

(* Every field of the page and of the service keeps its type, the path is    *)
(* one of characters, and a page counts fewer failures than it tolerates.    *)
THEOREM TypeCorrect == Spec => []TypeOK
<1>1. ASSUME SftpInv, PathInv PROVE TypeOK
  <2>1. page \in Page
    <3>1. page \in PageWith(page.currentPath, page.files)
      BY <1>1, PageTypes DEF Shaped
    <3>2. page.connectToken \in 0..(MaxConnects + 1)
      BY <1>1, PageTypes, NoneIsNoId DEF PathInv, Shaped, PageWith
    <3>3. page.currentPath \in Seq(Chars) /\ page.files \in Files
      BY <1>1 DEF PathInv
    <3> QED BY <3>1, <3>2, <3>3 DEF Page, PageWith, Files
  <2>2. /\ opening \in [1..MaxConnects -> Ids \cup {"none", "running", "failed"}]
        /\ status \in [Ids -> {"fresh", "open", "closed"}] /\ user = None
    BY <1>1, PageTypes DEF ServiceOK, Tokens
  <2> QED BY <1>1, <2>1, <2>2 DEF TypeOK, PathInv
<1> QED BY <1>1, PathInvCorrect, PTL

(* Whatever way the user took down and up, the path is '/' and the names of  *)
(* the directories chosen, put together with single slashes.                 *)
THEOREM PathNamesDirectoryCorrect == Spec => []PathNamesDirectory
<1>1. PathInv => PathNamesDirectory
  BY DEF PathInv, PathNamesDirectory, PathOf, Parts
<1> QED BY <1>1, PathInvCorrect, PTL
=================================================================================
