----------------------------- MODULE CodexAuth -----------------------------
(***************************************************************************)
(* The token store of codex-auth and who uses it: processes that ask for a *)
(* valid access token, log in through the browser, or log out.  They share *)
(* the store, its .tmp file, the callback port and the account: the server *)
(* may answer a refresh with a new refresh token and retire the old one,   *)
(* keep the old one alive, or send none.  A process may die at any step    *)
(* and what the server answers may get lost.                               *)
(*                                                                         *)
(* A token pair is a number; its access token may expire, and its refresh  *)
(* token is live as long as the server would take it.                      *)
(***************************************************************************)
EXTENDS Naturals, FiniteSets

CONSTANTS
  Callers,
  MaxIssued,   \* bound of the model: token pairs the server issues
  Nobody

ASSUME MaxIssuedAssumption == MaxIssued \in Nat
ASSUME NobodyAssumption == Nobody \notin Callers \cup {"tmp", "store", "gone"}

VARIABLES
  step,     \* where each process is
  held,     \* the token pair it holds, 0 for none
  whole,    \* what it holds has a refresh token
  fd,       \* the file its open descriptor writes to, or Nobody
  store,    \* auth.json
  tmp,      \* auth.json.tmp
  port,     \* the process that listens for the callback, or Nobody
  issued,   \* pairs the server has issued
  live,     \* those whose refresh token the server takes
  expired,  \* those whose access token has run out
  crowded,  \* history: two processes have saved at the same time
  stranded  \* history: a refresh was lost, overtaken, or answered without a token

authVars == <<step, held, whole, fd, store, tmp, port, issued, live, expired, crowded, stranded>>
server == <<issued, live, expired>>

Pairs == 1..MaxIssued

(* A file: absent, cut short, or a token pair with or without its refresh  *)
(* token.                                                                  *)
File == [kind : {"absent", "torn", "auth"}, pair : 0..MaxIssued, whole : BOOLEAN]
Absent == [kind |-> "absent", pair |-> 0, whole |-> FALSE]
TornFile == [kind |-> "torn", pair |-> 0, whole |-> FALSE]
Auth(n, hasRefresh) == [kind |-> "auth", pair |-> n, whole |-> hasRefresh]

Steps == {"idle", "listening", "exchange", "refresh", "answered", "open", "write",
          "rename", "ready", "failed"}

(* A process holds tokens that only it knows of.                           *)
Unsaved(c) == step[c] \in {"answered", "open", "write", "rename"}
Saving(c) == step[c] \in {"write", "rename"}

Go(c, label) == step' = [step EXCEPT ![c] = label]
Hold(c, n, hasRefresh) ==
  held' = [held EXCEPT ![c] = n] /\ whole' = [whole EXCEPT ![c] = hasRefresh]

AuthInit ==
  /\ step = [c \in Callers |-> "idle"]
  /\ held = [c \in Callers |-> 0]
  /\ whole = [c \in Callers |-> FALSE]
  /\ fd = [c \in Callers |-> Nobody]
  /\ store = Absent /\ tmp = Absent
  /\ port = Nobody
  /\ issued = 0 /\ live = {} /\ expired = {}
  /\ crowded = FALSE /\ stranded = FALSE

-----------------------------------------------------------------------------
(* login: startCallbackServerAndOpenBrowser and exchangeCode.              *)

(* The callback port is taken: the server's error event rejects.           *)
Listen(c) ==
  /\ step[c] = "idle"
  /\ IF port = Nobody THEN port' = c /\ Go(c, "listening")
     ELSE Go(c, "failed") /\ UNCHANGED port
  /\ UNCHANGED <<held, whole, fd, store, tmp, server, crowded, stranded>>

(* Mutant of CloseServer: the handler leaves the server open.              *)
LeaveOpen == UNCHANGED port

CloseServer == port' = Nobody

(* The browser calls back with a code.                                     *)
Callback(c) ==
  /\ step[c] = "listening"
  /\ Go(c, "exchange")
  /\ CloseServer
  /\ UNCHANGED <<held, whole, fd, store, tmp, server, crowded, stranded>>

(* It calls back with an error or without a code.                          *)
CallbackError(c) ==
  /\ step[c] = "listening"
  /\ Go(c, "failed")
  /\ CloseServer
  /\ UNCHANGED <<held, whole, fd, store, tmp, server, crowded, stranded>>

(* The timer of 120 seconds.                                               *)
Timeout(c) ==
  /\ step[c] = "listening"
  /\ Go(c, "failed")
  /\ CloseServer
  /\ UNCHANGED <<held, whole, fd, store, tmp, server, crowded, stranded>>

Issue == issued < MaxIssued /\ issued' = issued + 1 /\ UNCHANGED expired

(* The server takes the code and issues a first pair.                      *)
Exchange(c) ==
  /\ step[c] = "exchange"
  /\ Issue
  /\ live' = live \cup {issued'}
  /\ Hold(c, issued', TRUE)
  /\ Go(c, "open")
  /\ UNCHANGED <<fd, store, tmp, port, crowded, stranded>>

RequestFails(c) ==
  /\ step[c] \in {"exchange", "refresh"}
  /\ Go(c, "failed")
  /\ UNCHANGED <<held, whole, fd, store, tmp, port, server, crowded, stranded>>

-----------------------------------------------------------------------------
(* getValidAccessToken: loadAuth, refresh, saveAuth.                       *)

(* No store, or one that does not parse or lacks a token, throws; a pair   *)
(* that is not about to expire is used as it is.                           *)
Load(c) ==
  /\ step[c] = "idle"
  /\ IF store.kind = "auth" /\ store.whole
     THEN /\ Hold(c, store.pair, TRUE)
          /\ Go(c, IF store.pair \in expired THEN "refresh" ELSE "ready")
     ELSE Go(c, "failed") /\ UNCHANGED <<held, whole>>
  /\ UNCHANGED <<fd, store, tmp, port, server, crowded, stranded>>

(* The server takes the refresh token and issues a new pair: it retires    *)
(* the old refresh token, keeps it, or keeps it and sends no other.  From  *)
(* here on the account depends on the answer being saved.                  *)
Refresh(c) ==
  /\ step[c] = "refresh" /\ held[c] \in live
  /\ Issue
  /\ \/ live' = (live \ {held[c]}) \cup {issued'} /\ Hold(c, issued', TRUE)
     \/ live' = live \cup {issued'} /\ Hold(c, issued', TRUE)
     \/ UNCHANGED live /\ Hold(c, issued', FALSE)
  /\ Go(c, "answered")
  /\ stranded' = (stranded \/ ~whole'[c] \/ \E d \in Callers \ {c} : Unsaved(d))
  /\ UNCHANGED <<fd, store, tmp, port, crowded>>

RefreshRefused(c) ==
  /\ step[c] = "refresh" /\ held[c] \notin live
  /\ Go(c, "failed")
  /\ UNCHANGED <<held, whole, fd, store, tmp, port, server, crowded, stranded>>

(* Mutant of Receive: the new pair is returned and not saved.              *)
ReceiveUnsaved(c) ==
  /\ step[c] = "answered"
  /\ Go(c, "ready")
  /\ UNCHANGED <<held, whole, fd, store, tmp, port, server, crowded, stranded>>

Receive(c) ==
  /\ step[c] = "answered"
  /\ Go(c, "open")
  /\ UNCHANGED <<held, whole, fd, store, tmp, port, server, crowded, stranded>>

Lost(c) ==
  /\ step[c] = "answered"
  /\ Go(c, "failed")
  /\ stranded' = TRUE
  /\ UNCHANGED <<held, whole, fd, store, tmp, port, server, crowded>>

-----------------------------------------------------------------------------
(* saveAuth: writeFile opens the .tmp file and truncates it, writes, and   *)
(* renames it.  A descriptor follows its file through a rename.            *)

(* Mutant of OpenTmp: the store is written in place.                       *)
OpenStore(c) ==
  /\ step[c] = "open"
  /\ store' = TornFile
  /\ fd' = [fd EXCEPT ![c] = "store"]
  /\ Go(c, "write")
  /\ crowded' = (crowded \/ \E d \in Callers \ {c} : Saving(d))
  /\ UNCHANGED <<held, whole, tmp, port, server, stranded>>

OpenTmp(c) ==
  /\ step[c] = "open"
  /\ tmp' = TornFile
  /\ fd' = [fd EXCEPT ![c] = "tmp"]
  /\ Go(c, "write")
  /\ crowded' = (crowded \/ \E d \in Callers \ {c} : Saving(d))
  /\ UNCHANGED <<held, whole, store, port, server, stranded>>

(* Over what another process has written, the end of the longer one stays. *)
Written(c, f) ==
  IF f.kind = "torn" THEN {Auth(held[c], whole[c])}
  ELSE {Auth(held[c], whole[c]), TornFile}

CloseFile(c) == fd' = [fd EXCEPT ![c] = Nobody]

WriteTmp(c) ==
  /\ step[c] = "write"
  /\ \/ fd[c] = "tmp" /\ tmp' \in Written(c, tmp) /\ UNCHANGED store
     \/ fd[c] = "store" /\ store' \in Written(c, store) /\ UNCHANGED tmp
     \/ fd[c] = "gone" /\ UNCHANGED <<tmp, store>>
  /\ CloseFile(c)
  /\ Go(c, "rename")
  /\ UNCHANGED <<held, whole, port, server, crowded, stranded>>

(* Where the others' descriptors point once .tmp has become the store.     *)
Followed ==
  [d \in Callers |->
     CASE fd[d] = "tmp" -> "store" [] fd[d] = "store" -> "gone" [] OTHER -> fd[d]]

(* The last of all: the token is returned.  Another process may have       *)
(* renamed the file away, and then the save throws.                        *)
RenameTmp(c) ==
  /\ step[c] = "rename"
  /\ IF tmp.kind = "absent"
     THEN Go(c, "failed") /\ UNCHANGED <<fd, store, tmp>>
     ELSE /\ store' = tmp /\ tmp' = Absent
          /\ fd' = Followed
          /\ Go(c, "ready")
  /\ UNCHANGED <<held, whole, port, server, crowded, stranded>>

-----------------------------------------------------------------------------
(* The process ends its call, and forgets what it held.                    *)
Done(c) ==
  /\ step[c] \in {"ready", "failed"}
  /\ Go(c, "idle")
  /\ Hold(c, 0, FALSE)
  /\ UNCHANGED <<fd, store, tmp, port, server, crowded, stranded>>

(* codex-login logout: the store is removed, the .tmp file is not.         *)
Logout(c) ==
  /\ step[c] = "idle" /\ store.kind # "absent"
  /\ store' = Absent
  /\ UNCHANGED <<step, held, whole, fd, tmp, port, server, crowded, stranded>>

Dies(c) ==
  /\ step[c] \notin {"idle", "ready", "failed"}
  /\ Go(c, "idle")
  /\ Hold(c, 0, FALSE)
  /\ CloseFile(c)
  /\ port' = (IF port = c THEN Nobody ELSE port)
  /\ stranded' = (stranded \/ Unsaved(c))
  /\ UNCHANGED <<store, tmp, server, crowded>>

Expire ==
  /\ \E n \in (1..issued) \ expired : expired' = expired \cup {n}
  /\ UNCHANGED <<step, held, whole, fd, store, tmp, port, issued, live, crowded, stranded>>

Saves(c) == OpenTmp(c) \/ WriteTmp(c) \/ RenameTmp(c)

Tokens(c) ==
  \/ Load(c) \/ Refresh(c) \/ RefreshRefused(c) \/ Receive(c) \/ Lost(c)
  \/ RequestFails(c) \/ Saves(c)

Logins(c) == Listen(c) \/ Callback(c) \/ CallbackError(c) \/ Timeout(c) \/ Exchange(c)

AuthNext ==
  \/ \E c \in Callers : Tokens(c) \/ Logins(c) \/ Done(c) \/ Logout(c) \/ Dies(c)
  \/ Expire

AuthSpec == AuthInit /\ [][AuthNext]_authVars

-----------------------------------------------------------------------------
(* Properties.                                                             *)

(* Type invariant: a process holds a pair while it refreshes and saves,    *)
(* and has a descriptor open only while it writes.                         *)
AuthTypeOK ==
  /\ step \in [Callers -> Steps]
  /\ held \in [Callers -> 0..issued] /\ whole \in [Callers -> BOOLEAN]
  /\ \A c \in Callers : Unsaved(c) \/ step[c] = "refresh" => held[c] # 0
  /\ \A c \in Callers :
       /\ fd[c] = Nobody \/ fd[c] \in {"tmp", "store", "gone"}
       /\ (fd[c] # Nobody) = (step[c] = "write")
  /\ store \in File /\ tmp \in File
  /\ port = Nobody \/ port \in Callers
  /\ issued \in 0..MaxIssued /\ live \subseteq 1..issued /\ expired \subseteq 1..issued
  /\ crowded \in BOOLEAN /\ stranded \in BOOLEAN

(* The store is never cut short as long as one process saves at a time,    *)
(* wherever it dies ("write to .tmp then rename for atomicity").           *)
StoreWhole == ~crowded => store.kind # "torn"

(* As long as every refresh was saved before the next, and brought a       *)
(* refresh token, the account can be used again without a login: what is   *)
(* stored is a pair the server would refresh, except between the server's  *)
(* answer and the rename.                                                  *)
SessionKept ==
  ~crowded /\ ~stranded /\ store.kind = "auth" /\ (\A c \in Callers : ~Unsaved(c)) =>
    store.whole /\ store.pair \in live

(* The callback port is held by a login that waits for its callback and    *)
(* by no other: it is released on every way out, the timer's included.     *)
PortReleased == \A c \in Callers : port = c <=> step[c] = "listening"
=============================================================================
