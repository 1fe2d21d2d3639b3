----------------------------- MODULE TokenCache -----------------------------
(***************************************************************************)
(* The provider portal's session cache (src/lium/provider/token_store.py)  *)
(* and the sign-in over it (src/lium/provider/client.py): `lium provider`  *)
(* processes that load, check, clear and save session tokens in one JSON   *)
(* file.  Each call of the store is a critical section of its own, under a *)
(* lock that does not wait.                                                *)
(***************************************************************************)
EXTENDS Integers, FiniteSets

CONSTANTS
  Commands,    \* processes, each with one thing to do
  Hotkeys,     \* provider accounts on this machine
  MaxSessions, \* bound: sessions the portal hands out
  MaxTries,    \* max_retries of with_refresh_retry
  NoCommand, NoHotkey

ASSUME CacheAssumption ==
  /\ NoCommand \notin Commands /\ NoHotkey \notin Hotkeys
  /\ MaxSessions \in Nat /\ MaxTries \in Nat \ {0}

VARIABLES
  saved,    \* the file: each hotkey's token, 0 for none
  holder,   \* the process that holds the flock
  owner,    \* whose each session is; NoHotkey when not handed out
  ended,    \* sessions the portal has ended, or that have expired
  hotkeyOf, task,   \* the account each process works for, and what it does
  doing,    \* each process's next step
  call,     \* the store call it makes, or retries
  copy,     \* the file as it will write it
  mine,     \* self._cached_token, or the token to save
  tries,
  meant,    \* history: what the completed calls, one after another, have left
  before,   \* history: the sessions that had ended when the process began
  unread    \* history: processes that could not read the file, or reach the portal

cacheVars == <<saved, holder, owner, ended, hotkeyOf, task, doing, call, copy, mine, tries,
               meant, before, unread>>

Sessions == 1..MaxSessions
CacheFiles == [Hotkeys -> 0..MaxSessions]
Issued == {s \in Sessions : owner[s] # NoHotkey}
Empty == [h \in Hotkeys |-> 0]
Own(c, file) == file[hotkeyOf[c]]
Finished == {"done", "failed", "killed"}

(* With: who is inside a critical section holds the lock.                  *)
TokenTypeOK ==
  /\ saved \in CacheFiles /\ meant \in CacheFiles /\ holder \in Commands \cup {NoCommand}
  /\ owner \in [Sessions -> Hotkeys \cup {NoHotkey}]
  /\ ended \subseteq Sessions /\ unread \subseteq Commands
  /\ hotkeyOf \in [Commands -> Hotkeys]
  /\ task \in [Commands -> {"login", "force", "logout", "email", "address"}]
  /\ doing \in [Commands -> {"start", "lock", "read", "replace", "check", "sign", "set"} \cup Finished]
  /\ call \in [Commands -> {"load", "save", "clear"}]
  /\ copy \in [Commands -> CacheFiles] /\ mine \in [Commands -> 0..MaxSessions]
  /\ tries \in [Commands -> 0..MaxTries] /\ before \in [Commands -> SUBSET Sessions]
  /\ \A c \in Commands : doing[c] \in {"read", "replace"} <=> holder = c

CacheInit ==
  /\ owner \in [Sessions -> Hotkeys \cup {NoHotkey}]
  /\ saved = [h \in Hotkeys |-> IF \E s \in Sessions : owner[s] = h
                                THEN CHOOSE s \in Sessions : owner[s] = h ELSE 0]
  /\ \A s, t \in Issued : owner[s] = owner[t] => s = t
  /\ \A s \in Issued : 1..s \subseteq Issued
  /\ ended = {}
  /\ hotkeyOf \in [Commands -> Hotkeys]
  /\ task \in [Commands -> {"login", "force", "logout", "email"}]
  /\ holder = NoCommand /\ doing = [c \in Commands |-> "start"]
  /\ call = [c \in Commands |-> "load"] /\ copy = [c \in Commands |-> Empty]
  /\ mine = [c \in Commands |-> 0] /\ tries = [c \in Commands |-> 0]
  /\ meant = saved /\ before = [c \in Commands |-> {}] /\ unread = {}

Put(f, c, v) == [f EXCEPT ![c] = v]
Does(c, from, to) == doing[c] = from /\ doing' = Put(doing, c, to)
SameFile == UNCHANGED <<saved, meant>>
SamePortal == UNCHANGED <<owner, ended>>
SameRest == UNCHANGED <<hotkeyOf, task, before>>

(* A call of the store begins with its lock.                               *)
Calls(c, from, what) ==
  Does(c, from, "lock") /\ call' = Put(call, c, what) /\ tries' = Put(tries, c, 0)

(* login() looks into the cache first; set_email() forces a new sign-in.   *)
Begin(c) ==
  /\ before' = Put(before, c, ended)
  /\ \/ task[c] = "login" /\ Calls(c, "start", "load")
     \/ task[c] = "logout" /\ Calls(c, "start", "clear")
     \/ task[c] \in {"force", "email"} /\ Does(c, "start", "sign") /\ UNCHANGED <<call, tries>>
  /\ SameFile /\ SamePortal /\ UNCHANGED <<holder, hotkeyOf, task, copy, mine, unread>>

-----------------------------------------------------------------------------
(* The store.  LOCK_NB: contention is an error, retried a few times, and   *)
(* then the caller's.  Faulty: a shared lock.                              *)
LockCacheFaulty(c) ==
  /\ Does(c, "lock", "read") /\ holder' = c
  /\ SameFile /\ SamePortal /\ SameRest /\ UNCHANGED <<call, copy, mine, tries, unread>>
LockCache(c) ==
  /\ \/ Does(c, "lock", "read") /\ holder = NoCommand /\ holder' = c /\ UNCHANGED tries
     \/ /\ holder # NoCommand /\ tries' = Put(tries, c, tries[c] + 1) /\ UNCHANGED holder
        /\ Does(c, "lock", IF tries'[c] = MaxTries THEN "failed" ELSE "lock")
  /\ SameFile /\ SamePortal /\ SameRest /\ UNCHANGED <<call, copy, mine, unread>>

(* What follows a save or a clear.                                         *)
AfterStore(c) ==
  IF call[c] = "clear" /\ task[c] = "login" THEN "sign"
  ELSE IF task[c] = "email" THEN "set" ELSE "done"

(* _read_all: a file that cannot be read counts as empty.  A load ends     *)
(* here, without the entry where it has expired; so does a clear without   *)
(* an entry to remove.  A save, or a clear with one, makes its new file.   *)
Loads(c, own) ==
  /\ call[c] = "load" /\ holder' = NoCommand /\ UNCHANGED copy
  /\ \/ own # 0 /\ Does(c, "read", "check") /\ mine' = Put(mine, c, own)
     \/ own \in ended \cup {0} /\ Does(c, "read", "sign") /\ mine' = Put(mine, c, 0)
ReadCache(c) ==
  /\ \E readable \in BOOLEAN :
       LET data == IF readable THEN saved ELSE Empty
           nothing == call[c] = "clear" /\ Own(c, data) = 0
       IN /\ unread' = IF readable THEN unread ELSE unread \cup {c}
          /\ \/ Loads(c, Own(c, data))
             \/ /\ nothing /\ Does(c, "read", AfterStore(c)) /\ holder' = NoCommand
                /\ UNCHANGED <<copy, mine>>
             \/ /\ call[c] # "load" /\ ~nothing /\ Does(c, "read", "replace")
                /\ copy' = Put(copy, c, Put(data, hotkeyOf[c], IF call[c] = "save" THEN mine[c] ELSE 0))
                /\ UNCHANGED <<holder, mine>>
  /\ SameFile /\ SamePortal /\ SameRest /\ UNCHANGED <<call, tries>>

(* _write_all: a temporary file, then os.replace.  Faulty: the file is     *)
(* emptied and written in place, and the process may be killed in between. *)
ReplaceCacheFaulty(c) ==
  /\ holder' = NoCommand
  /\ \/ /\ Does(c, "replace", AfterStore(c)) /\ saved' = copy[c]
        /\ meant' = Put(meant, hotkeyOf[c], Own(c, copy[c]))
     \/ Does(c, "replace", "killed") /\ saved' = Empty /\ UNCHANGED meant
  /\ SamePortal /\ SameRest /\ UNCHANGED <<call, copy, mine, tries, unread>>
ReplaceCache(c) ==
  /\ Does(c, "replace", AfterStore(c)) /\ holder' = NoCommand
  /\ saved' = copy[c] /\ meant' = Put(meant, hotkeyOf[c], Own(c, copy[c]))
  /\ copy' = Put(copy, c, Empty)
  /\ SamePortal /\ SameRest /\ UNCHANGED <<call, mine, tries, unread>>

-----------------------------------------------------------------------------
(* _session_ended: GET /auth/me with the cached token.  Only a 401 ends    *)
(* it: where the portal cannot be asked, it is kept.                       *)
CheckSession(c) ==
  /\ \/ mine[c] \notin ended /\ Does(c, "check", "done") /\ UNCHANGED <<call, tries, mine, unread>>
     \/ Does(c, "check", "done") /\ unread' = unread \cup {c} /\ UNCHANGED <<call, tries, mine>>
     \/ /\ mine[c] \in ended /\ Calls(c, "check", "clear")
        /\ mine' = Put(mine, c, 0) /\ UNCHANGED unread
  /\ SameFile /\ SamePortal /\ SameRest /\ UNCHANGED <<holder, copy>>

(* The portal's answer to a signature, or a refusal.                       *)
NewSession(c, s) ==
  /\ s \in Sessions \ Issued /\ 1..(s - 1) \subseteq Issued
  /\ owner' = Put(owner, s, hotkeyOf[c]) /\ mine' = Put(mine, c, s)
SignIn(c) ==
  /\ \/ (\E s \in Sessions : NewSession(c, s)) /\ Calls(c, "sign", "save")
     \/ Does(c, "sign", "failed") /\ UNCHANGED <<owner, mine, call, tries>>
  /\ SameFile /\ SameRest /\ UNCHANGED <<holder, ended, copy, unread>>

(* set_email: every earlier session of the account ends, and the answer    *)
(* brings the next one.                                                    *)
SetEmail(c) ==
  /\ \/ /\ \E s \in Sessions : NewSession(c, s)
        /\ ended' = ended \cup {s \in Issued : owner[s] = hotkeyOf[c]}
        /\ task' = Put(task, c, "address") /\ Calls(c, "set", "save")
     \/ /\ mine[c] \in ended \/ Issued = Sessions
        /\ Does(c, "set", "failed") /\ UNCHANGED <<owner, ended, mine, task, call, tries>>
  /\ SameFile /\ UNCHANGED <<holder, hotkeyOf, copy, before, unread>>

-----------------------------------------------------------------------------
(* The file on disk is the old or the new one; the flock is let go.        *)
CommandKilled(c) ==
  /\ doing[c] \notin Finished /\ doing' = Put(doing, c, "killed")
  /\ holder' = IF holder = c THEN NoCommand ELSE holder
  /\ copy' = Put(copy, c, Empty) /\ mine' = Put(mine, c, 0)
  /\ SameFile /\ SamePortal /\ SameRest /\ UNCHANGED <<call, tries, unread>>

(* Signed out everywhere, revoked, or expired.                             *)
SessionEnds ==
  /\ \E s \in Issued \ ended : ended' = ended \cup {s}
  /\ UNCHANGED <<saved, holder, owner, hotkeyOf, task, doing, call, copy, mine, tries,
                 meant, before, unread>>

CacheNext ==
  \/ \E c \in Commands :
       \/ Begin(c) \/ LockCache(c) \/ ReadCache(c) \/ ReplaceCache(c)
       \/ CheckSession(c) \/ SignIn(c) \/ SetEmail(c) \/ CommandKilled(c)
  \/ SessionEnds

CacheSpec == CacheInit /\ [][CacheNext]_cacheVars

-----------------------------------------------------------------------------
(* The file is what the completed calls, one after another, make of it: no *)
(* entry of another account is lost and no save undone, whoever else reads *)
(* and writes, and wherever a process is killed.  It may not hold after a  *)
(* read that failed for a moment, which counts as an empty file.           *)
CacheIsLastWord == unread = {} => saved = meant

(* A sign-in that succeeds leaves the process with a session that the      *)
(* portal had not ended when it began, unless the portal could not be      *)
(* asked about the cached one (login: "a 401 means the portal ended the    *)
(* session").                                                              *)
SignInIsLive ==
  \A c \in Commands \ unread :
    doing[c] = "done" /\ task[c] # "logout" => mine[c] \notin before[c] \cup {0}

(* Every process of the account can go on with what the file says.         *)
SessionsAreKept == CacheIsLastWord /\ SignInIsLive

=============================================================================
