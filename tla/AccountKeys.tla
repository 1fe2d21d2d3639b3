----------------------------- MODULE AccountKeys ------------------------------
(***************************************************************************)
(* ~/.lium/config.ini, the keys in it and the commands that put them there *)
(* (src/lium/cli/settings.py, cli/signup, cli/init, cli/config, cli/keys,  *)
(* cli/workspaces, cli/topup, sdk/config.py).  A process reads the file    *)
(* when it starts and writes all of what it read back with every option it *)
(* sets: the last writer wins, and whoever started earlier brings the old  *)
(* values back.  Options that belong together are set one after the other. *)
(*                                                                         *)
(* A rent key stands for its account, a workspace's key for its workspace; *)
(* the workspaces here all have one name, so they share a section.  No key *)
(* is given by the environment, which would override the file.             *)
(***************************************************************************)
EXTENDS Naturals, Sequences, FiniteSets

CONSTANTS
  Shells,      \* processes of the CLI, one command at a time
  Accounts,
  Teams,       \* workspaces
  MaxCommands, \* bound: commands started
  MaxCuts,     \* bound: commands cut short
  NotSet

ASSUME KeysAssumption ==
  /\ NotSet \notin Accounts \cup Teams /\ Accounts \cap Teams = {}
  /\ MaxCommands \in Nat /\ MaxCuts \in Nat

VARIABLES
  file,      \* config.ini, see Options
  view,      \* process -> _config, what it read or last wrote, if one runs
  todo,      \* process -> the rest of its command, step by step
  whose,     \* process -> the account or workspace it works for
  existing,  \* server: accounts
  told,      \* history: accounts without e-mail whose fingerprint was saved
  shown,     \* history: accounts whose login the user was given, or copied
  reverted,  \* history: a process has written over what it had not read
  halfBound, \* history: a billing key was left, or read, with another's tag
  commands, cuts

keysVars == <<file, view, todo, whose, existing, told, shown, reverted, halfBound, commands, cuts>>
serverAndUser == <<existing, told, shown>>

Options ==
  [key : Accounts \cup {NotSet},         \* [api] api_key
   fingerprint : Accounts \cup {NotSet}, \* [account] fingerprint
   billing : Accounts \cup {NotSet},     \* [api] billing_api_key
   tag : Accounts \cup {NotSet},         \* [api] billing_key_for
   active : BOOLEAN,                     \* [workspaces] active
   id : Teams \cup {NotSet},             \* [workspace.<name>] id
   teamKey : Teams \cup {NotSet}]        \* [workspace.<name>] api_key
KeySteps ==
  {"account", "fingerprint", "key", "ssh", "billing", "tag", "show", "login",
   "unset_key", "unset_fingerprint", "unset_billing",
   "active", "mint", "id", "team_key", "forget", "inactive"}

KeysTypeOK ==
  /\ file \in Options /\ view \in [Shells -> Options \cup {NotSet}] /\ todo \in [Shells -> Seq(KeySteps)]
  /\ whose \in [Shells -> Accounts \cup Teams \cup {NotSet}]
  /\ existing \subseteq Accounts /\ told \subseteq existing /\ shown \subseteq Accounts
  /\ reverted \in BOOLEAN /\ halfBound \in BOOLEAN
  /\ commands \in 0..MaxCommands /\ cuts \in 0..MaxCuts

(* What a signup and the unsets after it leave: a billing key has its tag, *)
(* the tag stays when the keys go.                                         *)
KeysInit ==
  /\ \E earlier \in Accounts \cup {NotSet} :
       /\ existing = {earlier} \ {NotSet}
       /\ file \in {f \in Options :
            /\ {f.key, f.fingerprint, f.billing, f.tag} \subseteq {earlier, NotSet}
            /\ (f.billing # NotSet => f.tag # NotSet)
            /\ ~f.active /\ f.id = NotSet /\ f.teamKey = NotSet}
  /\ view = [s \in Shells |-> NotSet] /\ todo = [s \in Shells |-> <<>>]
  /\ whose = [s \in Shells |-> NotSet] /\ told = {} /\ shown = existing
  /\ reverted = FALSE /\ halfBound = FALSE /\ commands = 0 /\ cuts = 0

-----------------------------------------------------------------------------
(* ConfigManager.                                                          *)

IsAt(s, step) == todo[s] # <<>> /\ Head(todo[s]) = step
StepsTo(s, steps) == todo' = [todo EXCEPT ![s] = steps]
GoesOn(s) == todo[s] # <<>> /\ StepsTo(s, Tail(todo[s]))
Ends(s) == StepsTo(s, <<>>)

(* What a process has read is gone with it.                                *)
Keeps(s, options, who) ==
  LET over == todo'[s] = <<>>
  IN /\ view' = [view EXCEPT ![s] = IF over THEN NotSet ELSE options]
     /\ whose' = [whose EXCEPT ![s] = IF over THEN NotSet ELSE who]

(* __init__, _load_config: a command starts.                               *)
BetweenTheTwo == \E s \in Shells : IsAt(s, "tag")
Starts(s, steps, who) ==
  /\ todo[s] = <<>> /\ commands < MaxCommands /\ commands' = commands + 1
  /\ StepsTo(s, steps) /\ Keeps(s, file, who)
  /\ halfBound' = (halfBound \/ BetweenTheTwo)
  /\ UNCHANGED <<file, serverAndUser, reverted, cuts>>

(* set, set_in_section, unset, remove_section, and _save_config: the whole *)
(* view, in one piece.                                                     *)
Saves(s, options) ==
  /\ file' = options /\ Keeps(s, options, whose[s])
  /\ reverted' = (reverted \/ view[s] # file)
  /\ UNCHANGED <<halfBound, commands, cuts>>
SavesNothing(s) ==
  /\ Keeps(s, view[s], whose[s]) /\ UNCHANGED <<file, reverted, halfBound, commands, cuts>>

(* A command is killed, or fails to save.                                  *)
CutShort(s) ==
  /\ todo[s] # <<>> /\ Ends(s) /\ cuts < MaxCuts /\ cuts' = cuts + 1
  /\ halfBound' = (halfBound \/ IsAt(s, "tag"))
  /\ Keeps(s, view[s], whose[s]) /\ UNCHANGED <<file, serverAndUser, reverted, commands>>

(* Any other option is set or unset; the file may hold it already.         *)
SaveOther(s) ==
  /\ IsAt(s, "ssh") /\ GoesOn(s)
  /\ Saves(s, view[s]) \/ SavesNothing(s)
  /\ UNCHANGED serverAndUser

-----------------------------------------------------------------------------
(* `lium signup`.                                                          *)

(* refuse_if_key_configured.  Faulty: of an earlier account only the key   *)
(* counts.                                                                 *)
RefusesFaulty(options) == options.key # NotSet
Refuses(options) ==
  options.fingerprint # NotSet \/ options.billing # NotSet \/ options.key # NotSet

SignupSteps(email, billing) ==
  IF email
  THEN IF billing THEN <<"account", "key", "ssh", "billing", "tag", "show">>
                  ELSE <<"account", "key", "ssh", "show">>
  ELSE IF billing THEN <<"account", "fingerprint", "key", "ssh", "billing", "tag", "show">>
                  ELSE <<"account", "fingerprint", "key", "ssh", "show">>
SignupStarts(s, email, billing) ==
  ~Refuses(file) /\ Starts(s, SignupSteps(email, billing), NotSet)

(* POST /users or /auth/signup: refused; or done, and the answer comes or  *)
(* not.  Then e-mail and password are named, and the account without       *)
(* e-mail is nobody's.                                                     *)
MakeAccount(s) ==
  /\ IsAt(s, "account") /\ UNCHANGED <<file, told, reverted, halfBound, commands, cuts>>
  /\ \/ Ends(s) /\ Keeps(s, view[s], NotSet) /\ UNCHANGED <<existing, shown>>
     \/ \E a \in Accounts \ existing :
          /\ existing' = existing \cup {a}
          /\ \/ GoesOn(s) /\ UNCHANGED shown
             \/ Ends(s) /\ shown' = shown \cup (IF todo[s][2] = "key" THEN {a} ELSE {})
          /\ Keeps(s, view[s], a)

SaveFingerprint(s) ==
  /\ IsAt(s, "fingerprint") /\ GoesOn(s)
  /\ Saves(s, [view[s] EXCEPT !.fingerprint = whose[s]])
  /\ told' = told \cup {whose[s]} /\ UNCHANGED <<existing, shown>>

(* The key of the answer, one read back, or one minted; or none, and the   *)
(* command fails with the login.                                           *)
SaveKey(s) ==
  /\ IsAt(s, "key")
  /\ \/ GoesOn(s) /\ Saves(s, [view[s] EXCEPT !.key = whose[s]]) /\ UNCHANGED shown
     \/ Ends(s) /\ SavesNothing(s) /\ shown' = shown \cup {whose[s]}
  /\ UNCHANGED <<existing, told>>

(* MintBillingKeyAction: the key, then its tag, from the view.  A key that *)
(* is refused, or of other scopes and revoked, is not fatal.               *)
SaveBilling(s) ==
  /\ IsAt(s, "billing")
  /\ \/ GoesOn(s) /\ Saves(s, [view[s] EXCEPT !.billing = whose[s]])
     \/ StepsTo(s, <<"show">>) /\ SavesNothing(s)
  /\ UNCHANGED serverAndUser
SaveTag(s) ==
  /\ IsAt(s, "tag") /\ GoesOn(s)
  /\ Saves(s, [view[s] EXCEPT !.tag = view[s].key]) /\ UNCHANGED serverAndUser

ShowLogin(s) ==
  /\ IsAt(s, "show") /\ GoesOn(s) /\ SavesNothing(s)
  /\ shown' = shown \cup {whose[s]} /\ UNCHANGED <<existing, told>>

-----------------------------------------------------------------------------
(* `lium init`, `lium config`.                                             *)

(* A login or --api-key, over a saved key or not, for any account the user *)
(* can enter; a saved key that works may also just be kept.                *)
InitStarts(s, a) == a \in shown /\ Starts(s, <<"login", "ssh">>, a)
OtherStarts(s) == Starts(s, <<"ssh">>, NotSet)

(* The saved key is replaced only once there is a new one.                 *)
Login(s) ==
  /\ IsAt(s, "login") /\ UNCHANGED serverAndUser
  /\ \/ GoesOn(s) /\ Saves(s, [view[s] EXCEPT !.key = whose[s]])
     \/ Ends(s) /\ SavesNothing(s)

(* `config unset`, of a fingerprint only after the user copied it, as a    *)
(* refused signup tells him to.                                            *)
UnsetStep ==
  [key |-> "unset_key", billing |-> "unset_billing", fingerprint |-> "unset_fingerprint"]
UnsetStarts(s) == \E option \in DOMAIN UnsetStep : Starts(s, <<UnsetStep[option]>>, NotSet)
UnsetOption(s) ==
  \E option \in DOMAIN UnsetStep :
    /\ IsAt(s, UnsetStep[option]) /\ GoesOn(s) /\ UNCHANGED <<existing, told>>
    /\ IF view[s][option] = NotSet THEN SavesNothing(s)
       ELSE Saves(s, [view[s] EXCEPT ![option] = NotSet])
    /\ shown' = shown \cup (IF option = "fingerprint" THEN {view[s].fingerprint} \ {NotSet} ELSE {})

-----------------------------------------------------------------------------
(* `lium workspaces use` and `delete`, `lium keys create --save`.          *)

(* _free_section: the section of another workspace of the name is refused. *)
Free(options, t) == options.id \in {NotSet, t}

(* Without a key of the workspace, `use` and `create --use` only select it.*)
UseStarts(s, t) ==
  /\ Free(file, t)
  /\ Starts(s, <<"active">>, t) \/ Starts(s, <<"active", "id", "team_key">>, t)
CreateStarts(s, t) == Free(file, t) /\ Starts(s, <<"mint", "id", "team_key">>, t)
DeleteStarts(s, t) == Starts(s, <<"forget", "inactive">>, t)

(* POST /keys; a key minted without the cap asked for is revoked, or named *)
(* for the user to revoke, and not saved.                                  *)
MintKey(s) ==
  /\ IsAt(s, "mint") /\ (GoesOn(s) \/ Ends(s)) /\ SavesNothing(s) /\ UNCHANGED serverAndUser

SaveTeam(s) ==
  /\ GoesOn(s) /\ UNCHANGED serverAndUser
  /\ \/ IsAt(s, "active") /\ Saves(s, [view[s] EXCEPT !.active = TRUE])
     \/ IsAt(s, "id") /\ Saves(s, [view[s] EXCEPT !.id = whose[s]])
     \/ IsAt(s, "team_key") /\ Saves(s, [view[s] EXCEPT !.teamKey = whose[s]])

(* DELETE /workspaces may fail.  _forget: not the section of another       *)
(* workspace; the default goes with its name.                              *)
Forget(s) ==
  /\ IsAt(s, "forget") /\ UNCHANGED serverAndUser
  /\ \/ Ends(s) /\ SavesNothing(s)
     \/ /\ Free(view[s], whose[s])
        /\ IF view[s].active THEN GoesOn(s) ELSE Ends(s)
        /\ IF <<view[s].id, view[s].teamKey>> = <<NotSet, NotSet>> THEN SavesNothing(s)
           ELSE Saves(s, [view[s] EXCEPT !.id = NotSet, !.teamKey = NotSet])
Inactive(s) ==
  /\ IsAt(s, "inactive") /\ GoesOn(s) /\ Saves(s, [view[s] EXCEPT !.active = FALSE])
  /\ UNCHANGED serverAndUser

-----------------------------------------------------------------------------
KeysNext ==
  \E s \in Shells :
    \/ \E email, billing \in BOOLEAN : SignupStarts(s, email, billing)
    \/ \E a \in Accounts : InitStarts(s, a)
    \/ OtherStarts(s) \/ UnsetStarts(s)
    \/ \E t \in Teams : UseStarts(s, t) \/ CreateStarts(s, t) \/ DeleteStarts(s, t)
    \/ SaveOther(s) \/ MakeAccount(s) \/ SaveFingerprint(s) \/ SaveKey(s)
    \/ SaveBilling(s) \/ SaveTag(s) \/ ShowLogin(s) \/ Login(s) \/ UnsetOption(s)
    \/ MintKey(s) \/ SaveTeam(s) \/ Forget(s) \/ Inactive(s) \/ CutShort(s)
KeysSpec == KeysInit /\ [][KeysNext]_keysVars

-----------------------------------------------------------------------------
(* Config.load: whose key a command runs with.                             *)
RunsAs ==
  IF file.active /\ file.teamKey # NotSet THEN file.teamKey ELSE file.key
(* billing_client: whose key pays.                                         *)
PaysAs ==
  IF ~file.active /\ file.tag # NotSet /\ file.tag = file.key /\ file.billing # NotSet
  THEN file.billing ELSE RunsAs

(* The account that rents is the one that pays ("the saved billing key     *)
(* goes with the rent key it was minted next to", billing_client).  Does   *)
(* not hold of a billing key that was left, or read, before its tag was    *)
(* written: the tag of an earlier account may still be there.              *)
PaysWhereItRents == PaysAs = RunsAs
(* The same of all other files, whoever wrote last and from whatever view. *)
MoneyGoesHome == ~halfBound => PaysWhereItRents

(* "The fingerprint first: it is the only way back into the account,       *)
(* whatever happens next" (FingerprintSignupAction): once it was saved it  *)
(* is in the file until the user has it, unless a process wrote over what  *)
(* it had not read.                                                        *)
LoginIsKept ==
  ~reverted => \A a \in told : a \in shown \/ file.fingerprint = a

(* "A key acts in exactly one workspace" (Config.load): a section's key is *)
(* of the workspace whose id it holds, also of one cut short, and whatever *)
(* older view came back.                                                   *)
SectionIsOneWorkspaces == file.teamKey # NotSet => file.teamKey = file.id

(* The keys in the file lead where the code says they lead.                *)
KeysLeadHome == MoneyGoesHome /\ LoginIsKept /\ SectionIsOneWorkspaces
==============================================================================
