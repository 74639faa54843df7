---------------------------- MODULE SettingsPage -----------------------------
(* The browser's settings page over the settings server: what each open page    *)
(* holds of the configuration, which forms it filled from it, and which saves   *)
(* the server takes. Content is abstracted to where it comes from: the reset    *)
(* generation and the mailbox a form was filled from.                           *)
EXTENDS Naturals

CONSTANTS
  Tabs,
  Mailboxes,       \* ids an account may have besides Primary
  Primary,         \* the id the registry gives the connection of the defaults
  MaxResets,       \* bounds: resets, saves, fetches and restarts
  MaxSaves, MaxFetches, MaxRestarts

Ids == Mailboxes \cup {Primary}
BuiltIn == "page"  \* what the page's markup is filled with
Source(gen, of, via) == [gen |-> gen, of |-> of, via |-> via]
Markup == Source(0, BuiltIn, "markup")
Absent == Source(0, "nobody", "markup")
NoForm == [id |-> "nobody", of |-> Absent]
NoSave == [kind |-> "none", expected |-> 0, session |-> 0, id |-> "nobody", of |-> Absent]

VARIABLES
  config,    \* generation, registry, active id, and the source of each section
  tab,       \* what each open page shows
  posted,    \* the save each page is waiting for
  fetched,   \* the configuration on its way to each page
  process,   \* the settings server's process
  used       \* resets, saves and fetches so far

page_vars == <<config, tab, posted, fetched, process, used>>

Defaults(gen) ==
  [gen |-> gen, active |-> Primary,
   accounts |-> [a \in Ids |-> IF a = Primary THEN Source(gen, Primary, "defaults") ELSE Absent],
   permissions |-> Source(gen, Primary, "defaults"), limits |-> Source(gen, Primary, "defaults")]
Listed == {a \in Ids : config.accounts[a] # Absent}

NothingFetched == [Defaults(0) EXCEPT !.active = "nobody"]
Blank(session) ==
  [session |-> session, gen |-> 0, setup |-> Absent, permissions |-> Absent, limits |-> Absent,
   rows |-> [a \in Ids |-> Absent], form |-> NoForm]

SPInit ==
  /\ config = [Defaults(0) EXCEPT !.accounts = [a \in Ids |-> Source(0, a, "defaults")]]
  /\ tab = [t \in Tabs |-> Blank(0)]
  /\ posted = [t \in Tabs |-> NoSave] /\ fetched = [t \in Tabs |-> NothingFetched]
  /\ process = 0 /\ used = [resets |-> 0, saves |-> 0, fetches |-> 0]

Waiting(t) == posted[t] # NoSave
CountUse(what) == used' = [used EXCEPT ![what] = @ + 1]

------------------------------------------------------------------------------
(* The page: what it reads, and when it fills its forms.                        *)

(* The server's snapshot of a fetch, with every secret masked.                  *)
Fetch(t) ==
  /\ used.fetches < MaxFetches /\ fetched[t] = NothingFetched
  /\ fetched' = [fetched EXCEPT ![t] = config]
  /\ CountUse("fetches")
  /\ UNCHANGED <<config, tab, posted, process>>

(* refresh(): the forms of the tabs loaded so far are filled again, whatever    *)
(* had been typed into them.                                                    *)
populateSetup(c) == Source(c.gen, c.active, "setup")
populatePermissions(c) == Source(c.gen, Primary, "permissions")
populateResponseLimits(c) == Source(c.gen, Primary, "limits")

Refilled(k, c) ==
  [k EXCEPT !.gen = c.gen, !.setup = populateSetup(c),
            !.permissions = IF k.permissions = Absent THEN Absent ELSE populatePermissions(c),
            !.limits = IF k.limits = Absent THEN Absent ELSE populateResponseLimits(c)]

refresh(t) ==
  /\ fetched[t] # NothingFetched
  /\ tab' = [tab EXCEPT ![t] = Refilled(@, fetched[t])]
  /\ fetched' = [fetched EXCEPT ![t] = NothingFetched]
  /\ UNCHANGED <<config, posted, process, used>>

(* A tab's markup is fetched when it is first shown: the permissions are then   *)
(* filled from the configuration the page holds, the limits not.                *)
ensureTabLoaded(t, which) ==
  /\ tab[t].setup # Absent /\ tab[t][which] = Absent
  /\ tab' = [tab EXCEPT ![t][which] =
       IF which = "permissions" THEN populatePermissions(tab[t]) ELSE Markup]
  /\ UNCHANGED <<config, posted, fetched, process, used>>

(* The list of accounts is fetched on its own; a form opened on a row is filled *)
(* from the row.                                                                *)
safeAccounts == [a \in Ids |-> IF a \in Listed THEN Source(config.gen, a, "account") ELSE Absent]

refreshAccounts(t) ==
  /\ used.fetches < MaxFetches /\ tab[t].setup # Absent
  /\ tab' = [tab EXCEPT ![t].rows = safeAccounts]
  /\ CountUse("fetches")
  /\ UNCHANGED <<config, posted, fetched, process>>

openAccountForm(t, a) ==
  /\ tab[t].rows[a] # Absent /\ tab[t].form = NoForm
  /\ tab' = [tab EXCEPT ![t].form = [id |-> a, of |-> tab[t].rows[a]]]
  /\ UNCHANGED <<config, posted, fetched, process, used>>

------------------------------------------------------------------------------
(* The page: a save carries the generation the page holds when it is sent.      *)

Post(t, kind, id, of) ==
  /\ used.saves < MaxSaves /\ ~Waiting(t)
  /\ posted' = [posted EXCEPT ![t] =
       [kind |-> kind, expected |-> tab[t].gen, session |-> tab[t].session, id |-> id, of |-> of]]
  /\ CountUse("saves")
  /\ UNCHANGED <<config, tab, fetched, process>>

saveSetup(t) == tab[t].setup # Absent /\ Post(t, "setup", "nobody", tab[t].setup)
savePermissions(t) ==
  tab[t].permissions # Absent /\ Post(t, "permissions", "nobody", tab[t].permissions)
rlSave(t) == tab[t].limits # Absent /\ Post(t, "limits", "nobody", tab[t].limits)
applyPreset(t) ==
  tab[t].setup # Absent /\ Post(t, "permissions", "nobody", populatePermissions(tab[t]))
saveAccountForm(t) == tab[t].form # NoForm /\ Post(t, "account", tab[t].form.id, tab[t].form.of)
activateAccount(t, a) == tab[t].rows[a] # Absent /\ Post(t, "activate", a, Absent)
deleteAccount(t, a) == tab[t].rows[a] # Absent /\ Post(t, "delete", a, Absent)
resetConfig(t) == tab[t].setup # Absent /\ used.resets < MaxResets /\ Post(t, "reset", "nobody", Absent)

------------------------------------------------------------------------------
(* The server: each save under the configuration's lock, against the newest     *)
(* configuration.                                                               *)

(* Mutant: a form is taken for current if its page was ever told a generation.  *)
TakenForCurrent(s) == FALSE
Stale(s) == s.kind \in {"setup", "permissions", "limits", "account"} /\ s.expected # config.gen

(* A pure patch of the section a form is about; the Setup form edits whichever  *)
(* mailbox is active under the lock.                                            *)
PatchOf(s) ==
  CASE s.kind = "permissions" -> [config EXCEPT !.permissions = s.of]
    [] s.kind = "limits" -> [config EXCEPT !.limits = s.of]
    [] s.kind = "setup" -> [config EXCEPT !.accounts[config.active] = s.of]

updateAccount(id, of) == IF id \in Listed THEN [config EXCEPT !.accounts[id] = of] ELSE config
setActiveAccount(id) == IF id \in Listed THEN [config EXCEPT !.active = id] ELSE config
dropAccount(id) ==
  IF id \notin Listed \/ Listed = {id} THEN config
  ELSE [config EXCEPT !.accounts[id] = Absent,
                      !.active = IF @ # id THEN @ ELSE CHOOSE a \in Listed \ {id} : TRUE]
resetConfiguration == Defaults(config.gen + 1)

ConfigAfter(s) ==
  CASE s.kind \in {"setup", "permissions", "limits"} -> PatchOf(s)
    [] s.kind = "account" -> updateAccount(s.id, s.of)
    [] s.kind = "activate" -> setActiveAccount(s.id)
    [] s.kind = "delete" -> dropAccount(s.id)
    [] s.kind = "reset" -> resetConfiguration

Reloaded(t) == tab' = [tab EXCEPT ![t] = Blank(process)]

(* A page of another process is refused and reloads; a form of before a reset   *)
(* is refused and stays as it is; any other save is made.                       *)
HandleSave(t) ==
  LET s == posted[t] IN
  /\ Waiting(t)
  /\ posted' = [posted EXCEPT ![t] = NoSave]
  /\ IF s.session # process
     THEN Reloaded(t) /\ UNCHANGED <<config, used>>
     ELSE IF Stale(s) THEN UNCHANGED <<config, tab, used>>
     ELSE /\ config' = ConfigAfter(s)
          /\ tab' = IF s.kind = "account" THEN [tab EXCEPT ![t].form = NoForm] ELSE tab
          /\ IF s.kind = "reset" THEN CountUse("resets") ELSE UNCHANGED used
  /\ UNCHANGED <<fetched, process>>

RestartServer ==
  /\ process < MaxRestarts
  /\ process' = process + 1
  /\ posted' = [t \in Tabs |-> NoSave]
  /\ UNCHANGED <<config, tab, fetched, used>>

SPNext ==
  \/ RestartServer
  \/ \E t \in Tabs :
       \/ Fetch(t) \/ refresh(t) \/ refreshAccounts(t) \/ HandleSave(t)
       \/ saveSetup(t) \/ savePermissions(t) \/ rlSave(t) \/ applyPreset(t)
       \/ saveAccountForm(t) \/ resetConfig(t)
       \/ \E which \in {"permissions", "limits"} : ensureTabLoaded(t, which)
       \/ \E a \in Ids : openAccountForm(t, a) \/ activateAccount(t, a) \/ deleteAccount(t, a)

SPSpec == SPInit /\ [][SPNext]_page_vars

------------------------------------------------------------------------------
(* Properties.                                                                  *)

(* What a form was filled with before a reset is never stored after it, by      *)
(* whatever page and however late its save comes; only the account form, whose  *)
(* row and generation are fetched apart, and a limits form left as the page's   *)
(* markup has it are not held to it.                                            *)
FormsFenced ==
  /\ config.permissions.gen = config.gen
  /\ config.limits.via # "markup" => config.limits.gen = config.gen
  /\ \A a \in Listed : config.accounts[a].via = "setup" => config.accounts[a].gen = config.gen

(* The Setup form writes the mailbox it was filled from.                        *)
SetupKeepsMailboxes == \A a \in Listed : config.accounts[a].of = a

==============================================================================
