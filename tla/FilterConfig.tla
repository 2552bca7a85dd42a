------------------------------ MODULE FilterConfig ------------------------------
(***************************************************************************)
(* The configuration of the message filter of OneBotFilter.  It exists     *)
(* three times: in config.yaml, in core.CONFIG, and compiled in the filter *)
(* of each bot app.                                                        *)
(*                                                                         *)
(*   commands   /启用, /禁用, presets and the global block change the      *)
(*              compiled filter or CONFIG, write CONFIG to the file and    *)
(*              compile it again (filter/command.go, filter/state.go);     *)
(*   watchers   of config.yaml and of the presets read the file, compile   *)
(*              it, check it, make it CONFIG and compile that again        *)
(*              (core/config.go);                                          *)
(*   an editor  replaces the file at any time.                             *)
(*                                                                         *)
(* Commands hold fallbackConfigMu, watchers configMutex: neither excludes  *)
(* the other.  Commands come one after another, from one command worker.   *)
(* Group chats stand for private chats too, which have filters of the same *)
(* kind.                                                                   *)
(***************************************************************************)
EXTENDS Integers, FiniteSets

CONSTANTS Apps,         \* bot-apps
          Groups,       \* group IDs
          Watchers,     \* the watcher of config.yaml and that of the presets
          ConfigWatcher,
          Kinds,        \* commands that are given
          Starts,       \* configurations of a bot app the file may start with
          Defaults,     \* values of server.default that appear
          Empty,        \* what a file that is cut off or being written reads as:
                        \* no bot apps, and refused by Check
          None,
          MaxCommands,  \* bound: commands
          MaxEdits,     \* bound: edits of the file
          MaxTouches,   \* bound: events of the presets
          MaxFailures   \* bound: writes that fail

\* "typo" stands for every value that Check refuses.
Modes == {"on", "off", "whitelist", "blacklist", "typo"}

\* A bot app: mode and ids of its groups, and the groups with a preset of their own.
BotApp  == [mode : Modes \cup {"default"}, ids : SUBSET Groups, own : SUBSET Groups]
Default == [mode : Modes, ids : SUBSET Groups]
Config  == [default : Default, apps : [Apps -> BotApp], blocked : SUBSET Groups]

ASSUME FilterAssumption == /\ ConfigWatcher \in Watchers
                           /\ Kinds \subseteq {"disable", "enable", "preset", "clear", "block", "unblock"}
                           /\ Starts \subseteq BotApp /\ Defaults \subseteq Default
                           /\ Empty \notin Config
                           /\ {MaxCommands, MaxEdits, MaxTouches, MaxFailures} \subseteq Nat

VARIABLES file,      \* config.yaml; empty while it is being written
          CONFIG,    \* core.CONFIG
          compiled,  \* compiledFilters, by name
          pending,   \* the watcher of config.yaml has an event
          watch,     \* watch[w]: the reload of watcher w
          cmd,       \* the command under way, or the last one
          failed,    \* a write failed since CONFIG was last read from the file
          edit,      \* the editor's last edit: its default, whether it was read,
                     \* whether a command was under way before it was
          inherit,   \* bot apps whose mode was written as default, and not by
                     \* /启用 or /禁用 since
          count      \* what the bounds count

vars == << file, CONFIG, compiled, pending, watch, cmd, failed, edit, inherit, count >>

\* Check replaces the mode default.
Inherited(b, d) == IF b.mode = "default" THEN [b EXCEPT !.mode = d.mode, !.ids = d.ids] ELSE b
Resolved(c)     == [c EXCEPT !.apps = [a \in Apps |-> Inherited(c.apps[a], c.default)]]
Valid(c)        == /\ c # Empty
                   /\ c.default.mode # "typo"
                   /\ \A a \in Apps : c.apps[a].mode # "typo"

\* Compile; forced is set when a command makes the message mode blacklist.
Compile(c) == [a \in Apps |-> [bot |-> c.apps[a], forced |-> FALSE]]

\* MessageTypeFilter.Filter: may a message of group g pass?
Passes(f, g) == CASE f.bot.mode = "off"       -> FALSE
                  [] f.bot.mode = "whitelist" -> g \in f.bot.ids
                  [] f.bot.mode = "blacklist" -> g \notin f.bot.ids
                  [] OTHER                    -> TRUE

NoReload  == [pc |-> "idle", cfg |-> Empty]
NoCommand == [pc |-> "idle", kind |-> None, app |-> None, group |-> None,
              bot |-> None, data |-> Empty, over |-> FALSE, reply |-> "none"]

Active   == cmd.pc \notin {"idle", "replied"}
Unsaved  == Active /\ cmd.pc # "saved"
Loading(w) == watch[w].pc \in {"read", "resolved"}

Request == [pc : {"idle", "begun", "cloned", "stored", "written", "saved", "replied"},
            kind : Kinds \cup {None}, app : Apps \cup {None}, group : Groups \cup {None},
            bot : BotApp \cup {None}, data : Config \cup {Empty}, over : BOOLEAN,
            reply : {"none", "done", "already", "failed"}]
Reload  == [pc : {"idle", "read", "resolved", "hook"}, cfg : Config \cup {Empty}]
Edit    == [default : Default, unread : BOOLEAN, risk : BOOLEAN]
Count   == [commands : 0..MaxCommands, edits : 0..MaxEdits, touches : 0..MaxTouches,
            failures : 0..MaxFailures]

TypeOK ==
    /\ file \in Config \cup {Empty}
    /\ CONFIG \in Config /\ Valid(CONFIG) /\ CONFIG = Resolved(CONFIG)
    /\ compiled \in [Apps -> [bot : BotApp, forced : BOOLEAN]]
    /\ pending \in BOOLEAN /\ failed \in BOOLEAN
    /\ watch \in [Watchers -> Reload]
    /\ cmd \in Request /\ edit \in Edit /\ count \in Count
    /\ inherit \subseteq Apps

\* main has read the file and compiled the filters (Reload).
Init ==
    /\ file \in {[default |-> d, apps |-> b, blocked |-> {}] :
                     d \in Defaults, b \in [Apps -> Starts]}
    /\ Valid(file)
    /\ CONFIG = Resolved(file)
    /\ compiled = Compile(CONFIG)
    /\ pending = FALSE /\ failed = FALSE
    /\ watch = [w \in Watchers |-> NoReload]
    /\ cmd = NoCommand
    /\ edit = [default |-> file.default, unread |-> FALSE, risk |-> FALSE]
    /\ inherit = {a \in Apps : file.apps[a].mode = "default"}
    /\ count = [commands |-> 0, edits |-> 0, touches |-> 0, failures |-> 0]

-----------------------------------------------------------------------------
(* Commands. *)

\* A command of kind k arrives and gets as far as at.
Begin(k, a, g, at, reply) ==
    /\ k \in Kinds
    /\ ~ Active
    /\ count.commands < MaxCommands
    /\ count' = [count EXCEPT !.commands = @ + 1]
    /\ cmd' = [pc |-> at, kind |-> k, app |-> a, group |-> g, bot |-> None, data |-> Empty,
               over |-> FALSE, reply |-> reply]
    /\ edit' = [edit EXCEPT !.risk = @ \/ edit.unread]

\* /禁用: an ID that is listed is thought to be blocked, whatever the mode.
AddToBlacklist(a, g) ==
    /\ compiled' = [compiled EXCEPT ![a].forced = TRUE, ![a].bot.ids = @ \cup {g}]
    /\ IF g \in compiled[a].bot.ids
       THEN Begin("disable", a, g, "replied", "already") /\ UNCHANGED inherit
       ELSE Begin("disable", a, g, "begun", "none") /\ inherit' = inherit \ {a}
    /\ UNCHANGED << file, CONFIG, pending, watch, failed >>

\* /启用: an ID that is not listed is an error, whatever the mode.
RemoveFromBlacklist(a, g) ==
    /\ compiled' = [compiled EXCEPT ![a].forced = TRUE, ![a].bot.ids = @ \ {g}]
    /\ IF g \notin compiled[a].bot.ids
       THEN Begin("enable", a, g, "replied", "failed") /\ UNCHANGED inherit
       ELSE Begin("enable", a, g, "begun", "none") /\ inherit' = inherit \ {a}
    /\ UNCHANGED << file, CONFIG, pending, watch, failed >>

\* A preset of the group's own is set or cleared.
executePresetCommand(k, a, g) ==
    /\ k \in {"preset", "clear"}
    /\ Begin(k, a, g, "begun", "none")
    /\ UNCHANGED << file, CONFIG, compiled, pending, watch, failed, inherit >>

\* What the command makes of the configuration b of its app: for the blacklist
\* the IDs come from the compiled filter as it is by now.
Updated(b) ==
    CASE cmd.kind \in {"disable", "enable"} ->
             [b EXCEPT !.mode = "blacklist", !.ids = compiled[cmd.app].bot.ids]
      [] cmd.kind = "preset" -> [b EXCEPT !.own = @ \cup {cmd.group}]
      [] OTHER               -> [b EXCEPT !.own = @ \ {cmd.group}]

Clone ==
    /\ cmd.pc = "begun"
    /\ cmd' = [cmd EXCEPT !.pc = "cloned", !.bot = Updated(CONFIG.apps[cmd.app])]
    /\ UNCHANGED << file, CONFIG, compiled, pending, watch, failed, edit, inherit, count >>

Fails ==
    /\ count.failures < MaxFailures
    /\ count' = [count EXCEPT !.failures = @ + 1]
    /\ cmd' = [cmd EXCEPT !.pc = "replied", !.reply = "failed"]
    /\ failed' = TRUE
    /\ UNCHANGED << file, CONFIG, compiled, pending, watch, edit, inherit >>

\* A preset named in the configuration cannot be read.
CloneFails == cmd.pc = "begun" /\ Fails

\* Mutant: the copy that the loop over the bot apps yields is changed.
StoreNowhere ==
    /\ cmd.pc = "cloned"
    /\ cmd' = [cmd EXCEPT !.pc = "stored"]
    /\ UNCHANGED << file, CONFIG, compiled, pending, watch, failed, edit, inherit, count >>

\* CONFIG may have been replaced since.
StoreBotApp ==
    /\ cmd.pc = "cloned"
    /\ CONFIG' = [CONFIG EXCEPT !.apps[cmd.app] = cmd.bot]
    /\ cmd' = [cmd EXCEPT !.pc = "stored"]
    /\ UNCHANGED << file, compiled, pending, watch, failed, edit, inherit, count >>

\* The global block is changed in CONFIG; without a change nothing is written.
executeGlobalBlockCommand(k, g) ==
    /\ k \in {"block", "unblock"}
    /\ LET new == IF k = "block" THEN CONFIG.blocked \cup {g} ELSE CONFIG.blocked \ {g}
       IN /\ CONFIG' = [CONFIG EXCEPT !.blocked = new]
          /\ IF new = CONFIG.blocked THEN Begin(k, None, g, "replied", "already")
                                     ELSE Begin(k, None, g, "stored", "none")
    /\ UNCHANGED << file, compiled, pending, watch, failed, inherit >>

\* CONFIG as it is now is written: the file is cut off first.
BeginSave ==
    /\ cmd.pc = "stored"
    /\ cmd' = [cmd EXCEPT !.pc = "written", !.data = CONFIG]
    /\ file' = Empty /\ pending' = TRUE
    /\ UNCHANGED << CONFIG, compiled, watch, failed, edit, inherit, count >>

\* A configuration read before and not yet in force will overtake the command.
EndSave ==
    /\ cmd.pc = "written"
    /\ cmd' = [cmd EXCEPT !.pc = "saved", !.data = Empty,
                          !.over = @ \/ \E w \in Watchers : Loading(w) /\ watch[w].cfg # Empty]
    /\ file' = cmd.data /\ pending' = TRUE
    /\ UNCHANGED << CONFIG, compiled, watch, failed, edit, inherit, count >>

\* The file cannot be opened, or not be written once it is cut off.
SaveFails == cmd.pc \in {"stored", "written"} /\ Fails

Rebuild ==
    /\ cmd.pc = "saved"
    /\ compiled' = Compile(CONFIG)
    /\ cmd' = [cmd EXCEPT !.pc = "replied", !.reply = "done"]
    /\ UNCHANGED << file, CONFIG, pending, watch, failed, edit, inherit, count >>

-----------------------------------------------------------------------------
(* Reloads. *)

Overtakes(new) == cmd' = [cmd EXCEPT !.over = @ \/ (Unsaved /\ new)]

\* Mutant: without configMutex.
ReadUnlocked(w) ==
    /\ watch[w].pc = "idle"
    /\ IF w = ConfigWatcher
       THEN pending /\ pending' = FALSE /\ UNCHANGED count
       ELSE /\ count.touches < MaxTouches
            /\ count' = [count EXCEPT !.touches = @ + 1]
            /\ UNCHANGED pending
    /\ watch' = [watch EXCEPT ![w] = [pc |-> "read", cfg |-> file]]
    /\ UNCHANGED << file, CONFIG, compiled, cmd, failed, edit, inherit >>

\* A watcher takes configMutex and reads the file.
Read(w) ==
    /\ watch[w].pc = "idle"
    /\ \A v \in Watchers : ~ Loading(v)
    /\ IF w = ConfigWatcher
       THEN pending /\ pending' = FALSE /\ UNCHANGED count
       ELSE /\ count.touches < MaxTouches
            /\ count' = [count EXCEPT !.touches = @ + 1]
            /\ UNCHANGED pending
    /\ watch' = [watch EXCEPT ![w] = [pc |-> "read", cfg |-> file]]
    /\ UNCHANGED << file, CONFIG, compiled, cmd, failed, edit, inherit >>

\* What was read is compiled before it is checked, unless it lacks bot apps.
ResolveConfig(w) ==
    /\ watch[w].pc = "read"
    /\ watch' = [watch EXCEPT ![w].pc = "resolved"]
    /\ compiled' = IF watch[w].cfg = Empty THEN compiled ELSE Compile(watch[w].cfg)
    /\ Overtakes(watch[w].cfg # Empty)
    /\ UNCHANGED << file, CONFIG, pending, failed, edit, inherit, count >>

Refuse(w) ==
    /\ watch[w].pc = "resolved"
    /\ ~ Valid(watch[w].cfg)
    /\ watch' = [watch EXCEPT ![w] = NoReload]
    /\ UNCHANGED << file, CONFIG, compiled, pending, cmd, failed, edit, inherit, count >>

\* Mutant: CONFIG is replaced by what was read, as it was before Check.
AcceptUnresolved(w) ==
    /\ watch[w].pc = "resolved"
    /\ Valid(watch[w].cfg)
    /\ CONFIG' = watch[w].cfg
    /\ watch' = [watch EXCEPT ![w] = [pc |-> "hook", cfg |-> Empty]]
    /\ failed' = FALSE
    /\ edit' = [edit EXCEPT !.unread = @ /\ watch[w].cfg.default # edit.default]
    /\ Overtakes(TRUE)
    /\ UNCHANGED << file, compiled, pending, inherit, count >>

\* CONFIG is replaced and configMutex released.
Accept(w) ==
    /\ watch[w].pc = "resolved"
    /\ Valid(watch[w].cfg)
    /\ CONFIG' = Resolved(watch[w].cfg)
    /\ watch' = [watch EXCEPT ![w] = [pc |-> "hook", cfg |-> Empty]]
    /\ failed' = FALSE
    /\ edit' = [edit EXCEPT !.unread = @ /\ watch[w].cfg.default # edit.default]
    /\ Overtakes(TRUE)
    /\ UNCHANGED << file, compiled, pending, inherit, count >>

\* Mutant: the hook is lost; what ResolveConfig compiled stays.
HookLost(w) ==
    /\ watch[w].pc = "hook"
    /\ watch' = [watch EXCEPT ![w] = NoReload]
    /\ UNCHANGED << file, CONFIG, compiled, cmd, pending, failed, edit, inherit, count >>

\* The hook compiles CONFIG as it is by then.
ReloadHook(w) ==
    /\ watch[w].pc = "hook"
    /\ compiled' = Compile(CONFIG)
    /\ watch' = [watch EXCEPT ![w] = NoReload]
    /\ Overtakes(TRUE)
    /\ UNCHANGED << file, CONFIG, pending, failed, edit, inherit, count >>

-----------------------------------------------------------------------------
(* The editor. *)

Save(new) ==
    /\ count.edits < MaxEdits
    /\ count' = [count EXCEPT !.edits = @ + 1]
    /\ file' = new /\ pending' = TRUE
    /\ cmd' = [cmd EXCEPT !.over = TRUE]
    /\ UNCHANGED << CONFIG, compiled, watch, failed >>

EditDefault ==
    /\ file # Empty
    /\ \E d \in Defaults \ {file.default} :
        /\ Save([file EXCEPT !.default = d])
        /\ edit' = [default |-> d, unread |-> TRUE, risk |-> Active]
        /\ UNCHANGED inherit

EditBotApp ==
    /\ file # Empty
    /\ \E a \in Apps, b \in Starts :
        /\ Save([file EXCEPT !.apps[a] = b])
        /\ inherit' = IF b.mode = "default" THEN inherit \cup {a} ELSE inherit \ {a}
        /\ UNCHANGED edit

-----------------------------------------------------------------------------

Next ==
    \/ \E a \in Apps, g \in Groups : AddToBlacklist(a, g) \/ RemoveFromBlacklist(a, g)
    \/ \E k \in Kinds, a \in Apps, g \in Groups : executePresetCommand(k, a, g)
    \/ \E k \in Kinds, g \in Groups : executeGlobalBlockCommand(k, g)
    \/ Clone \/ CloneFails \/ StoreBotApp
    \/ BeginSave \/ EndSave \/ SaveFails \/ Rebuild
    \/ \E w \in Watchers : \/ Read(w) \/ ResolveConfig(w)
                           \/ Refuse(w) \/ Accept(w) \/ ReloadHook(w)
    \/ EditDefault \/ EditBotApp

Spec == Init /\ [][Next]_vars

-----------------------------------------------------------------------------
(* Properties. *)

Settled == ~ Active /\ ~ pending /\ (\A w \in Watchers : watch[w].pc = "idle")

\* README.md:8, an edited file "is reloaded by all filters": once the events are
\* worked off the file, CONFIG and the filters agree, in whatever order commands
\* and reloads wrote them under their two locks; unless the file is refused or a
\* write has failed since (state.go:141-197, config.go:212-249).
SettledAgrees ==
    Settled /\ Valid(file) /\ ~ failed =>
        /\ CONFIG = Resolved(file)
        /\ \A a \in Apps : compiled[a].bot = CONFIG.apps[a]

\* What the command is to change, in the configuration c.
InEffect(c) ==
    CASE cmd.kind = "disable" -> ~ Passes(Compile(c)[cmd.app], cmd.group)
      [] cmd.kind = "enable"  -> Passes(Compile(c)[cmd.app], cmd.group)
      [] cmd.kind = "preset"  -> cmd.group \in c.apps[cmd.app].own
      [] cmd.kind = "clear"   -> cmd.group \notin c.apps[cmd.app].own
      [] cmd.kind = "block"   -> cmd.group \in c.blocked
      [] cmd.kind = "unblock" -> cmd.group \notin c.blocked

\* A command that says it is done is in effect in the file and in memory and stays
\* so through the reloads that its own write causes, unless a configuration read
\* before overtook it or the file was edited (state.go:141-178).
CommandKept ==
    cmd.reply = "done" /\ ~ cmd.over => (file # Empty => InEffect(file)) /\ InEffect(CONFIG)

\* An edit is not lost to a command, which writes the whole of CONFIG, unless the
\* command began before the edit was read (state.go:199-219).
EditKept == ~ edit.risk /\ file # Empty => file.default = edit.default

-----------------------------------------------------------------------------
(* What the texts of the program say and the program does not do. *)

\* usage.md:211, a mode that is default "inherits the mode of server.default": an
\* app whose mode was written as default follows what the editor makes of the
\* default.  Any command writes CONFIG, in which the default has been replaced.
DefaultsInherited ==
    Settled /\ Valid(file) /\ ~ failed /\ ~ edit.risk
        => \A a \in inherit : compiled[a].bot.mode = file.default.mode
=============================================================================
