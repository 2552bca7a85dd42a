--------------------------- MODULE FilterConfigProofs ---------------------------
(***************************************************************************)
(* Theorems about FilterConfig for any bot apps, groups, watchers,         *)
(* commands and edits.                                                     *)
(***************************************************************************)
EXTENDS FilterConfig, TLAPS

-----------------------------------------------------------------------------
(* The inductive invariant. *)

\* Watchers read and check one at a time; unless there is an event, what one of
\* them has read is the file.
ReadInv ==
    /\ \A v, w \in Watchers : Loading(v) /\ Loading(w) => v = w
    /\ ~ pending => \A w \in Watchers : Loading(w) => watch[w].cfg = file

\* With nothing to be read or written CONFIG is what the file says.
ConfigInv ==
    \/ pending \/ failed \/ ~ Valid(file) \/ cmd.pc \in {"stored", "written"}
    \/ \E w \in Watchers : Loading(w)
    \/ CONFIG = Resolved(file)

\* With nothing under way the filters are those of CONFIG.
Fresh == \A a \in Apps : compiled[a].bot = CONFIG.apps[a]
CompiledInv ==
    \/ Fresh
    \/ pending \/ failed \/ ~ Valid(file) \/ Active
    \/ \E w \in Watchers : watch[w].pc # "idle"

\* An edit that was read is in CONFIG, and so in what a command writes.
EditInv ==
    ~ edit.risk =>
        /\ file # Empty => file.default = edit.default
        /\ Active => ~ edit.unread
        /\ ~ edit.unread =>
             /\ CONFIG.default = edit.default
             /\ cmd.pc = "written" => cmd.data.default = edit.default
             /\ \A w \in Watchers : Loading(w) /\ watch[w].cfg # Empty
                                        => watch[w].cfg.default = edit.default

\* The configuration b of the app of the command does what the command is to do.
Does(b) ==
    CASE cmd.kind = "disable" -> b.mode = "blacklist" /\ cmd.group \in b.ids
      [] cmd.kind = "enable"  -> b.mode = "blacklist" /\ cmd.group \notin b.ids
      [] cmd.kind = "preset"  -> cmd.group \in b.own
      [] cmd.kind = "clear"   -> cmd.group \notin b.own

Blocks(c) == IF cmd.kind = "block" THEN cmd.group \in c.blocked ELSE cmd.group \notin c.blocked

OfApp == cmd.kind \in {"disable", "enable", "preset", "clear"}
Done(c) == IF OfApp THEN Does(c.apps[cmd.app]) ELSE Blocks(c)

\* A command that nothing overtook is in effect wherever it has come to.
CommandInv ==
    (Active \/ cmd.reply = "done") /\ ~ cmd.over =>
        /\ cmd.group \in Groups /\ cmd.kind \in Kinds
        /\ OfApp => cmd.app \in Apps
        /\ ~ OfApp => cmd.pc \notin {"begun", "cloned"}
        /\ cmd.pc = "begun" =>
             /\ cmd.kind = "disable" => cmd.group \in compiled[cmd.app].bot.ids
             /\ cmd.kind = "enable"  => cmd.group \notin compiled[cmd.app].bot.ids
        /\ cmd.pc = "cloned" => Does(cmd.bot)
        /\ cmd.pc \in {"stored", "written", "saved", "replied"} => Done(CONFIG)
        /\ cmd.pc = "written" => cmd.data # Empty /\ Resolved(cmd.data) = cmd.data /\ Done(cmd.data)
        /\ cmd.pc \in {"saved", "replied"} =>
             /\ file # Empty /\ Resolved(file) = file /\ Done(file)
             /\ \A w \in Watchers : Loading(w) /\ watch[w].cfg # Empty =>
                    Resolved(watch[w].cfg) = watch[w].cfg /\ Done(watch[w].cfg)

\* What a command has in its hands can be stored and written.
CmdInv ==
    /\ cmd.pc \in {"begun", "cloned"} => cmd.app \in Apps /\ cmd.group \in Groups /\ OfApp
    /\ cmd.pc = "cloned" => cmd.bot \in BotApp /\ cmd.bot.mode \notin {"default", "typo"}
    /\ cmd.pc = "written" => cmd.data \in Config /\ Resolved(cmd.data) = cmd.data
    /\ cmd.reply = "done" => cmd.pc = "replied"

IInv == TypeOK /\ CmdInv /\ ReadInv /\ ConfigInv /\ CompiledInv /\ EditInv /\ CommandInv

-----------------------------------------------------------------------------
(* Configurations. *)

\* What Check makes of a bot app names no default.
LEMMA InheritedFacts ==
    ASSUME NEW b \in BotApp, NEW d \in Default
    PROVE  /\ Inherited(b, d) \in BotApp
           /\ Inherited(b, d).mode # "default"
           /\ b.mode # "default" => Inherited(b, d) = b
           /\ b.mode # "typo" /\ d.mode # "typo" => Inherited(b, d).mode # "typo"
BY DEF Inherited, BotApp, Default, Modes

\* Check leaves exactly the configurations alone that name no default.
LEMMA ResolvedFacts ==
    ASSUME NEW c \in Config
    PROVE  /\ Resolved(c) \in Config
           /\ Resolved(c).default = c.default /\ Resolved(c).blocked = c.blocked
           /\ \A a \in Apps : Resolved(c).apps[a] = Inherited(c.apps[a], c.default)
           /\ Resolved(c) = c <=> \A a \in Apps : c.apps[a].mode # "default"
<1>1. c.default \in Default /\ c.apps \in [Apps -> BotApp] /\ c.blocked \in SUBSET Groups
  BY DEF Config
<1>2. \A a \in Apps : /\ Inherited(c.apps[a], c.default) \in BotApp
                      /\ Inherited(c.apps[a], c.default).mode # "default"
                      /\ c.apps[a].mode # "default" => Inherited(c.apps[a], c.default) = c.apps[a]
  BY <1>1, InheritedFacts
<1> DEFINE m == [a \in Apps |-> Inherited(c.apps[a], c.default)]
<1>3. m \in [Apps -> BotApp] BY <1>2
<1>4. \A a \in Apps : m[a] = Inherited(c.apps[a], c.default) OBVIOUS
<1>5. Resolved(c) = [c EXCEPT !.apps = m] BY DEF Resolved
<1> HIDE DEF m
<1>6. /\ Resolved(c) \in Config /\ Resolved(c).apps = m
      /\ Resolved(c).default = c.default /\ Resolved(c).blocked = c.blocked
  BY <1>1, <1>3, <1>5 DEF Config
<1>7. ASSUME \A a \in Apps : c.apps[a].mode # "default" PROVE Resolved(c) = c
  <2>1. m = c.apps BY <1>1, <1>2, <1>3, <1>4, <1>7
  <2>2. QED BY <1>5, <2>1 DEF Config
<1>8. ASSUME Resolved(c) = c PROVE \A a \in Apps : c.apps[a].mode # "default"
  <2>1. m = c.apps BY <1>6, <1>8
  <2>2. QED BY <1>2, <1>4, <2>1
<1>9. QED BY <1>4, <1>6, <1>7, <1>8

\* Check makes what it accepts valid for good.
LEMMA ResolvedValid ==
    ASSUME NEW c \in Config, Valid(c)
    PROVE  /\ Valid(Resolved(c)) /\ Resolved(Resolved(c)) = Resolved(c)
<1>1. c.default \in Default /\ c.apps \in [Apps -> BotApp] BY DEF Config
<1>2. \A a \in Apps : /\ Inherited(c.apps[a], c.default).mode # "default"
                      /\ Inherited(c.apps[a], c.default).mode # "typo"
  BY <1>1, InheritedFacts DEF Valid
<1>3. Valid(Resolved(c)) BY <1>2, ResolvedFacts, FilterAssumption DEF Valid
<1>4. \A a \in Apps : Resolved(c).apps[a].mode # "default" BY <1>2, ResolvedFacts
<1>5. Resolved(c) \in Config BY ResolvedFacts
<1>6. QED BY <1>3, <1>4, <1>5, ResolvedFacts

\* CONFIG with another global block.
LEMMA BlockFacts ==
    ASSUME NEW c \in Config, Valid(c), Resolved(c) = c, NEW s \in SUBSET Groups,
           NEW d, d = [c EXCEPT !.blocked = s]
    PROVE  /\ d \in Config /\ Valid(d) /\ Resolved(d) = d
           /\ d.default = c.default /\ d.apps = c.apps /\ d.blocked = s
           /\ s = c.blocked => d = c
<1>1. /\ d \in Config /\ d.default = c.default /\ d.blocked = s /\ d.apps = c.apps
      /\ s = c.blocked => d = c
  BY DEF Config
<1>2. Valid(d) BY <1>1, FilterAssumption DEF Valid
<1>3. \A x \in Apps : c.apps[x].mode # "default" BY ResolvedFacts
<1>4. Resolved(d) = d BY <1>1, <1>3, ResolvedFacts, ZenonT(30)
<1>5. QED BY <1>1, <1>2, <1>4

-----------------------------------------------------------------------------
(* Records. *)

\* A command begins with nothing in its hands, and after no edit it could lose.
LEMMA BeginFacts ==
    ASSUME TypeOK, NEW k \in Kinds, NEW a \in Apps \cup {None}, NEW g \in Groups,
           NEW at \in {"begun", "stored", "replied"}, NEW ans \in {"none", "already", "failed"},
           cmd' = [pc |-> at, kind |-> k, app |-> a, group |-> g, bot |-> None, data |-> Empty,
                   over |-> FALSE, reply |-> ans],
           edit' = [edit EXCEPT !.risk = @ \/ edit.unread],
           count' = [count EXCEPT !.commands = @ + 1], count.commands < MaxCommands
    PROVE  /\ cmd' \in Request /\ edit' \in Edit /\ count' \in Count
           /\ cmd'.pc = at /\ cmd'.kind = k /\ cmd'.app = a /\ cmd'.group = g
           /\ ~ cmd'.over /\ cmd'.reply = ans
           /\ edit'.default = edit.default /\ edit'.unread = edit.unread
           /\ edit'.risk <=> edit.risk \/ edit.unread
<1>1. edit \in Edit /\ count \in Count BY DEF TypeOK
<1>3. count' \in Count BY <1>1, FilterAssumption DEF Count
<1>4. (edit.risk \/ edit.unread) \in BOOLEAN BY <1>1, Zenon DEF Edit
<1>5. /\ edit' \in Edit /\ edit'.default = edit.default /\ edit'.unread = edit.unread
      /\ edit'.risk <=> edit.risk \/ edit.unread
  BY <1>1, <1>4 DEF Edit
<1>6. cmd' \in Request BY DEF Request
<1>7. QED BY <1>3, <1>5, <1>6

\* A command is overtaken and nothing else of it changes.
LEMMA OverFacts ==
    ASSUME TypeOK, NEW x, cmd' = [cmd EXCEPT !.over = @ \/ x]
    PROVE  /\ cmd' \in Request
           /\ cmd'.pc = cmd.pc /\ cmd'.kind = cmd.kind /\ cmd'.app = cmd.app
           /\ cmd'.group = cmd.group /\ cmd'.bot = cmd.bot /\ cmd'.data = cmd.data
           /\ cmd'.reply = cmd.reply
           /\ cmd'.over <=> cmd.over \/ x
<1>1. cmd \in Request BY DEF TypeOK
<1>2. (cmd.over \/ x) \in BOOLEAN BY Zenon
<1>3. QED BY <1>1, <1>2 DEF Request

-----------------------------------------------------------------------------
(* Commands keep the invariant. *)

\* The compiled filter of one app gets other IDs.
LEMMA CompiledFacts ==
    ASSUME TypeOK, NEW a \in Apps, NEW s \in SUBSET Groups,
           compiled' = [compiled EXCEPT ![a].forced = TRUE, ![a].bot.ids = s]
    PROVE  /\ compiled' \in [Apps -> [bot : BotApp, forced : BOOLEAN]]
           /\ compiled'[a].bot.ids = s
           /\ s = compiled[a].bot.ids => \A x \in Apps : compiled'[x].bot = compiled[x].bot
<1>1. compiled \in [Apps -> [bot : BotApp, forced : BOOLEAN]] BY DEF TypeOK
<1> DEFINE f == [compiled EXCEPT ![a].forced = TRUE]
<1>2. /\ f \in [Apps -> [bot : BotApp, forced : BOOLEAN]]
      /\ \A x \in Apps : f[x].bot = compiled[x].bot
  BY <1>1
<1>3. compiled' = [f EXCEPT ![a].bot.ids = s] OBVIOUS
<1> HIDE DEF f
<1>4. f[a].bot \in BotApp BY <1>2
<1>5. /\ [f[a].bot EXCEPT !.ids = s] \in BotApp
      /\ [f[a].bot EXCEPT !.ids = s].ids = s
      /\ s = f[a].bot.ids => [f[a].bot EXCEPT !.ids = s] = f[a].bot
  BY <1>4 DEF BotApp
<1> DEFINE n == [f[a].bot EXCEPT !.ids = s]
<1>6. compiled' = [f EXCEPT ![a].bot = n] BY <1>3
<1>7. n \in BotApp BY <1>5
<1> HIDE DEF n
<1> DEFINE r == [f[a] EXCEPT !.bot = n]
<1>8. r \in [bot : BotApp, forced : BOOLEAN] /\ r.bot = n BY <1>2, <1>7
<1>9. compiled' = [f EXCEPT ![a] = r] BY <1>6
<1> HIDE DEF r
<1>10. /\ compiled' \in [Apps -> [bot : BotApp, forced : BOOLEAN]]
      /\ compiled'[a].bot = n /\ \A x \in Apps \ {a} : compiled'[x].bot = f[x].bot
  BY <1>2, <1>8, <1>9
<1>11. QED BY <1>2, <1>5, <1>10 DEF n

\* Both commands: the IDs become s, the command gets as far as at.
LEMMA BlacklistStep ==
    ASSUME IInv, NEW a \in Apps, NEW g \in Groups, NEW s \in SUBSET Groups,
           NEW k \in {"disable", "enable"}, NEW at \in {"begun", "replied"},
           NEW ans \in {"none", "already", "failed"},
           compiled' = [compiled EXCEPT ![a].forced = TRUE, ![a].bot.ids = s],
           Begin(k, a, g, at, ans),
           at = "replied" => s = compiled[a].bot.ids,
           k = "disable" => g \in s,
           k = "enable" => g \notin s,
           inherit' \subseteq inherit,
           UNCHANGED << file, CONFIG, pending, watch, failed >>
    PROVE  IInv'
<1>1. TypeOK BY DEF IInv
<1>2. /\ k \in Kinds /\ ~ Active /\ a \in Apps \cup {None}
      /\ at \in {"begun", "stored", "replied"}
      /\ cmd' = [pc |-> at, kind |-> k, app |-> a, group |-> g, bot |-> None, data |-> Empty,
                 over |-> FALSE, reply |-> ans]
      /\ edit' = [edit EXCEPT !.risk = @ \/ edit.unread]
      /\ count' = [count EXCEPT !.commands = @ + 1] /\ count.commands < MaxCommands
  BY DEF Begin
<1>3. /\ cmd' \in Request /\ edit' \in Edit /\ count' \in Count
      /\ cmd'.pc = at /\ cmd'.kind = k /\ cmd'.app = a /\ cmd'.group = g
      /\ ~ cmd'.over /\ cmd'.reply = ans
      /\ edit'.default = edit.default /\ edit'.unread = edit.unread
      /\ edit'.risk <=> edit.risk \/ edit.unread
  BY <1>1, <1>2, BeginFacts, ZenonT(30)
<1>4. /\ compiled' \in [Apps -> [bot : BotApp, forced : BOOLEAN]]
      /\ compiled'[a].bot.ids = s
      /\ at = "replied" => \A x \in Apps : compiled'[x].bot = compiled[x].bot
  BY <1>1, CompiledFacts
<1>5. TypeOK' BY <1>1, <1>3, <1>4 DEF TypeOK
<1>6. CmdInv' BY <1>2, <1>3 DEF CmdInv, OfApp
<1>7. ReadInv' BY DEF IInv, ReadInv, Loading
<1>8. ConfigInv' BY <1>2, <1>3 DEF IInv, ConfigInv, Loading, Active
<1>9. CompiledInv' BY <1>2, <1>3, <1>4 DEF IInv, CompiledInv, Active, Fresh
<1>10. EditInv' BY <1>2, <1>3 DEF IInv, EditInv, Active, Loading
<1>11. CommandInv' BY <1>2, <1>3, <1>4 DEF CommandInv, Active, OfApp
<1>12. QED BY <1>5, <1>6, <1>7, <1>8, <1>9, <1>10, <1>11 DEF IInv

\* /禁用 and /启用.
LEMMA BlacklistKeeps ==
    ASSUME IInv, NEW a \in Apps, NEW g \in Groups,
           AddToBlacklist(a, g) \/ RemoveFromBlacklist(a, g)
    PROVE  IInv'
<1> DEFINE ids == compiled[a].bot.ids
<1>1. TypeOK BY DEF IInv
<1>2. ids \in SUBSET Groups BY <1>1 DEF TypeOK, BotApp
<1>3. CASE AddToBlacklist(a, g)
  <2>1. /\ compiled' = [compiled EXCEPT ![a].forced = TRUE, ![a].bot.ids = ids \cup {g}]
        /\ UNCHANGED << file, CONFIG, pending, watch, failed >>
        /\ \/ g \in ids /\ Begin("disable", a, g, "replied", "already") /\ inherit' = inherit
           \/ g \notin ids /\ Begin("disable", a, g, "begun", "none") /\ inherit' = inherit \ {a}
    BY <1>1, <1>3 DEF TypeOK, AddToBlacklist
  <2>2. ids \cup {g} \in SUBSET Groups /\ (g \in ids => ids \cup {g} = ids) BY <1>2
  <2> HIDE DEF ids
  <2>3. CASE g \in ids
    <3>1. Begin("disable", a, g, "replied", "already") BY <2>1, <2>3
    <3>2. QED BY <2>1, <2>2, <2>3, <3>1, BlacklistStep DEF ids
  <2>4. CASE g \notin ids
    <3>1. Begin("disable", a, g, "begun", "none") /\ inherit' \subseteq inherit BY <2>1, <2>4
    <3>2. QED BY <2>1, <2>2, <3>1, BlacklistStep
  <2>5. QED BY <2>3, <2>4
<1>4. CASE RemoveFromBlacklist(a, g)
  <2>1. /\ compiled' = [compiled EXCEPT ![a].forced = TRUE, ![a].bot.ids = ids \ {g}]
        /\ UNCHANGED << file, CONFIG, pending, watch, failed >>
        /\ \/ g \notin ids /\ Begin("enable", a, g, "replied", "failed") /\ inherit' = inherit
           \/ g \in ids /\ Begin("enable", a, g, "begun", "none") /\ inherit' = inherit \ {a}
    BY <1>1, <1>4 DEF TypeOK, RemoveFromBlacklist
  <2>2. ids \ {g} \in SUBSET Groups /\ (g \notin ids => ids \ {g} = ids) BY <1>2
  <2> HIDE DEF ids
  <2>3. CASE g \notin ids
    <3>1. Begin("enable", a, g, "replied", "failed") BY <2>1, <2>3
    <3>2. QED BY <2>1, <2>2, <2>3, <3>1, BlacklistStep DEF ids
  <2>4. CASE g \in ids
    <3>1. Begin("enable", a, g, "begun", "none") /\ inherit' \subseteq inherit BY <2>1, <2>4
    <3>2. QED BY <2>1, <2>2, <3>1, BlacklistStep
  <2>5. QED BY <2>3, <2>4
<1>5. QED BY <1>2, <1>3, <1>4

\* A preset is set or cleared.
LEMMA PresetKeeps ==
    ASSUME IInv, NEW k \in Kinds, NEW a \in Apps, NEW g \in Groups,
           executePresetCommand(k, a, g)
    PROVE  IInv'
<1>1. /\ TypeOK /\ ~ Active /\ k \in {"preset", "clear"}
      /\ a \in Apps \cup {None}
      /\ UNCHANGED << file, CONFIG, compiled, pending, watch, failed, inherit >>
  BY DEF IInv, executePresetCommand, Begin
<1>2. /\ cmd' \in Request /\ edit' \in Edit /\ count' \in Count
      /\ cmd'.pc = "begun" /\ cmd'.kind = k /\ cmd'.app = a /\ cmd'.group = g
      /\ ~ cmd'.over /\ cmd'.reply = "none"
      /\ edit'.default = edit.default /\ edit'.unread = edit.unread
      /\ edit'.risk <=> edit.risk \/ edit.unread
  BY <1>1, BeginFacts DEF executePresetCommand, Begin
<1>3. TypeOK' BY <1>1, <1>2 DEF TypeOK
<1>4. CmdInv' BY <1>1, <1>2 DEF CmdInv, OfApp
<1>5. ReadInv' BY <1>1 DEF IInv, ReadInv, Loading
<1>6. ConfigInv' BY <1>1, <1>2 DEF IInv, ConfigInv, Loading, Active
<1>7. CompiledInv' BY <1>2 DEF CompiledInv, Active
<1>8. EditInv' BY <1>1, <1>2 DEF IInv, EditInv, Active, Loading
<1>9. CommandInv' BY <1>1, <1>2 DEF CommandInv, Active, OfApp
<1>10. QED BY <1>3, <1>4, <1>5, <1>6, <1>7, <1>8, <1>9 DEF IInv

\* What is stored for the app does what the command is to do.
LEMMA CloneKeeps == ASSUME IInv, Clone PROVE IInv'
<1>1. /\ TypeOK /\ cmd \in Request /\ cmd.pc = "begun"
      /\ cmd.app \in Apps /\ cmd.group \in Groups /\ OfApp
      /\ UNCHANGED << file, CONFIG, compiled, pending, watch, failed, edit, inherit, count >>
  BY DEF IInv, TypeOK, CmdInv, Clone
<1>2. PICK b : b = Updated(CONFIG.apps[cmd.app]) OBVIOUS
<1>3. cmd' = [cmd EXCEPT !.pc = "cloned", !.bot = b] BY <1>2 DEF Clone
<1>4. PICK c : c = CONFIG.apps[cmd.app] OBVIOUS
<1>5. c \in BotApp /\ c.mode \notin {"default", "typo"}
  BY <1>1, <1>4, ResolvedFacts DEF TypeOK, Valid, Config
<1>6. PICK i \in SUBSET Groups : i = compiled[cmd.app].bot.ids BY <1>1 DEF TypeOK, BotApp
<1>7. b = CASE cmd.kind \in {"disable", "enable"} -> [c EXCEPT !.mode = "blacklist", !.ids = i]
            [] cmd.kind = "preset" -> [c EXCEPT !.own = @ \cup {cmd.group}]
            [] OTHER               -> [c EXCEPT !.own = @ \ {cmd.group}]
  BY <1>2, <1>4, <1>6 DEF Updated
<1>8. b \in BotApp /\ b.mode \notin {"default", "typo"}
      /\ (cmd.kind \in {"disable", "enable"} => b.mode = "blacklist" /\ b.ids = i)
      /\ (cmd.kind = "preset" => cmd.group \in b.own)
      /\ (cmd.kind = "clear" => cmd.group \notin b.own)
  <2>1. CASE cmd.kind \in {"disable", "enable"} BY <1>5, <1>7, <2>1 DEF BotApp, Modes
  <2>2. CASE cmd.kind = "preset" BY <1>1, <1>5, <1>7, <2>2 DEF BotApp, Modes
  <2>3. CASE cmd.kind = "clear" BY <1>1, <1>5, <1>7, <2>3 DEF BotApp, Modes
  <2>4. QED BY <1>1, <2>1, <2>2, <2>3 DEF OfApp
<1>9. /\ cmd' \in Request /\ cmd'.pc = "cloned" /\ cmd'.bot = b
      /\ cmd'.kind = cmd.kind /\ cmd'.app = cmd.app /\ cmd'.group = cmd.group
      /\ cmd'.over = cmd.over /\ cmd'.reply = cmd.reply /\ cmd'.data = cmd.data
  BY <1>1, <1>3, <1>8 DEF Request
<1>10. TypeOK' BY <1>1, <1>9 DEF TypeOK
<1>11. CmdInv' BY <1>1, <1>8, <1>9 DEF IInv, CmdInv, OfApp
<1>12. ReadInv' BY <1>1 DEF IInv, ReadInv, Loading
<1>13. ConfigInv' BY <1>1, <1>9 DEF IInv, ConfigInv, Loading
<1>14. CompiledInv' BY <1>9 DEF CompiledInv, Active
<1>15. EditInv' BY <1>1, <1>9 DEF IInv, EditInv, Active, Loading
<1>16. CommandInv' BY <1>1, <1>6, <1>8, <1>9, FilterAssumption DEF IInv, CommandInv, Active, OfApp, Does
<1>17. QED BY <1>10, <1>11, <1>12, <1>13, <1>14, <1>15, <1>16 DEF IInv

\* A command that fails promises nothing.
LEMMA FailsKeeps == ASSUME IInv, Active, Fails PROVE IInv'
<1>1. /\ TypeOK /\ cmd \in Request /\ count \in Count /\ failed'
      /\ UNCHANGED << file, CONFIG, compiled, pending, watch, edit, inherit >>
  BY DEF IInv, TypeOK, Fails
<1>2. /\ cmd' \in Request /\ cmd'.pc = "replied" /\ cmd'.reply = "failed"
  BY <1>1 DEF Fails, Request
<1>3. count' \in Count BY <1>1, FilterAssumption DEF Fails, Count
<1>4. TypeOK' BY <1>1, <1>2, <1>3 DEF TypeOK, Fails
<1>5. CmdInv' BY <1>2 DEF CmdInv
<1>6. ReadInv' BY <1>1 DEF IInv, ReadInv, Loading
<1>7. ConfigInv' /\ CompiledInv' BY <1>1 DEF ConfigInv, CompiledInv
<1>8. EditInv' BY <1>1, <1>2 DEF IInv, EditInv, Active, Loading
<1>9. CommandInv' BY <1>2 DEF CommandInv, Active
<1>10. QED BY <1>4, <1>5, <1>6, <1>7, <1>8, <1>9 DEF IInv

\* The configuration of the app is stored in a CONFIG that may be new.
LEMMA StoreKeeps == ASSUME IInv, StoreBotApp PROVE IInv'
<1>1. /\ TypeOK /\ cmd \in Request /\ cmd.pc = "cloned"
      /\ cmd.app \in Apps /\ cmd.group \in Groups /\ OfApp
      /\ cmd.bot \in BotApp /\ cmd.bot.mode \notin {"default", "typo"}
      /\ CONFIG' = [CONFIG EXCEPT !.apps[cmd.app] = cmd.bot]
      /\ UNCHANGED << file, compiled, pending, watch, failed, edit, inherit, count >>
  BY DEF IInv, TypeOK, CmdInv, StoreBotApp
<1>2. CONFIG \in Config /\ Valid(CONFIG) /\ Resolved(CONFIG) = CONFIG BY <1>1 DEF TypeOK
<1>3. PICK d : d = [CONFIG EXCEPT !.apps[cmd.app] = cmd.bot] OBVIOUS
<1>4. /\ d \in Config /\ Valid(d) /\ Resolved(d) = d
      /\ d.default = CONFIG.default /\ d.apps[cmd.app] = cmd.bot
  <2>1. /\ CONFIG.default \in Default /\ CONFIG.apps \in [Apps -> BotApp]
        /\ CONFIG.blocked \in SUBSET Groups
    BY <1>2 DEF Config
  <2>2. /\ d \in Config /\ d.default = CONFIG.default
        /\ d.apps = [CONFIG.apps EXCEPT ![cmd.app] = cmd.bot]
    BY <1>1, <1>2, <1>3, <2>1 DEF Config
  <2>3. \A x \in Apps : CONFIG.apps[x].mode # "default" BY <1>2, ResolvedFacts
  <2>4. \A x \in Apps : d.apps[x] = IF x = cmd.app THEN cmd.bot ELSE CONFIG.apps[x]
    BY <2>1, <2>2
  <2>5. Valid(d) BY <1>1, <1>2, <2>2, <2>4, FilterAssumption DEF Valid
  <2>6. \A x \in Apps : d.apps[x].mode # "default" BY <1>1, <2>3, <2>4
  <2>7. QED BY <1>1, <2>2, <2>4, <2>5, <2>6, ResolvedFacts
<1>5. CONFIG' = d BY <1>1, <1>3
<1>6. /\ cmd' \in Request /\ cmd'.pc = "stored" /\ cmd'.bot = cmd.bot
      /\ cmd'.kind = cmd.kind /\ cmd'.app = cmd.app /\ cmd'.group = cmd.group
      /\ cmd'.over = cmd.over /\ cmd'.reply = cmd.reply
  BY <1>1 DEF Request, StoreBotApp
<1>7. TypeOK' 
  <2>1. Valid(CONFIG)' BY <1>4, <1>5 DEF Valid
  <2>2. Resolved(CONFIG)' = CONFIG' BY <1>4, <1>5 DEF Resolved
  <2>3. QED BY <1>1, <1>4, <1>5, <1>6, <2>1, <2>2 DEF TypeOK
<1>8. CmdInv' BY <1>1, <1>6 DEF IInv, CmdInv
<1>9. ReadInv' BY <1>1 DEF IInv, ReadInv, Loading
<1>10. ConfigInv' /\ CompiledInv' BY <1>6 DEF ConfigInv, CompiledInv, Active
<1>11. EditInv' BY <1>1, <1>4, <1>5, <1>6 DEF IInv, EditInv, Active, Loading
<1>12. CommandInv'
  BY <1>1, <1>4, <1>5, <1>6 DEF IInv, CommandInv, Active, OfApp, Does, Done
<1>13. QED BY <1>7, <1>8, <1>9, <1>10, <1>11, <1>12 DEF IInv

\* The global block is changed.
LEMMA BlockKeeps ==
    ASSUME IInv, NEW k \in Kinds, NEW g \in Groups, executeGlobalBlockCommand(k, g)
    PROVE  IInv'
<1>1. /\ TypeOK /\ ~ Active /\ k \in {"block", "unblock"}
      /\ None \in Apps \cup {None}
      /\ UNCHANGED << file, compiled, pending, watch, failed, inherit >>
  BY DEF IInv, executeGlobalBlockCommand, Begin
<1>2. CONFIG \in Config /\ Valid(CONFIG) /\ Resolved(CONFIG) = CONFIG /\ CONFIG.blocked \in SUBSET Groups
  BY <1>1 DEF TypeOK, Config
<1>3. PICK new \in SUBSET Groups :
          new = IF k = "block" THEN CONFIG.blocked \cup {g} ELSE CONFIG.blocked \ {g}
  BY <1>2
<1>4. PICK d : d = [CONFIG EXCEPT !.blocked = new] OBVIOUS
<1>5. /\ d \in Config /\ Valid(d) /\ Resolved(d) = d
      /\ d.default = CONFIG.default /\ d.apps = CONFIG.apps /\ d.blocked = new
      /\ new = CONFIG.blocked => d = CONFIG
  BY <1>2, <1>3, <1>4, BlockFacts
<1>6. /\ CONFIG' = d
      /\ IF new = CONFIG.blocked THEN Begin(k, None, g, "replied", "already")
                                 ELSE Begin(k, None, g, "stored", "none")
  BY <1>3, <1>4 DEF executeGlobalBlockCommand
<1>7. PICK at \in {"replied", "stored"}, ans \in {"already", "none"} :
          /\ Begin(k, None, g, at, ans)
          /\ at = "replied" => new = CONFIG.blocked /\ ans = "already"
  BY <1>6
<1>8. /\ cmd' \in Request /\ edit' \in Edit /\ count' \in Count
      /\ cmd'.pc = at /\ cmd'.kind = k /\ cmd'.app = None /\ cmd'.group = g
      /\ ~ cmd'.over /\ cmd'.reply = ans
      /\ edit'.default = edit.default /\ edit'.unread = edit.unread
      /\ edit'.risk <=> edit.risk \/ edit.unread
  BY <1>1, <1>7, BeginFacts DEF Begin
<1>9. TypeOK'
  <2>1. Valid(CONFIG)' BY <1>5, <1>6 DEF Valid
  <2>2. Resolved(CONFIG)' = CONFIG' BY <1>5, <1>6 DEF Resolved
  <2>3. QED BY <1>1, <1>5, <1>6, <1>8, <2>1, <2>2 DEF TypeOK
<1>10. CmdInv' BY <1>8 DEF CmdInv
<1>11. ReadInv' BY <1>1 DEF IInv, ReadInv, Loading
<1>12. ConfigInv' BY <1>1, <1>5, <1>6, <1>7, <1>8 DEF IInv, ConfigInv, Loading, Active
<1>13. CompiledInv' BY <1>1, <1>5, <1>6, <1>7, <1>8 DEF IInv, CompiledInv, Active, Fresh
<1>14. EditInv' BY <1>1, <1>5, <1>6, <1>8 DEF IInv, EditInv, Active, Loading
<1>15. CommandInv'
  BY <1>1, <1>3, <1>5, <1>6, <1>7, <1>8 DEF CommandInv, Active, OfApp, Done, Blocks
<1>16. QED BY <1>9, <1>10, <1>11, <1>12, <1>13, <1>14, <1>15 DEF IInv

\* The file is cut off, and CONFIG is what will be written.
LEMMA BeginSaveKeeps == ASSUME IInv, BeginSave PROVE IInv'
<1>1. /\ TypeOK /\ cmd \in Request /\ cmd.pc = "stored" /\ CONFIG \in Config
      /\ Resolved(CONFIG) = CONFIG /\ file' = Empty /\ pending'
      /\ UNCHANGED << CONFIG, compiled, watch, failed, edit, inherit, count >>
  BY DEF IInv, TypeOK, BeginSave
<1>2. /\ cmd' \in Request /\ cmd'.pc = "written" /\ cmd'.data = CONFIG
      /\ cmd'.kind = cmd.kind /\ cmd'.app = cmd.app /\ cmd'.group = cmd.group
      /\ cmd'.over = cmd.over /\ cmd'.reply = cmd.reply
  BY <1>1 DEF Request, BeginSave
<1>3. TypeOK' BY <1>1, <1>2 DEF TypeOK, BeginSave
<1>4. CmdInv' BY <1>1, <1>2 DEF IInv, CmdInv, Resolved
<1>5. ReadInv' BY <1>1 DEF IInv, ReadInv, Loading
<1>6. ConfigInv' /\ CompiledInv' BY <1>1 DEF ConfigInv, CompiledInv
<1>7. EditInv' BY <1>1, <1>2 DEF IInv, EditInv, Active, Loading
<1>8. CommandInv'
  BY <1>1, <1>2, FilterAssumption, ZenonT(30)
  DEF IInv, CommandInv, Active, OfApp, Done, Does, Blocks, Resolved
<1>9. QED BY <1>3, <1>4, <1>5, <1>6, <1>7, <1>8 DEF IInv

\* The file is what was CONFIG when it was cut off.
LEMMA EndSaveKeeps == ASSUME IInv, EndSave PROVE IInv'
<1>1. /\ TypeOK /\ cmd \in Request /\ cmd.pc = "written"
      /\ cmd.data \in Config /\ Resolved(cmd.data) = cmd.data
      /\ file' = cmd.data /\ pending'
      /\ UNCHANGED << CONFIG, compiled, watch, failed, edit, inherit, count >>
  BY DEF IInv, TypeOK, CmdInv, EndSave
<1>2. PICK o \in BOOLEAN : o <=> cmd.over \/ \E w \in Watchers : Loading(w) /\ watch[w].cfg # Empty
  OBVIOUS
<1>3. /\ cmd' \in Request /\ cmd'.pc = "saved"
      /\ cmd'.kind = cmd.kind /\ cmd'.app = cmd.app /\ cmd'.group = cmd.group
      /\ cmd'.over = o /\ cmd'.reply = cmd.reply
  BY <1>1, <1>2 DEF Request, EndSave
<1>4. TypeOK' BY <1>1, <1>3 DEF TypeOK, EndSave
<1>5. CmdInv' BY <1>1, <1>3 DEF IInv, CmdInv
<1>6. ReadInv' BY <1>1 DEF IInv, ReadInv, Loading
<1>7. ConfigInv' /\ CompiledInv' BY <1>1 DEF ConfigInv, CompiledInv
<1>8. EditInv' BY <1>1, <1>3 DEF IInv, EditInv, Active, Loading
<1>9. CommandInv'
  BY <1>1, <1>2, <1>3, FilterAssumption
  DEF IInv, CommandInv, Active, OfApp, Done, Does, Blocks, Resolved, Loading
<1>10. QED BY <1>4, <1>5, <1>6, <1>7, <1>8, <1>9 DEF IInv

\* The filters of a configuration.
LEMMA CompileFacts ==
    ASSUME NEW c \in Config
    PROVE  /\ Compile(c) \in [Apps -> [bot : BotApp, forced : BOOLEAN]]
           /\ \A a \in Apps : Compile(c)[a].bot = c.apps[a]
BY DEF Compile, Config

\* The filters are compiled after the write.
LEMMA RebuildKeeps == ASSUME IInv, Rebuild PROVE IInv'
<1>1. /\ TypeOK /\ cmd \in Request /\ cmd.pc = "saved" /\ CONFIG \in Config
      /\ compiled' = Compile(CONFIG)
      /\ UNCHANGED << file, CONFIG, pending, watch, failed, edit, inherit, count >>
  BY DEF IInv, TypeOK, Rebuild
<1>2. /\ cmd' \in Request /\ cmd'.pc = "replied" /\ cmd'.data = cmd.data
      /\ cmd'.kind = cmd.kind /\ cmd'.app = cmd.app /\ cmd'.group = cmd.group
      /\ cmd'.over = cmd.over /\ cmd'.reply = "done"
  BY <1>1 DEF Request, Rebuild
<1>3. /\ compiled' \in [Apps -> [bot : BotApp, forced : BOOLEAN]]
      /\ \A a \in Apps : compiled'[a].bot = CONFIG.apps[a]
  BY <1>1, CompileFacts
<1>4. TypeOK' BY <1>1, <1>2, <1>3 DEF TypeOK
<1>5. CmdInv' BY <1>2 DEF CmdInv
<1>6. ReadInv' BY <1>1 DEF IInv, ReadInv, Loading
<1>7. ConfigInv' BY <1>1, <1>2 DEF IInv, ConfigInv, Loading
<1>8. CompiledInv' BY <1>1, <1>3 DEF CompiledInv, Fresh
<1>9. EditInv' BY <1>1, <1>2 DEF IInv, EditInv, Active, Loading
<1>10. CommandInv'
  BY <1>1, <1>2, ZenonT(30) DEF IInv, CommandInv, Active, OfApp, Done, Does, Blocks, Loading
<1>11. QED BY <1>4, <1>5, <1>6, <1>7, <1>8, <1>9, <1>10 DEF IInv

-----------------------------------------------------------------------------
(* Reloads keep the invariant. *)

\* No other watcher holds configMutex.
LEMMA ReadKeeps == ASSUME IInv, NEW w \in Watchers, Read(w) PROVE IInv'
<1>1. /\ TypeOK /\ \A v \in Watchers : ~ Loading(v)
      /\ watch \in [Watchers -> Reload] /\ file \in Config \cup {Empty}
      /\ watch' = [watch EXCEPT ![w] = [pc |-> "read", cfg |-> file]]
      /\ UNCHANGED << file, CONFIG, compiled, cmd, failed, edit, inherit >>
  BY DEF IInv, TypeOK, Read
<1>2. count' \in Count /\ pending' \in BOOLEAN
  <2>1. count \in Count /\ pending \in BOOLEAN BY <1>1 DEF TypeOK
  <2>2. CASE w = ConfigWatcher BY <2>1, <2>2 DEF Read
  <2>3. CASE w # ConfigWatcher
    <3>1. /\ count.touches < MaxTouches /\ count' = [count EXCEPT !.touches = @ + 1]
          /\ pending' = pending
      BY <2>3 DEF Read
    <3>2. QED BY <2>1, <3>1, FilterAssumption DEF Count
  <2>4. QED BY <2>2, <2>3
<1>3. /\ watch' \in [Watchers -> Reload]
      /\ watch'[w].pc = "read" /\ watch'[w].cfg = file
      /\ \A v \in Watchers \ {w} : watch'[v] = watch[v]
  BY <1>1 DEF Reload
<1>4. /\ Loading(w)' /\ \A v \in Watchers : Loading(v)' => v = w
  BY <1>1, <1>3 DEF Loading
<1>5. TypeOK' BY <1>1, <1>2, <1>3 DEF TypeOK
<1>6. CmdInv' BY <1>1 DEF IInv, CmdInv, OfApp
<1>7. ReadInv' BY <1>1, <1>3, <1>4 DEF ReadInv
<1>8. ConfigInv' BY <1>4 DEF ConfigInv
<1>9. CompiledInv' BY <1>3 DEF CompiledInv
<1>10. EditInv' BY <1>1, <1>3, <1>4 DEF IInv, EditInv, Active
<1>11. CommandInv'
  BY <1>1, <1>3, <1>4 DEF IInv, CommandInv, Active, OfApp, Done, Does, Blocks
<1>12. QED BY <1>5, <1>6, <1>7, <1>8, <1>9, <1>10, <1>11 DEF IInv

\* Filters of a configuration not yet checked are in force; the hook is to come.
LEMMA ResolveKeeps == ASSUME IInv, NEW w \in Watchers, ResolveConfig(w) PROVE IInv'
<1>1. /\ TypeOK /\ watch \in [Watchers -> Reload] /\ watch[w].pc = "read"
      /\ watch' = [watch EXCEPT ![w].pc = "resolved"]
      /\ compiled' = IF watch[w].cfg = Empty THEN compiled ELSE Compile(watch[w].cfg)
      /\ UNCHANGED << file, CONFIG, pending, failed, edit, inherit, count >>
  BY DEF IInv, TypeOK, ResolveConfig
<1>2. PICK x \in BOOLEAN : x <=> Unsaved /\ watch[w].cfg # Empty OBVIOUS
<1>3. cmd' = [cmd EXCEPT !.over = @ \/ x] BY <1>2 DEF ResolveConfig, Overtakes
<1>4. /\ cmd' \in Request
      /\ cmd'.pc = cmd.pc /\ cmd'.kind = cmd.kind /\ cmd'.app = cmd.app
      /\ cmd'.group = cmd.group /\ cmd'.bot = cmd.bot /\ cmd'.data = cmd.data
      /\ cmd'.reply = cmd.reply
      /\ cmd'.over <=> cmd.over \/ x
  BY <1>1, <1>3, OverFacts
<1>5. /\ watch' \in [Watchers -> Reload] /\ watch'[w].pc = "resolved"
      /\ \A v \in Watchers : watch'[v].cfg = watch[v].cfg /\ (Loading(v)' <=> Loading(v))
  BY <1>1 DEF Reload, Loading
<1>6. /\ compiled' \in [Apps -> [bot : BotApp, forced : BOOLEAN]]
      /\ watch[w].cfg = Empty => compiled' = compiled
  BY <1>1, CompileFacts DEF TypeOK, Reload
<1>7. TypeOK' BY <1>1, <1>4, <1>5, <1>6 DEF TypeOK
<1>8. CmdInv' BY <1>4 DEF IInv, CmdInv, OfApp, Resolved
<1>9. ReadInv' BY <1>1, <1>5 DEF IInv, ReadInv
<1>10. ConfigInv' BY <1>1, <1>4, <1>5 DEF IInv, ConfigInv
<1>11. CompiledInv' BY <1>5 DEF CompiledInv
<1>12. EditInv' BY <1>1, <1>4, <1>5 DEF IInv, EditInv, Active
<1>13. CommandInv'
  <2>1. SUFFICES ASSUME Active \/ cmd.reply = "done", ~ cmd.over, ~ x
                 PROVE  CommandInv'
    BY <1>4 DEF CommandInv, Active
  <2>2. cmd.pc = "begun" => compiled' = compiled BY <1>2, <1>6, <2>1 DEF Unsaved, Active
  <2>3. ASSUME cmd.pc \in {"saved", "replied"}, NEW v \in Watchers,
               Loading(v)', watch'[v].cfg # Empty
        PROVE  (Resolved(watch[v].cfg) = watch[v].cfg /\ Done(watch[v].cfg))'
    <3>1. PICK c : c = watch[v].cfg OBVIOUS
    <3>2. watch'[v].cfg = c /\ Loading(v) /\ c # Empty BY <1>5, <2>3, <3>1
    <3>3. Resolved(c) = c /\ Done(c) BY <2>1, <2>3, <3>1, <3>2 DEF IInv, CommandInv
    <3>4. QED BY <1>4, <3>2, <3>3 DEF Done, Does, Blocks, OfApp, Resolved
  <2>4. (cmd.pc = "cloned" => Does(cmd.bot))'
    BY <1>4, <2>1 DEF IInv, CommandInv, Active, Does
  <2>5. (cmd.pc \in {"stored", "written", "saved", "replied"} => Done(CONFIG))'
    BY <1>1, <1>4, <2>1 DEF IInv, CommandInv, Active, OfApp, Done, Does, Blocks
  <2>6. (cmd.pc = "written" => cmd.data # Empty /\ Resolved(cmd.data) = cmd.data /\ Done(cmd.data))'
    BY <1>4, <2>1 DEF IInv, CommandInv, Active, OfApp, Done, Does, Blocks, Resolved
  <2>7. (cmd.pc \in {"saved", "replied"} => file # Empty /\ Resolved(file) = file /\ Done(file))'
    BY <1>1, <1>4, <2>1, ZenonT(30) DEF IInv, CommandInv, Active, OfApp, Done, Does, Blocks, Resolved
  <2>8. /\ (OfApp' <=> OfApp) /\ cmd.group \in Groups /\ cmd.kind \in Kinds
        /\ OfApp => cmd.app \in Apps
        /\ ~ OfApp => cmd.pc \notin {"begun", "cloned"}
        /\ cmd.pc = "begun" =>
             /\ cmd.kind = "disable" => cmd.group \in compiled[cmd.app].bot.ids
             /\ cmd.kind = "enable"  => cmd.group \notin compiled[cmd.app].bot.ids
    BY <1>4, <2>1 DEF IInv, CommandInv, Active, OfApp
  <2>9. QED BY <1>4, <2>1, <2>2, <2>3, <2>4, <2>5, <2>6, <2>7, <2>8 DEF CommandInv
<1>14. QED BY <1>7, <1>8, <1>9, <1>10, <1>11, <1>12, <1>13 DEF IInv

\* What is refused is the file, or there is another event.
LEMMA RefuseKeeps == ASSUME IInv, NEW w \in Watchers, Refuse(w) PROVE IInv'
<1>1. /\ TypeOK /\ watch \in [Watchers -> Reload] /\ watch[w].pc = "resolved"
      /\ ~ Valid(watch[w].cfg) /\ watch' = [watch EXCEPT ![w] = NoReload]
      /\ UNCHANGED << file, CONFIG, compiled, pending, cmd, failed, edit, inherit, count >>
  BY DEF IInv, TypeOK, Refuse
<1>2. /\ watch' \in [Watchers -> Reload] /\ watch'[w].pc = "idle"
      /\ \A v \in Watchers \ {w} : watch'[v] = watch[v]
  BY <1>1 DEF Reload, NoReload
<1>3. Loading(w) /\ ~ Loading(w)' /\ \A v \in Watchers : ~ Loading(v)'
  BY <1>1, <1>2 DEF IInv, ReadInv, Loading
<1>4. pending \/ ~ Valid(file) BY <1>1, <1>3 DEF IInv, ReadInv
<1>5. TypeOK' BY <1>1, <1>2 DEF TypeOK
<1>6. CmdInv' BY <1>1 DEF IInv, CmdInv, OfApp, Resolved
<1>7. ReadInv' BY <1>3 DEF ReadInv
<1>8. ConfigInv' /\ CompiledInv' BY <1>1, <1>4 DEF ConfigInv, CompiledInv, Valid
<1>9. EditInv' BY <1>1, <1>3 DEF IInv, EditInv, Active
<1>10. CommandInv'
  BY <1>1, <1>3 DEF IInv, CommandInv, Active, OfApp, Done, Does, Blocks, Resolved
<1>11. QED BY <1>5, <1>6, <1>7, <1>8, <1>9, <1>10 DEF IInv

\* What is accepted is the file, or there is another event.
LEMMA AcceptKeeps == ASSUME IInv, NEW w \in Watchers, Accept(w) PROVE IInv'
<1>1. PICK c : c = watch[w].cfg OBVIOUS
<1>2. /\ TypeOK /\ watch \in [Watchers -> Reload] /\ watch[w].pc = "resolved"
      /\ c \in Config /\ Valid(c) /\ CONFIG' = Resolved(c) /\ ~ failed'
      /\ watch' = [watch EXCEPT ![w] = [pc |-> "hook", cfg |-> Empty]]
      /\ edit' = [edit EXCEPT !.unread = @ /\ c.default # edit.default]
      /\ UNCHANGED << file, compiled, pending, inherit, count >>
  BY <1>1 DEF IInv, TypeOK, Accept, Reload, Valid
<1>3. PICK x \in BOOLEAN : x <=> Unsaved OBVIOUS
<1>4. cmd' = [cmd EXCEPT !.over = @ \/ x] BY <1>3 DEF Accept, Overtakes
<1>5. /\ cmd' \in Request
      /\ cmd'.pc = cmd.pc /\ cmd'.kind = cmd.kind /\ cmd'.app = cmd.app
      /\ cmd'.group = cmd.group /\ cmd'.bot = cmd.bot /\ cmd'.data = cmd.data
      /\ cmd'.reply = cmd.reply
      /\ cmd'.over <=> cmd.over \/ x
  BY <1>2, <1>4, OverFacts
<1>6. /\ watch' \in [Watchers -> Reload] /\ watch'[w].pc = "hook"
      /\ \A v \in Watchers \ {w} : watch'[v] = watch[v]
  BY <1>2 DEF Reload
<1>7. Loading(w) /\ \A v \in Watchers : ~ Loading(v)'
  BY <1>2, <1>6 DEF IInv, ReadInv, Loading
<1>8. PICK u \in BOOLEAN : u <=> edit.unread /\ c.default # edit.default OBVIOUS
<1>9. /\ edit' \in Edit /\ edit'.default = edit.default /\ edit'.risk = edit.risk
      /\ edit'.unread = u
  BY <1>2, <1>8 DEF TypeOK, Edit
<1>10. PICK n : n = Resolved(c) OBVIOUS
<1>11. /\ n \in Config /\ Valid(n) /\ Resolved(n) = n /\ n.default = c.default
       /\ CONFIG' = n /\ (Resolved(c) = c => n = c)
  BY <1>2, <1>10, ResolvedFacts, ResolvedValid
<1>12. TypeOK'
  <2>1. Valid(CONFIG)' BY <1>11 DEF Valid
  <2>2. Resolved(CONFIG)' = CONFIG' BY <1>11 DEF Resolved
  <2>3. failed' \in BOOLEAN BY DEF Accept
  <2>4. QED BY <1>2, <1>5, <1>6, <1>9, <1>11, <2>1, <2>2, <2>3 DEF TypeOK
<1>13. CmdInv' BY <1>5 DEF IInv, CmdInv, OfApp, Resolved
<1>14. ReadInv' BY <1>7 DEF ReadInv
<1>15. ConfigInv'
  <2>1. pending \/ c = file BY <1>1, <1>7 DEF IInv, ReadInv
  <2>2. CASE pending BY <1>2, <2>2 DEF ConfigInv
  <2>3. CASE c = file BY <1>2, <2>3 DEF ConfigInv, Resolved
  <2>4. QED BY <2>1, <2>2, <2>3
<1>16. CompiledInv' BY <1>6 DEF CompiledInv
<1>17. EditInv'
  <2>1. ASSUME ~ edit.risk, ~ edit.unread PROVE c.default = edit.default
    BY <1>1, <1>2, <1>7, <2>1, FilterAssumption DEF IInv, EditInv
  <2>2. QED BY <1>2, <1>5, <1>7, <1>8, <1>9, <1>11, <2>1 DEF IInv, EditInv, Active
<1>18. CommandInv'
  <2>1. SUFFICES ASSUME Active \/ cmd.reply = "done", ~ cmd.over, ~ Unsaved
                 PROVE  CommandInv'
    BY <1>3, <1>5 DEF CommandInv, Active
  <2>2. cmd.pc \notin {"begun", "cloned", "stored", "written"} BY <2>1 DEF Unsaved, Active
  <2>3. cmd.pc \in {"saved", "replied"} => Resolved(c) = c /\ Done(c)
    BY <1>1, <1>2, <1>7, <2>1, FilterAssumption DEF IInv, CommandInv
  <2>4. cmd.pc \in {"saved", "replied"} => Done(n) BY <1>11, <2>3
  <2>5. QED BY <1>2, <1>5, <1>7, <1>11, <2>1, <2>2, <2>4, ZenonT(30)
        DEF IInv, CommandInv, Active, OfApp, Done, Does, Blocks, Resolved
<1>19. QED BY <1>12, <1>13, <1>14, <1>15, <1>16, <1>17, <1>18 DEF IInv

\* The filters are those of CONFIG again.
LEMMA HookKeeps == ASSUME IInv, NEW w \in Watchers, ReloadHook(w) PROVE IInv'
<1>1. /\ TypeOK /\ watch \in [Watchers -> Reload] /\ watch[w].pc = "hook" /\ CONFIG \in Config
      /\ compiled' = Compile(CONFIG) /\ watch' = [watch EXCEPT ![w] = NoReload]
      /\ UNCHANGED << file, CONFIG, pending, failed, edit, inherit, count >>
  BY DEF IInv, TypeOK, ReloadHook
<1>2. PICK x \in BOOLEAN : x <=> Unsaved OBVIOUS
<1>3. cmd' = [cmd EXCEPT !.over = @ \/ x] BY <1>2 DEF ReloadHook, Overtakes
<1>4. /\ cmd' \in Request
      /\ cmd'.pc = cmd.pc /\ cmd'.kind = cmd.kind /\ cmd'.app = cmd.app
      /\ cmd'.group = cmd.group /\ cmd'.bot = cmd.bot /\ cmd'.data = cmd.data
      /\ cmd'.reply = cmd.reply
      /\ cmd'.over <=> cmd.over \/ x
  BY <1>1, <1>3, OverFacts
<1>5. /\ watch' \in [Watchers -> Reload] /\ watch'[w].pc = "idle"
      /\ \A v \in Watchers \ {w} : watch'[v] = watch[v]
  BY <1>1 DEF Reload, NoReload
<1>6. \A v \in Watchers : /\ Loading(v)' <=> Loading(v)
                          /\ Loading(v) => watch'[v].cfg = watch[v].cfg
  BY <1>1, <1>5 DEF Loading
<1>7. /\ compiled' \in [Apps -> [bot : BotApp, forced : BOOLEAN]]
      /\ \A a \in Apps : compiled'[a].bot = CONFIG.apps[a]
  BY <1>1, CompileFacts
<1>8. TypeOK' BY <1>1, <1>4, <1>5, <1>7 DEF TypeOK
<1>9. CmdInv' BY <1>4 DEF IInv, CmdInv, OfApp, Resolved
<1>10. ReadInv' BY <1>1, <1>6 DEF IInv, ReadInv
<1>11. ConfigInv' BY <1>1, <1>4, <1>6 DEF IInv, ConfigInv
<1>12. CompiledInv' BY <1>1, <1>7 DEF CompiledInv, Fresh
<1>13. EditInv' BY <1>1, <1>4, <1>6 DEF IInv, EditInv, Active
<1>14. CommandInv'
  <2>1. SUFFICES ASSUME Active \/ cmd.reply = "done", ~ cmd.over, ~ Unsaved
                 PROVE  CommandInv'
    BY <1>2, <1>4 DEF CommandInv, Active
  <2>2. cmd.pc # "begun" BY <2>1 DEF Unsaved, Active
  <2>3. ASSUME cmd.pc \in {"saved", "replied"}, NEW v \in Watchers,
               Loading(v)', watch'[v].cfg # Empty
        PROVE  (Resolved(watch[v].cfg) = watch[v].cfg /\ Done(watch[v].cfg))'
    <3>1. PICK c : c = watch[v].cfg OBVIOUS
    <3>2. watch'[v].cfg = c /\ Loading(v) /\ c # Empty BY <1>6, <2>3, <3>1
    <3>3. Resolved(c) = c /\ Done(c) BY <2>1, <2>3, <3>1, <3>2 DEF IInv, CommandInv
    <3>4. QED BY <1>4, <3>2, <3>3 DEF Done, Does, Blocks, OfApp, Resolved
  <2>4. (cmd.pc = "cloned" => Does(cmd.bot))'
    BY <1>4, <2>1 DEF IInv, CommandInv, Active, Does
  <2>5. (cmd.pc \in {"stored", "written", "saved", "replied"} => Done(CONFIG))'
    BY <1>1, <1>4, <2>1 DEF IInv, CommandInv, Active, OfApp, Done, Does, Blocks
  <2>6. (cmd.pc = "written" => cmd.data # Empty /\ Resolved(cmd.data) = cmd.data /\ Done(cmd.data))'
    BY <1>4, <2>1 DEF IInv, CommandInv, Active, OfApp, Done, Does, Blocks, Resolved
  <2>7. (cmd.pc \in {"saved", "replied"} => file # Empty /\ Resolved(file) = file /\ Done(file))'
    BY <1>1, <1>4, <2>1 DEF IInv, CommandInv, Active, OfApp, Done, Does, Blocks, Resolved
  <2>8. /\ (OfApp' <=> OfApp) /\ cmd.group \in Groups /\ cmd.kind \in Kinds
        /\ OfApp => cmd.app \in Apps
        /\ ~ OfApp => cmd.pc \notin {"begun", "cloned"}
        /\ cmd.pc = "begun" =>
             /\ cmd.kind = "disable" => cmd.group \in compiled[cmd.app].bot.ids
             /\ cmd.kind = "enable"  => cmd.group \notin compiled[cmd.app].bot.ids
    BY <1>4, <2>1 DEF IInv, CommandInv, Active, OfApp
  <2>9. QED BY <1>4, <2>1, <2>2, <2>3, <2>4, <2>5, <2>6, <2>7, <2>8 DEF CommandInv
<1>15. QED BY <1>8, <1>9, <1>10, <1>11, <1>12, <1>13, <1>14 DEF IInv

-----------------------------------------------------------------------------
(* Edits keep the invariant. *)

\* The editor's write leaves the memory of the program alone.
LEMMA SaveFacts ==
    ASSUME TypeOK, NEW new \in Config, Save(new)
    PROVE  /\ file' = new /\ file' \in Config /\ pending' = TRUE /\ count' \in Count
           /\ cmd' \in Request /\ cmd'.over
           /\ cmd'.pc = cmd.pc /\ cmd'.kind = cmd.kind /\ cmd'.app = cmd.app
           /\ cmd'.group = cmd.group /\ cmd'.bot = cmd.bot /\ cmd'.data = cmd.data
           /\ cmd'.reply = cmd.reply
           /\ UNCHANGED << CONFIG, compiled, watch, failed >>
<1>1. cmd \in Request /\ count \in Count BY DEF TypeOK
<1>2. count' \in Count BY <1>1, FilterAssumption DEF Save, Count
<1>3. QED BY <1>1, <1>2 DEF Save, Request

\* An edit of the default is at risk only from the command under way.
LEMMA EditDefaultKeeps == ASSUME IInv, EditDefault PROVE IInv'
<1>1. PICK d \in Defaults \ {file.default} :
          /\ Save([file EXCEPT !.default = d])
          /\ edit' = [default |-> d, unread |-> TRUE, risk |-> Active]
          /\ UNCHANGED inherit
  BY DEF EditDefault
<1>2. TypeOK /\ file \in Config /\ d \in Default
  BY FilterAssumption DEF EditDefault, IInv, TypeOK
<1>3. PICK new : new = [file EXCEPT !.default = d] OBVIOUS
<1>4. new \in Config /\ new.default = d BY <1>2, <1>3 DEF Config
<1>5. Save(new) BY <1>1, <1>3
<1>6. /\ file' = new /\ file' \in Config /\ pending' = TRUE /\ count' \in Count
      /\ cmd' \in Request /\ cmd'.over
      /\ cmd'.pc = cmd.pc /\ cmd'.kind = cmd.kind /\ cmd'.app = cmd.app
      /\ cmd'.group = cmd.group /\ cmd'.bot = cmd.bot /\ cmd'.data = cmd.data
      /\ cmd'.reply = cmd.reply
      /\ UNCHANGED << CONFIG, compiled, watch, failed >>
  BY <1>2, <1>4, <1>5, SaveFacts
<1>7. PICK r \in BOOLEAN : r <=> Active OBVIOUS
<1>8. edit' \in Edit /\ edit'.default = d /\ edit'.unread /\ (edit'.risk <=> Active)
  BY <1>1, <1>2, <1>7 DEF Edit
<1>9. TypeOK' BY <1>1, <1>2, <1>6, <1>8 DEF TypeOK
<1>10. CmdInv' BY <1>6 DEF IInv, CmdInv, OfApp, Resolved
<1>11. ReadInv' BY <1>6 DEF IInv, ReadInv, Loading
<1>12. ConfigInv' /\ CompiledInv' BY <1>6 DEF ConfigInv, CompiledInv
<1>13. EditInv' BY <1>4, <1>6, <1>8 DEF EditInv, Active
<1>14. CommandInv' BY <1>6 DEF CommandInv
<1>15. QED BY <1>9, <1>10, <1>11, <1>12, <1>13, <1>14 DEF IInv

\* An edit of a bot app leaves the default alone.
LEMMA EditBotAppKeeps == ASSUME IInv, EditBotApp PROVE IInv'
<1>1. PICK a \in Apps, b \in Starts :
          /\ Save([file EXCEPT !.apps[a] = b])
          /\ inherit' = IF b.mode = "default" THEN inherit \cup {a} ELSE inherit \ {a}
          /\ UNCHANGED edit
  BY DEF EditBotApp
<1>2. TypeOK /\ file \in Config /\ b \in BotApp /\ file # Empty
  BY FilterAssumption DEF EditBotApp, IInv, TypeOK
<1>3. PICK new : new = [file EXCEPT !.apps[a] = b] OBVIOUS
<1>4. new \in Config /\ new.default = file.default BY <1>2, <1>3 DEF Config
<1>5. Save(new) BY <1>1, <1>3
<1>6. /\ file' = new /\ file' \in Config /\ pending' = TRUE /\ count' \in Count
      /\ cmd' \in Request /\ cmd'.over
      /\ cmd'.pc = cmd.pc /\ cmd'.kind = cmd.kind /\ cmd'.app = cmd.app
      /\ cmd'.group = cmd.group /\ cmd'.bot = cmd.bot /\ cmd'.data = cmd.data
      /\ cmd'.reply = cmd.reply
      /\ UNCHANGED << CONFIG, compiled, watch, failed >>
  BY <1>2, <1>4, <1>5, SaveFacts
<1>7. inherit' \subseteq Apps BY <1>1, <1>2 DEF TypeOK
<1>8. TypeOK' BY <1>1, <1>2, <1>6, <1>7 DEF TypeOK
<1>9. CmdInv' BY <1>6 DEF IInv, CmdInv, OfApp, Resolved
<1>10. ReadInv' BY <1>6 DEF IInv, ReadInv, Loading
<1>11. ConfigInv' /\ CompiledInv' BY <1>6 DEF ConfigInv, CompiledInv
<1>12. EditInv' BY <1>1, <1>2, <1>4, <1>6 DEF IInv, EditInv, Active, Loading
<1>13. CommandInv' BY <1>6 DEF CommandInv
<1>14. QED BY <1>8, <1>9, <1>10, <1>11, <1>12, <1>13 DEF IInv

-----------------------------------------------------------------------------
(* Theorems. *)

\* The program starts with the file compiled.
LEMMA InitHolds == Init => IInv
<1> SUFFICES ASSUME Init PROVE IInv OBVIOUS
<1>1. PICK d \in Defaults, b \in [Apps -> Starts] :
          file = [default |-> d, apps |-> b, blocked |-> {}]
  BY DEF Init
<1>2. d \in Default /\ b \in [Apps -> BotApp] BY <1>1, FilterAssumption
<1>3. file \in Config /\ file.default = d /\ file.apps = b BY <1>1, <1>2 DEF Config
<1>4. /\ CONFIG = Resolved(file) /\ CONFIG \in Config /\ Valid(CONFIG) /\ Resolved(CONFIG) = CONFIG
      /\ CONFIG.default = d
  BY <1>3, ResolvedFacts, ResolvedValid DEF Init
<1>5. /\ compiled \in [Apps -> [bot : BotApp, forced : BOOLEAN]]
      /\ \A a \in Apps : compiled[a].bot = CONFIG.apps[a]
  BY <1>4, CompileFacts DEF Init
<1>6. cmd \in Request BY DEF Init, NoCommand, Request
<1>7. edit \in Edit BY <1>2, <1>3 DEF Init, Edit
<1>8. watch \in [Watchers -> Reload] BY DEF Init, NoReload, Reload
<1>9. count \in Count BY FilterAssumption DEF Init, Count
<1>10. TypeOK BY <1>3, <1>4, <1>5, <1>6, <1>7, <1>8, <1>9 DEF Init, TypeOK
<1>11. \A w \in Watchers : ~ Loading(w) BY DEF Init, NoReload, Loading
<1>12. cmd.pc = "idle" /\ cmd.reply = "none" /\ ~ edit.unread /\ edit.default = d
  BY <1>3 DEF Init, NoCommand
<1>13. CmdInv BY <1>12 DEF CmdInv
<1>14. ReadInv BY <1>11 DEF ReadInv
<1>15. ConfigInv /\ CompiledInv BY <1>4, <1>5 DEF ConfigInv, CompiledInv, Fresh
<1>16. EditInv BY <1>3, <1>4, <1>11, <1>12 DEF EditInv, Active
<1>17. CommandInv BY <1>12 DEF CommandInv, Active
<1>18. QED BY <1>10, <1>13, <1>14, <1>15, <1>16, <1>17 DEF IInv

\* Every step keeps the invariant.
LEMMA NextKeeps == IInv /\ [Next]_vars => IInv'
<1> SUFFICES ASSUME IInv, [Next]_vars PROVE IInv' OBVIOUS
<1>1. ASSUME NEW a \in Apps, NEW g \in Groups, AddToBlacklist(a, g) \/ RemoveFromBlacklist(a, g)
      PROVE IInv'
  BY <1>1, BlacklistKeeps
<1>2. ASSUME NEW k \in Kinds, NEW a \in Apps, NEW g \in Groups, executePresetCommand(k, a, g)
      PROVE IInv'
  BY <1>2, PresetKeeps
<1>3. ASSUME NEW k \in Kinds, NEW g \in Groups, executeGlobalBlockCommand(k, g) PROVE IInv'
  BY <1>3, BlockKeeps
<1>4. CASE Clone BY <1>4, CloneKeeps
<1>5. CASE CloneFails
  <2>1. Active /\ Fails BY <1>5 DEF CloneFails, Active
  <2>2. QED BY <2>1, FailsKeeps
<1>6. CASE StoreBotApp BY <1>6, StoreKeeps
<1>7. CASE BeginSave BY <1>7, BeginSaveKeeps
<1>8. CASE EndSave BY <1>8, EndSaveKeeps
<1>9. CASE SaveFails
  <2>1. Active /\ Fails BY <1>9 DEF SaveFails, Active
  <2>2. QED BY <2>1, FailsKeeps
<1>10. CASE Rebuild BY <1>10, RebuildKeeps
<1>11. ASSUME NEW w \in Watchers, Read(w) PROVE IInv' BY <1>11, ReadKeeps
<1>12. ASSUME NEW w \in Watchers, ResolveConfig(w) PROVE IInv' BY <1>12, ResolveKeeps
<1>13. ASSUME NEW w \in Watchers, Refuse(w) PROVE IInv' BY <1>13, RefuseKeeps
<1>14. ASSUME NEW w \in Watchers, Accept(w) PROVE IInv' BY <1>14, AcceptKeeps
<1>15. ASSUME NEW w \in Watchers, ReloadHook(w) PROVE IInv' BY <1>15, HookKeeps
<1>16. CASE EditDefault BY <1>16, EditDefaultKeeps
<1>17. CASE EditBotApp BY <1>17, EditBotAppKeeps
<1>18. CASE UNCHANGED vars
  <2>1. UNCHANGED << file, CONFIG, compiled, pending, watch, cmd, failed, edit, inherit, count >>
    BY <1>18 DEF vars
  <2>2. TypeOK' BY <2>1 DEF IInv, TypeOK, Valid, Resolved
  <2>3. CmdInv' BY <2>1 DEF IInv, CmdInv, OfApp, Resolved
  <2>4. ReadInv' BY <2>1 DEF IInv, ReadInv, Loading
  <2>5. ConfigInv' BY <2>1 DEF IInv, ConfigInv, Loading, Valid, Resolved
  <2>6. CompiledInv' BY <2>1 DEF IInv, CompiledInv, Fresh, Active, Valid
  <2>7. EditInv' BY <2>1 DEF IInv, EditInv, Active, Loading
  <2>8. CommandInv'
    <3>1. SUFFICES ASSUME Active \/ cmd.reply = "done", ~ cmd.over PROVE CommandInv'
      BY <2>1 DEF CommandInv, Active
    <3>2. (cmd.pc = "cloned" => Does(cmd.bot))' BY <2>1, <3>1 DEF IInv, CommandInv, Does
    <3>3. (cmd.pc \in {"stored", "written", "saved", "replied"} => Done(CONFIG))'
      BY <2>1, <3>1 DEF IInv, CommandInv, OfApp, Done, Does, Blocks
    <3>4. (cmd.pc = "written" => cmd.data # Empty /\ Resolved(cmd.data) = cmd.data /\ Done(cmd.data))'
      BY <2>1, <3>1 DEF IInv, CommandInv, OfApp, Done, Does, Blocks, Resolved
    <3>5. (cmd.pc \in {"saved", "replied"} => file # Empty /\ Resolved(file) = file /\ Done(file))'
      BY <2>1, <3>1 DEF IInv, CommandInv, OfApp, Done, Does, Blocks, Resolved
    <3>6. ASSUME cmd.pc \in {"saved", "replied"}, NEW v \in Watchers,
                 Loading(v)', watch'[v].cfg # Empty
          PROVE  (Resolved(watch[v].cfg) = watch[v].cfg /\ Done(watch[v].cfg))'
      <4>1. PICK c : c = watch[v].cfg OBVIOUS
      <4>2. watch'[v].cfg = c /\ Loading(v) /\ c # Empty BY <2>1, <3>6, <4>1 DEF Loading
      <4>3. Resolved(c) = c /\ Done(c) BY <3>1, <3>6, <4>1, <4>2 DEF IInv, CommandInv
      <4>4. QED BY <2>1, <4>2, <4>3 DEF Done, Does, Blocks, OfApp, Resolved
    <3>7. /\ (OfApp' <=> OfApp) /\ cmd.group \in Groups /\ cmd.kind \in Kinds
          /\ OfApp => cmd.app \in Apps
          /\ ~ OfApp => cmd.pc \notin {"begun", "cloned"}
          /\ cmd.pc = "begun" =>
               /\ cmd.kind = "disable" => cmd.group \in compiled[cmd.app].bot.ids
               /\ cmd.kind = "enable"  => cmd.group \notin compiled[cmd.app].bot.ids
      BY <2>1, <3>1 DEF IInv, CommandInv, OfApp
    <3>8. QED BY <2>1, <3>1, <3>2, <3>3, <3>4, <3>5, <3>6, <3>7 DEF CommandInv
  <2>9. QED BY <2>2, <2>3, <2>4, <2>5, <2>6, <2>7, <2>8 DEF IInv
<1>19. QED
  BY <1>1, <1>2, <1>3, <1>4, <1>5, <1>6, <1>7, <1>8, <1>9, <1>10, <1>11, <1>12, <1>13, <1>14,
     <1>15, <1>16, <1>17, <1>18
  DEF Next

\* The invariant the theorems below rest on.
THEOREM Invariant == Spec => []IInv
<1>1. QED BY InitHolds, NextKeeps, PTL DEF Spec

\* The variables of commands, reloads and edits have their types; above all CONFIG is
\* always one that Check has accepted, whatever commands write into it meanwhile
\* (core/config.go:212-249, filter/state.go:141-178).
THEOREM FilterTypes == Spec => []TypeOK
<1>1. IInv => TypeOK BY DEF IInv
<1>2. QED BY <1>1, Invariant, PTL

\* Once all events are worked off the file, CONFIG and the filters agree, for any number
\* of watchers, commands and edits and in any order (filter/state.go:141-197,
\* core/config.go:212-249).
THEOREM FilterSettles == Spec => []SettledAgrees
<1>1. IInv => SettledAgrees
  <2> SUFFICES ASSUME IInv, Settled, Valid(file), ~ failed
               PROVE  /\ CONFIG = Resolved(file)
                      /\ \A a \in Apps : compiled[a].bot = CONFIG.apps[a]
    BY DEF SettledAgrees
  <2>1. /\ ~ Active /\ ~ pending /\ \A w \in Watchers : watch[w].pc = "idle" BY DEF Settled
  <2>2. \A w \in Watchers : ~ Loading(w) BY <2>1 DEF Loading
  <2>3. CONFIG = Resolved(file) BY <2>1, <2>2 DEF IInv, ConfigInv, Active
  <2>4. Fresh BY <2>1 DEF IInv, CompiledInv
  <2>5. QED BY <2>3, <2>4 DEF Fresh
<1>2. QED BY <1>1, Invariant, PTL

\* No command loses an edit that was made while none was under way and read before
\* the next (filter/state.go:199-219).
THEOREM EditsKept == Spec => []EditKept
<1>1. IInv => EditKept BY DEF IInv, EditInv, EditKept
<1>2. QED BY <1>1, Invariant, PTL

\* A command that says it is done and that nothing overtook is in effect in the file and
\* in memory (filter/state.go:141-178).
THEOREM CommandsKept == Spec => []CommandKept
<1>1. IInv => CommandKept
  <2> SUFFICES ASSUME IInv, cmd.reply = "done", ~ cmd.over
               PROVE  InEffect(file) /\ InEffect(CONFIG)
    BY DEF CommandKept
  <2>1. cmd.pc = "replied" BY DEF IInv, CmdInv
  <2>2. /\ cmd.group \in Groups /\ cmd.kind \in Kinds /\ (OfApp => cmd.app \in Apps)
        /\ Done(CONFIG) /\ Done(file)
    BY <2>1 DEF IInv, CommandInv
  <2>3. ASSUME NEW c, Done(c) PROVE InEffect(c)
    <3>1. CASE cmd.kind \in {"disable", "enable"}
      <4>1. cmd.app \in Apps /\ Does(c.apps[cmd.app]) BY <2>2, <2>3, <3>1 DEF Done, OfApp
      <4>2. Compile(c)[cmd.app].bot = c.apps[cmd.app] BY <4>1 DEF Compile
      <4>3. QED BY <3>1, <4>1, <4>2 DEF InEffect, Passes, Does
    <3>2. CASE cmd.kind \in {"preset", "clear"}
      BY <2>3, <3>2 DEF Done, OfApp, Does, InEffect
    <3>3. CASE cmd.kind \in {"block", "unblock"}
      BY <2>3, <3>3 DEF Done, OfApp, Blocks, InEffect
    <3>4. QED BY <2>2, <3>1, <3>2, <3>3, FilterAssumption
  <2>4. QED BY <2>2, <2>3
<1>2. QED BY <1>1, Invariant, PTL

-----------------------------------------------------------------------------
(* What an app that inherits the default has, before any command is given. *)

\* Before the first command only the editor has written the file.
EditorInv ==
    count.commands = 0 =>
        /\ cmd.pc = "idle" /\ ~ failed
        /\ file \in Config
        /\ inherit = {a \in Apps : file.apps[a].mode = "default"}

\* The bot apps whose mode is default in the file follow server.default.
InheritedUntilCommand ==
    count.commands = 0 /\ Settled /\ Valid(file) =>
        \A a \in inherit : compiled[a].bot.mode = file.default.mode

\* A step that counts no command is one of the editor or of a watcher.
LEMMA EditorSteps ==
    ASSUME TypeOK, EditorInv, [Next]_vars, count'.commands = 0
    PROVE  /\ count.commands = 0
           /\ \/ EditDefault \/ EditBotApp
              \/ UNCHANGED << file, inherit >> /\ (failed' => failed) /\ cmd'.pc = cmd.pc
<1>1. cmd \in Request /\ count \in Count /\ count.commands \in Nat
  BY FilterAssumption DEF TypeOK, Count
<1>2. ASSUME NEW k, NEW a, NEW g, NEW at, NEW r, Begin(k, a, g, at, r) PROVE FALSE
  <2>1. count' = [count EXCEPT !.commands = @ + 1] BY <1>2 DEF Begin
  <2>2. count'.commands = count.commands + 1 BY <1>1, <2>1 DEF Count
  <2>3. QED BY <1>1, <2>2
<1>3. ASSUME NEW a \in Apps, NEW g \in Groups, AddToBlacklist(a, g) \/ RemoveFromBlacklist(a, g)
      PROVE  FALSE
  BY <1>2, <1>3 DEF AddToBlacklist, RemoveFromBlacklist
<1>4. ASSUME NEW k \in Kinds, NEW a \in Apps, NEW g \in Groups, executePresetCommand(k, a, g)
      PROVE  FALSE
  BY <1>2, <1>4 DEF executePresetCommand
<1>5. ASSUME NEW k \in Kinds, NEW g \in Groups, executeGlobalBlockCommand(k, g) PROVE FALSE
  BY <1>2, <1>5 DEF executeGlobalBlockCommand
<1>6. ASSUME Clone \/ CloneFails \/ StoreBotApp \/ BeginSave \/ EndSave \/ SaveFails \/ Rebuild
      PROVE  FALSE
  <2>1. count'.commands = count.commands
    BY <1>1, <1>6 DEF Clone, CloneFails, StoreBotApp, BeginSave, EndSave, SaveFails, Rebuild, Fails, Count
  <2>2. cmd.pc = "idle" BY <2>1 DEF EditorInv
  <2>3. QED BY <1>6, <2>2 DEF Clone, CloneFails, StoreBotApp, BeginSave, EndSave, SaveFails, Rebuild
<1>7. ASSUME NEW w \in Watchers, Read(w) \/ ResolveConfig(w) \/ Refuse(w) \/ Accept(w) \/ ReloadHook(w)
      PROVE  /\ count'.commands = count.commands
             /\ UNCHANGED << file, inherit >> /\ (failed' => failed) /\ cmd'.pc = cmd.pc
  <2>1. \/ cmd' = cmd \/ \E x : cmd' = [cmd EXCEPT !.over = @ \/ x]
    BY <1>7 DEF Read, ResolveConfig, Refuse, Accept, ReloadHook, Overtakes
  <2>2. cmd'.pc = cmd.pc BY <2>1, OverFacts
  <2>3. count'.commands = count.commands
    BY <1>1, <1>7 DEF Read, ResolveConfig, Refuse, Accept, ReloadHook, Count
  <2>4. /\ file' = file /\ inherit' = inherit
        /\ failed' = failed \/ failed' = FALSE
    BY <1>7 DEF Read, ResolveConfig, Refuse, Accept, ReloadHook
  <2>5. QED BY <2>2, <2>3, <2>4
<1>8. ASSUME EditDefault \/ EditBotApp PROVE count'.commands = count.commands
  BY <1>1, <1>8 DEF EditDefault, EditBotApp, Save, Count
<1>9. CASE UNCHANGED vars BY <1>9 DEF vars
<1>10. QED BY <1>3, <1>4, <1>5, <1>6, <1>7, <1>8, <1>9 DEF Next

\* And an edit keeps the account of what inherits.
LEMMA EditorKeeps ==
    ASSUME TypeOK, EditorInv, [Next]_vars
    PROVE  EditorInv'
<1> SUFFICES ASSUME count'.commands = 0
             PROVE  /\ cmd'.pc = "idle" /\ ~ failed' /\ file' \in Config
                    /\ inherit' = {a \in Apps : file'.apps[a].mode = "default"}
  BY DEF EditorInv
<1>1. /\ cmd.pc = "idle" /\ ~ failed /\ file \in Config
      /\ inherit = {a \in Apps : file.apps[a].mode = "default"}
  BY EditorSteps DEF EditorInv
<1>2. CASE UNCHANGED << file, inherit >> /\ (failed' => failed) /\ cmd'.pc = cmd.pc BY <1>1, <1>2
<1>3. CASE EditDefault
  <2>1. PICK d \in Defaults : Save([file EXCEPT !.default = d]) /\ inherit' = inherit
    BY <1>3 DEF EditDefault
  <2>2. PICK new : new = [file EXCEPT !.default = d] OBVIOUS
  <2>3. d \in Default /\ new \in Config /\ new.apps = file.apps
    BY <1>1, <2>1, <2>2, FilterAssumption DEF Config
  <2>4. file' = new /\ cmd'.pc = cmd.pc /\ failed' = failed
    BY <2>1, <2>2, <2>3, SaveFacts
  <2>5. QED BY <1>1, <2>1, <2>3, <2>4
<1>4. CASE EditBotApp
  <2>1. PICK a \in Apps, b \in Starts :
            /\ Save([file EXCEPT !.apps[a] = b])
            /\ inherit' = IF b.mode = "default" THEN inherit \cup {a} ELSE inherit \ {a}
    BY <1>4 DEF EditBotApp
  <2>2. PICK new : new = [file EXCEPT !.apps[a] = b] OBVIOUS
  <2>3. b \in BotApp /\ file.apps \in [Apps -> BotApp] BY <1>1, FilterAssumption DEF Config
  <2>4. new \in Config /\ new.apps = [file.apps EXCEPT ![a] = b] BY <1>1, <2>2, <2>3 DEF Config
  <2>5. new.apps[a] = b /\ \A x \in Apps \ {a} : new.apps[x] = file.apps[x] BY <2>3, <2>4
  <2>6. file' = new /\ cmd'.pc = cmd.pc /\ failed' = failed BY <2>1, <2>2, <2>4, SaveFacts
  <2>7. \A x \in Apps : x \in inherit' <=> new.apps[x].mode = "default"
    BY <1>1, <2>1, <2>5
  <2>8. inherit' \subseteq Apps BY <1>1, <2>1
  <2>9. inherit' = {x \in Apps : new.apps[x].mode = "default"} BY <2>7, <2>8
  <2>10. QED BY <1>1, <2>4, <2>6, <2>9
<1>5. QED BY <1>2, <1>3, <1>4, EditorSteps

\* usage.md:211 holds until the first command: a bot app whose mode is default in the file
\* has the mode of server.default once the events are worked off, whatever the editor made
\* of either.  That a command ends it is what run filter_default shows.
THEOREM DefaultsUntilCommand == Spec => []InheritedUntilCommand
<1>1. Init => EditorInv
  <2> SUFFICES ASSUME Init PROVE EditorInv OBVIOUS
  <2>1. TypeOK BY InitHolds DEF IInv
  <2>2. /\ cmd.pc = "idle" /\ ~ failed /\ file # Empty
        /\ inherit = {a \in Apps : file.apps[a].mode = "default"}
    BY DEF Init, NoCommand, Valid
  <2>3. QED BY <2>1, <2>2 DEF EditorInv, TypeOK
<1>2. IInv /\ EditorInv /\ [Next]_vars => EditorInv' BY EditorKeeps DEF IInv
<1>3. IInv /\ EditorInv /\ SettledAgrees => InheritedUntilCommand
  <2> SUFFICES ASSUME IInv, EditorInv, SettledAgrees, count.commands = 0, Settled, Valid(file),
                      NEW a \in inherit
               PROVE  compiled[a].bot.mode = file.default.mode
    BY DEF InheritedUntilCommand
  <2>1. /\ ~ failed /\ file \in Config /\ a \in Apps /\ file.apps[a].mode = "default"
    BY DEF EditorInv
  <2>2. CONFIG = Resolved(file) /\ compiled[a].bot = CONFIG.apps[a] BY <2>1 DEF SettledAgrees
  <2>3. compiled[a].bot = Inherited(file.apps[a], file.default) BY <2>1, <2>2, ResolvedFacts
  <2>4. file.apps[a] \in BotApp BY <2>1 DEF Config
  <2>5. QED BY <2>1, <2>3, <2>4 DEF Inherited, BotApp
<1>4. QED BY <1>1, <1>2, <1>3, Invariant, FilterSettles, PTL DEF Spec
=================================================================================
