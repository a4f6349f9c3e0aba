# A verification development for Kogasatopia

Kogasatopia is the tree of a Team Fortress 2 community server: some forty
SourceMod plugins in SourcePawn, C++ extensions to SourceMod, and the tools
that run the servers.  This directory holds TLA+ models of its stateful core:

* the *economy of gems*, balances, bounties and mail, which all move gems
  through one database (`src/tf/addons/sourcemod/scripting/`, in SourcePawn);
* the *extensions*, which hook into the game's binary and keep state about
  players, weapons, files and plugins that come and go (`src/extensions/`);
* the *server tools*, which start, update, watch and stop the servers
  (`src/tools/`).

TLC checks the models on small instances, and TLAPS proves the properties that
matter most for every instance.  Plugin paths below are relative to
`src/tf/addons/sourcemod/scripting/`, extension paths to `src/extensions/`.

## 1. How this code runs, and what is hard about it

### Plugins and their database

SourceMod runs all plugin code of a server on one main thread.  A plugin hands
a query to a database worker and goes on; the worker executes what it was
handed in order, on a connection of its own, and the results come back to
callbacks on the main thread, one after another, in the same order.  A
transaction is a list of statements executed together or not at all.  Between
a query and its callback anything may happen: players spend, receive, steal,
leave, and others take over their slots; a map changes; a plugin is reloaded;
the database connection is replaced; and another game server on the same
database does as it likes.  There is no locking, and hardly any test reaches
such an interleaving: the tests in `src/tests` check the source text of plugins,
the probes in `src/tools/tests` run one component through one scripted order
(`bounty_list_probe.sp` goes as far as an answer of a closed connection), and none
explores the others.

So every part of the economy defends itself with a device of its own, and
these devices are what the models are about:

* *snapshots*: a balance SELECT carries the cached balance it may replace and
  gives way to a cache that has changed meanwhile (`points_store/client_state.sp`);
* *ownership by handle*: a load, a pending flag or a token belongs to one
  request, and an answer that is not the owner's is ignored;
* *conditional statements*: everything that settles a bounty repeats in its
  `WHERE` clause what the main thread believed when it asked
  (`points_store/bounties/`);
* *idempotent keys*: an award that must happen once inserts its key first, in
  the same transaction (`points_store/award_persistence.sp`);
* *fences by generation*: a list computed before a change is discarded when it
  arrives after it (`points_store/bounties/listing_and_cache.inc`);
* *coalescing*: pending and queued flags and timers that keep one query of a
  kind under way and must not lose a request.

### Extensions

An extension runs on the game thread, inside the game's own calls.  What is
hard about it is not parallelism (only the file system detours are entered by
other threads) but *nesting*, *reuse* and *handover*:

* a hook calls plugins, plugins call natives, natives call the game, and the
  game calls the hooks again before the first call has returned;
* player slots, entity slots, addresses, virtual tables and process numbers are
  used again by others, and what was kept for the former owner must go;
* hooks, detours, call wrappers and borrowed settings must stay as long as
  somebody uses them, and be given back exactly once, also when start-up fails
  half way or a plugin is unloaded;
* uploads, downloads and acknowledgements of clients come late, twice, for an
  earlier request, or never.

### Tools

`tf2_service.py` is run as several processes at once by systemd, the watchdog and
administrators, who share a lock, two screen sessions and one installation, and
each of which may be killed between any two steps.  The resource guard is three
threads and two databases, is killed and restarted, and must neither lose nor
forge what it reports.

### What the models take from SourceMod, the game and MySQL

This is not code of the repository; it is modelled from how the code uses it
and marked external in `PROJECT.json`.

* One worker per server executes queries first in, first out, and their
  callbacks run in that order.  The models have one `queue` and one `results`
  per server and take both from the front.
* Any query can fail.  In `Balance`, `Bounties` and `BountyTargets` a failed
  query changes nothing.  In `MailRedemption` and `ResourceGuard` it may also have
  been executed, as when the connection breaks after the commit.
* `GetClientSerial` and user ids are never reused for another client while
  somebody remembers them, and a `DataPack` handle is fresh while it is alive.
* When a plugin is unloaded its queued queries are still executed, and their
  callbacks never run.
* The game calls a hooked function, packs an entity, transmits a file or changes
  a condition whenever the model lets it (`WeaponWorld`, and the external
  definitions of each module); natives may be called whenever plugin code runs.

## 2. Inventory

| part | where | state | operations | modelled |
| --- | --- | --- | --- | --- |
| balances | `points_store/{client_state,awards,award_persistence,currency,lifecycle,transfers_and_welfare}.sp` | cached balance, loaded flag, outstanding load and follow-up per slot; table `points_store_balances` | load, award, spend, steal and send, credit by SteamID, reserve for a bounty, join, leave | `Balance` |
| bounties | `points_store/bounties/` | four pending flags; table of bounties; balances | place, place automatically, grow, claim, expire, refund after a disconnect, survive, mark and clear a disconnect | `Bounties`, `BountyEscrow` |
| the list of hunted players | `points_store/bounties/listing_and_cache.inc` | list, count, generation, pending and queued flags, timer | refresh, mark, answer, retry, reconnect | `BountyTargets` |
| idempotent awards | `points_store/award_persistence.sp`, `database.sp`, `native_api.sp` | table of award keys | award under a key, verify a duplicate, announce the result | in `MailRedemption` |
| redeeming gems from mail | `server_mail/{currency_redemption,commands,lifecycle,database,stimulus}.sp` | pending keys, the redeem-all flag, table of mails | validate, redeem one, redeem all, mark, purge, reload | `MailRedemption`, `MailPayments` |
| publishing sprays | `enhanced_sprays/native/{extension,spray_policy}.cpp` | request, upload, barrier and handoff per client; files of uploads; userinfo | request, isolate, validate, clear, publish, distribute, time out, cancel | `SprayPublication` over `SprayClients`, in `Sprays` |
| delivering assets, placing sprays | `enhanced_sprays/native/{extension.cpp,asset_delivery.h,spray_delivery.h}` | ledger of deliveries, borrowed file mode; placements, audiences, previews, models | send, deny, time out, answer; capture, show, preview, replay | `SprayAssets`, `SprayPlacements` |
| file system detours | `enhanced_sprays/native/filesystem_hooks.cpp` | five detours, active calls, policy | install, call through, remove | `SprayFiles` |
| weapons_ext: the list of modules | `weapons_ext/src/{extension.cpp,modules.h}` | attached, loaded, listeners | attach, load, unload, detach, dispatch | `WeaponsModules` |
| weapons_ext: pellets, spread, conch, whitelist, items | `weapons_ext/src/{pellets,spread,conch,whitelist,items}/` | held shots; patterns and the shared table; blocked speed; caches and epochs; overrides and hooks | see the modules | `PelletShots`, `SpreadShots`, `ConchBuffs`, `LoadoutCaches`, `ItemGeneration` over `WeaponWorld` |
| weapons_ext: tf2tools | `weapons_ext/src/tf2tools/` | hooks per table and entity, detours per demand, call wrappers, reported conditions | hook, report, call, load, unload | `CritHooks`, `ToolsDemand`, `ToolsNatives`, `ConditionReports` |
| weapons_ext: services | `weapons_ext/src/services/` | damage scopes; table of shared addresses; deferred calls | deal damage; find a client by address; put off | `DamageHooks`, `SharedClients`, `DeferredCalls` |
| weapons_ext: sentry | `weapons_ext/src/sentry/`, `weapons/sentry_settings.sp` | detour, range | order, write | `SentryRange` |
| restore_score | `restore_score/src/` | offset and owner per client | set, encode, pause, unload | `ScoreDisplay` |
| tf2_setup_uber, tf2_setuptime | same | multiplier | heal, phase changes | `SetupPhase` |
| tf2_service | `src/tools/tf2_service.py` | lock file, screens, processes, installation | start, update, stop, stop-mge | `ServerLifecycle` |
| resource guard | `src/tools/resource_guard/` | policy counters, SQLite journal, MySQL | sample, request a stop, stop, publish, acknowledge, recover, prune | `ResourceGuard` |
| delivery of mail | `server_mail/{delivery,stimulus,composition_and_search}.sp` | drafts, tables of mails and of stimulus recipients | compose, pay for, insert, look up, refund, stimulus checks | planned |
| attachments | `server_mail/attachments.sp` | attachment state 0, 1, 2 of a mail | claim, pay or give, finish, recover | planned |
| lotteries | `points_store/lotteries/` | pool, tickets, pending ticket writes, refunds in progress | buy, draw, pay, refund equally, carry over | planned |
| shop | `points_store/{shop,catalog}.sp` | owned items, pending purchase | buy, store, use up | planned |
| welfare and per-map limits | `points_store/{transfers_and_welfare,welfare_robot,awards}.sp` | welfare pool, per-map award counts | contribute, pay out, count | planned |
| dailies, gameplay rewards, events | `points_store/{dailies,gameplay_rewards,rewards,memoman_event}.inc` | counters per player and day | award through the operations above | no: callers of `Balance` |
| leaderboards, snapshots, logs | `points_store/{leaderboard,leaderboard_history,currency_snapshot,event_logging}.sp` | none of its own | read-only reports | no |
| clans | `clans/` | memberships, invitations, wars | invite, join, leave, kick, declare and settle wars | candidate |
| team balance | `whalebalance/`, `whalescramble.sp` | ratings, votes, scramble in progress | score, swap, vote, scramble | candidate |
| rounds and population | `afkmanager/`, `dgm/`, `classlimits/` | timers, slots, classes | driven by game events | no: outcomes live in the engine |
| chat and sound | `filters/`, `saysounds/`, `tags.sp`, `adverts.sp` | filter lists, cooldowns | rewrite or play | no: single steps |
| gameplay | `weapons/`, `rtd/`, `hugs/`, `new_engi_buildings/` | effects on entities | driven by the engine | no |
| administration | `whalebans.sp`, `adminsdb.sp`, `votemenu.sp`, `mapsdb.sp`, ... | tables of bans, admins, maps | single queries | no |
| older extensions | `scattergun_pellets`, `tf2_spread_patterns`, `conch_no_speed`, `whitelist_policy`, `tf2_sentry_newtarget_dist`, `src/unused`, `src/archive` | - | what `weapons_ext` and `enhanced_sprays` replaced | no: their successors are |
| sourcetvmanager, tf2tools_shared_crits | same | - | third party with patches | no |
| statistics, demos, backfills | `src/tools/` | - | batch scripts that run alone | no |

### How the parts interact

* Everything that moves gems goes through `points_store`: other plugins call its
  natives (`points_store/native_api.sp`), and it calls back through forwards
  such as `PointsStore_OnApplyBonusPointsSteamIdOnce`.
* The balance table is shared.  `ApplyBonusPointsNow` and
  `StealBonusPointsWithContext` change the cache first and queue an upsert whose
  result nobody reads; awards by SteamID and idempotent awards change the table
  first and the cache in the callback; a bounty placement takes its stake in a
  transaction and keeps the sender's other debits out with
  `g_BountyPlacementPending`; `StealBonusPointsWithContext` does not look at it.
* Bounties read playtimes from WhaleTracker and announce results; the list of
  hunted players is their cache for the main thread.
* `server_mail` decides that a mail may be redeemed, `points_store` pays under
  the mail's key and tells every plugin, and `server_mail` marks the mail.
  Either plugin can be reloaded alone.  Several game servers share one database:
  `mail_redemption` models two.
* The plugin part of `enhanced_sprays` asks the extension for a client's spray or
  for an asset and hears of the outcome in a forward at the end of a game frame;
  the extension sees the engine's packets, files and temp entities through hooks.
* The modules of `weapons_ext` share the list of client listeners, the table of
  shared addresses and the game's entities, nothing else; `weapons.sp` drives them
  through natives and answers their forwards.
* The resource guard asks `tf2_service.py stop-mge` to free the machine; both are
  units of systemd, which restarts them.

### What makes each part correct

* *Balances*: the cache and the ledger come together whenever nothing is under
  way; the cache never promises gems the ledger will not hold; an answer
  reaches only the client and the visit it was asked for; nobody waits for an
  answer that is not coming.
* *Bounties*: gems are conserved: a bounty's stake leaves its sender once and
  the bounty is settled once, in favour of the right account; cap and cooldown
  hold although they are checked early; bounties on one target are survived
  together; a disconnect is refunded only to somebody's absence; every bounty
  is settled in the end.
* *List of hunted players*: an announced target is listed at once and stays; a
  wanted refresh is never lost; the list converges to the table.
* *Mail*: gems attached to a mail are paid at most once on any number of
  servers, to the receiver; a mail is closed only if it was paid; "already being
  redeemed" is true when it is said and stops being said.
* *Sprays*: an upload is used for the request it answers; what is published was
  validated and announced; the new image comes after every peer let go of the
  old one; a placed spray is shown to its audience only, and on the entity it
  was placed on; requests, handoffs and deliveries end.
* *weapons_ext and the other extensions*: what is hooked stays hooked, once, as
  long as somebody needs it; state kept by slot is the present owner's; caches
  and reports are current; nested calls do not disturb each other; a call takes
  effect for those it is meant for.
* *Tools*: files are replaced only while no server runs; a stop of one server
  ends no process of the other, as far as process numbers can tell; what the
  journal calls published is in MySQL; nothing unpublished is deleted; everything
  is published in the end.

The hazards behind these sentences are listed, each at its line, in
`PROJECT.json`.

## 3. The modules

Names of variables and actions are those of the source where TLA+ allows it;
the comment at each variable names what it stands for.  `PROJECT.json` maps every
definition to its lines.  An operator `X_Something` beside `X` is a plausible
mistake in the code that `X` models; each property is checked to notice one.

### `Balance`: the cached balance and the ledger

State: per slot, `account` (who is authorized), `session` (its client serial),
`inGame`, `points`, `loaded`, `load` (the pack of the SELECT under way), `reload`,
`escrowing`; per account, its row of `points_store_balances`, or `NoRow`; `queue`
and `results`.  Two history variables do not influence a step: `mutated` (the
cache changed since the slot's SELECT was queued) and `drift`.

| action | code |
| --- | --- |
| `LoadClientBonusPoints`, `QueueSelect` | `client_state.sp:67-94` |
| `OnClientBonusPointsLoaded` | `client_state.sp:172-217`: not the owner; failed or another account; overtaken, ask again; publish, and serve a follow-up |
| `AskForBalance` | any command of a client that is not loaded, such as `transfers_and_welfare.sp:90-140` |
| `OnClientAuthorized`, `OnClientPutInServer`, `OnClientDisconnect` | `lifecycle.sp:167-208` |
| `ApplyBonusPointsNow(s, n)` | `awards.sp:268-370`, n > 0 an award and n < 0 a purchase |
| `StealBonusPoints` | `awards.sp:483-541` |
| `QueueCredit`, `OnCreditSaved` | `award_persistence.sp:34-118` |
| `QueueBountyPlacement`, `OnBountyPlaced` | `bounties/placement_persistence.inc:1-264` as far as the balance is concerned |
| `Execute` | the worker: one request, accepted or refused |

A cache and its row can part, and the code accepts some of the ways.  `drift`
names them: `aba` (two changes cancelled out under the snapshot comparison), `gap`
(a credit's callback ran while its client was loading in), `lost` (the database
refused a change the cache already shows), `clamped` (a debit was cut at zero on
one side), `debt` (the row is negative, shown as zero).  `CacheMatchesLedger` says
these five are all: a cache none of them has struck since it was published
equals its row whenever nothing is under way for the account.  That is not the
shape of the model but the sum of every local update, callback and reload, and
dropping the snapshot comparison breaks it.  Two more properties say what the
causes cannot do: `gap` alone leaves the cache short, never over
(`CacheNeverOverstates`), and a client whose cache is trusted never has debits
under way that the ledger must cut (`NoOverdraft`), unless it is stolen from in
the midst of a placement (`balance_steal`).

Left out: random chance, multipliers and per-map limits (they only decide
whether a movement happens or how large it is), sounds and messages, statistics.
The database is ready from the start.  In the placement, whether target cap and
cooldown admit it is left open here and modelled in `Bounties`.

### `BountyEscrow`: what a bounty promises

Two variables, every bounty ever placed and every account, and three steps:
`Place` moves the stake out of the sender's account, `Grow` adds gems of the
game's, `Settle` closes a set of open bounties in one of four ways and pays all
of them in the same step: stake and growth to a claimant or to the target who
survived, the stake alone back to the sender when it expires or is refunded.

### `Bounties`: the table and everything that settles it

State: `clock`; per player, `seat` (away, authorized, playing) and `played`, the
ranked playtime; the four pending flags of the passes; `rows` with the columns of
the table; `gems`; `queue` and `results`.  A request carries what the main thread
put into its query: the time, the target's playtime, the ids an earlier SELECT
returned, a resolution token.  Execution looks at nothing else but the tables.
`leftAt` and the field `left` of a refund are history.

| action | code under `points_store/bounties/` |
| --- | --- |
| `QueueBountyPlacement`, `ExecutePlace` | `placement_persistence.inc:1-145`; the transaction checks balance, cap and cooldown, inserts with the stack's merged progress and aligns the stack |
| `Event_BountyRoundStart`, `OnAutomaticBountyCandidateSelected`, `OnAutomaticBountyPlaced`, `ExecuteAuto` | `automatic_placement.inc` |
| `Event_BountyPlayerDeath`, `ExecuteGrow`, `ExecuteClaim` | `growth_and_disconnects.inc:1-125`, `claims.inc` |
| `Timer_BountyMaintenance`, `Bounties_OnMapStart`, `OnBountiesExpired`, `ExecuteExpire` | `placement_menus.inc:3-12`, `lifecycle_and_config.inc:195-209`, `expiry.inc` |
| `OnBountyProgressTargetsLoaded`, `OnBountiesSurvived`, `ExecuteProgress` | `progress.inc` |
| `OnClientDisconnect`, `OnClientAuthorized`, `ExecuteMark`, `ExecuteClear` | `growth_and_disconnects.inc:154-202` |
| `OnDisconnectedBountiesLoaded`, `OnDisconnectedBountiesRefunded`, `ExecuteRefund` | `growth_and_disconnects.inc:215-410` |

What the main thread knows from caches (cooldown, pending placement, cached
balance, cached list, population, ratio of deaths) is left open: any placement or
growth may be asked for, and the transaction must refuse what is wrong.  That is
more behaviour than the code has, so what is shown holds for the code.  The
statements are those for MySQL.  Left out: menus and searches, announcements,
and assists without a killer (covered by a death with some attacker).
`MaxWorth` is `GetBountyMaxAmount`.

### `BountyTargets`: the list the game consults

State: `ready`, `connection`, the list with its `count` and `generation`, the flags
`refreshPending` and `refreshQueued`, the `timer`, `recent` (the last request is less
than five seconds old); `active`, the targets the table would return; `queue` and
`results`.  Actions: `QueueChange` (a placement or a settlement is asked for),
`OnBountyPlaced` and `OnBountySettled` (mark, or ask for a refresh),
`RefreshActiveBountyTargets` and its timer, `OnActiveBountyTargetsLoaded`,
`Lapse` (rows expire by themselves), `Elapse` (five seconds pass),
`ConnectDatabase` and `FinishBountySchemaColumnCheck` (a connection is replaced).
The history variable `confirmed` holds the targets announced since their bounty
was placed.

While a single worker runs requests in order, an answer older than a placement
cannot come after that placement's own callback: the generation is a second
line of defence.  What the list owes its targets is the mark itself, as
`Marked_ByRefresh`, which leaves marking to the next refresh, shows.

### `MailPayments` and `MailRedemption`: paying for mail once

`MailPayments` is the promise: a mail is open, redeemed or lapsed, its gems are
paid at most once to its receiver, and it is redeemed only if it was paid.

`MailRedemption` models several servers on one database, each with its two
plugins.  State: where each player is and its user id (`at`, `visit`); per
server, `store` (points_store is unloaded, starting or ready), `mailReady`,
`pending` (the keys of `g_MailPendingRedemptions`), `queue` and `results`;
`checking` (`g_MailRedeemAllPending`); the tables `mail`, `paid` (the award keys),
`balance`; `due` (mails past their expiry).

| action | code |
| --- | --- |
| `BeginMailRedemption`, `OnMailRedemptionValidated` | `server_mail/currency_redemption.sp:1-126` |
| `Command_RedeemAll`, `OnRedeemAllLoaded` | `server_mail/commands.sp:104-234` |
| `Award`, `OnIdempotentAward`, `OnIdempotentAwardVerified` | `points_store/award_persistence.sp:157-323` |
| `OnApplyBonusPointsSteamIdOnce`, `OnMailMarkedRedeemed` | `server_mail/currency_redemption.sp:137-213` |
| `Stimulus_OnMapStart`, `CleanupExpiredMail` | `server_mail/stimulus.sp:53-62, 229-242` |
| `ReloadServerMail`, `FinishMailSchemaReady`, `UnloadPointsStore`, `LoadPointsStore`, `OnIdempotentAwardsSchemaReady`, `ForgetRedemptions` | `server_mail/lifecycle.sp`, `server_mail/database.sp`, `points_store/lifecycle.sp`, `points_store/database.sp` |
| `Restart` | the server process ends: queues, results and memory are gone, tables stay |

A result belongs to the plugin that asked (`caller`); when it is unloaded the
request becomes nobody's and is still executed.

### enhanced_sprays

| module | state | actions, at | what it is about |
| --- | --- | --- | --- |
| `SprayClients` | `serial`, `running`, `owner`, `turn` | connections, level changes, plugin unloads, the frame's visit to a slot: `native/extension.cpp` | the events both halves share; a frame visits slots in order |
| `SprayPublication` | `client` (one record per slot: stage, request token, peers' acknowledgements), `files`, `packet`, `queries`, `pulls`, `info` | `Request`, `Cancel`, `Watch`, `PacketBegin/End`, `FileReceived`, `FileDenied`, `FileRequested`, `FileSent`, `Info`, `BarrierAck`, `Frame` | from the request for a spray to the last peer that has it |
| `Sprays` | both | composition of the two | the instance of runs `sprays` and `fair_parts` |
| `SprayFiles` | five `detours`, callers' program counters, `active`, `policy` | install, jump, count, ask, call on, leave, remove: `filesystem_hooks.cpp` | threads inside code that is being taken away |
| `SprayAssets` | `jobs`, `events`, `queue`, `mode` and who borrowed it | request, send, deny, time out, answer: `asset_delivery.h` | one answer per delivery, the channel's mode given back |
| `SprayPlacements` | `placement`, `stack` of temp entities, `entity`, `preview`, `surface`, `copies`, `models` | capture, veto, cut to a surface, send and show to viewers, replay: `extension.cpp`, `spray_delivery.h`, `switching.sp` | audiences that change while something is sent to them, calls in calls, entities that are replaced; it also composes itself with `SprayAssets` over `SprayClients`, for runs `sprays` and `fair_parts` |

An image is a name with a canonical copy, a path is a model value, and every
deadline "may be found over" by a frame.  Left out: the texture decoder (what it
answers is a set, `ValidImages`), the geometry of surfaces, resized decals
(`PrepareResize`, `TextureInfo`), and changes of a client's image while its placement
is looked at.  Of `Publish`, the failure of `ApplyInfo` is none of its own: it fails
for want of the player info that was read a moment before in the same call.

### weapons_ext and the small extensions

`WeaponWorld` is the game's player and entity slots, whose serial numbers tell
successive owners apart; the modules that play in it extend it.

| module | code | what it is about |
| --- | --- | --- |
| `WeaponsModules` | `src/extension.cpp`, `modules.h` | attaching, loading, failing half way and unloading; listeners that remove themselves while the list is walked |
| `PelletShots` | `pellets/extension.cpp`, `pending_pairs.h` | hits seen by several hooks; pairs reported in a later frame by a forward that causes more hits, deaths and departures |
| `SpreadShots` | `spread/extension.cpp` | the game's one table of offsets, swapped while a shot is fired, and shots that fire shots |
| `ConchBuffs` | `conch/extension.cpp` | blocking the speed of one call, and of no call nested in it; assumes that the game always gives the buff it is asked for, on which the conjunct of `CallsAreKeptApart` rests that only a buff that is there is without speed |
| `LoadoutCaches` | `whitelist/{extension.cpp,loadout_cache.h,policy.h}` | answers that arrive after the selection, the policy or the player changed |
| `ItemGeneration` | `items/extension.{cpp,hpp}` | hooks per kind of player, overrides and their handles |
| `ConditionReports` | `tf2tools/conditions.cpp` | reports in the frame after a player was packed |
| `CritHooks` | `tf2tools/criticals.cpp`, `shared_vtable_lifetime.h` | a hook per table that outlives its weapons, or per weapon |
| `ToolsDemand` | `tf2tools/{extension,holiday,gameplayrules,teleporter}.cpp` | detours that exist as long as a plugin wants them |
| `ToolsNatives` | `tf2tools/{extension,natives,RegNatives,util}.cpp` | wrappers held in static pointers, and the load that fails after taking something |
| `DamageHooks` | `services/{damage.cpp,damage_info.h}` | scopes around nested damage; plugins are told of every record the rules passed but the scratch of a building |
| `SharedClients` | `shared_client_cache.h`, `services/utilities.cpp` | open addressing with tombstones, addresses used again |
| `DeferredCalls` | `services/utilities.cpp`, `services/engine.h` | times that are written in a later frame |
| `SentryRange` | `sentry/{range_override,natives}.cpp`, `weapons/sentry_settings.sp`, `weapons.sp` | a range that is ordered and revoked by a plugin that may be away |
| `ScoreDisplay` | `../restore_score/src/extension.cpp` | a proxy whose output is only fetched again when the row is marked |
| `SetupPhase` | `../tf2_setup_uber`, `../tf2_setuptime` | rescaling a gain that the cap has already cut |

### Server tools

| module | code | what it is about |
| --- | --- | --- |
| `ServerLifecycle` | `src/tools/tf2_service.py` | commands as processes that look at sessions, at processes, at engines, quit, wait, check and signal, each a step; engines that are started again in between; pids used again between any two of these steps; a command killed while it holds the lock or SteamCMD runs |
| `ResourceGuard` | `src/tools/resource_guard/{policy,storage,main}.py` | a journal with revisions, acknowledgements for older ones, lost commit answers, and a cooldown that survives restarts |

### How they compose

`Bounties` implements `BountyEscrow` and `MailRedemption` implements `MailPayments` by
`INSTANCE ... WITH` a refinement mapping; the abstract specifications are
properties of the runs.  `Balance` takes from a placement only what it does to
the sender's balance, and `BountyTargets` takes from placements and settlements
only that they change the table; `Bounties` has their statements.  `Sprays` and
`SprayPlacements` conjoin the steps of `SprayClients` with those of the halves that
react to them, and each module of `weapons_ext` conjoins its steps with those of
`WeaponWorld`.

The MC modules put several small instances behind one run.  In `MCParts`,
`MCFairParts` and `MCSprays` the variable `part` is chosen in the initial state
and never changes: the part it names takes steps, and the others stay as they
began, which loses nothing because these parts share no state.  A property of
such a run is the conjunction, over the parts, of what that part must keep.
In `MCBounties` and `MCMailRedemption` the variable `fair` chooses in the same way
between the instance for safety and a smaller one for liveness, so that
fairness and failures are only looked at where they matter.

## 4. What the runs check

| run | instance | what it shows |
| --- | --- | --- |
| `balance_cache` | one slot, two accounts; awards, purchases, credits and placements of one gem, three of them; one refused query; 0.96 million states | the player leaves and returns, or another takes the slot, around every query: `CacheMatchesLedger`, `CacheNeverOverstates`, `LoadIsOwned`, `PublishesOwnRow` and, with fairness, `LoadsAreAnswered` |
| `balance_transfers` | two slots, awards of 1, purchases of 1 and 2, transfers of 2, no refusals; 2.2 million states | `NoOverdraft` with two players moving gems between them |
| `balance_fence` | finding | two changes that cancel out defeat the snapshot comparison |
| `balance_steal` | finding | stealing during a placement spends gems twice |
| `bounties_settle` | a sender and a hunted player who fight each other, the hunted one leaving and returning, two bounties (one may be the game's own) that grow, three seconds, four moves; and, chosen in the initial state, one bounty with one refused query and fairness; 2.1 million states | `ImplementsEscrow`, `SettlementIsFinal`, `RowsTellOfTheirTarget`, `RefundedWereAway` and, where fair, `BountiesEnd` |
| `bounties_place` | two senders, two targets and the game itself, one fighter who claims the bounties of others, one target at a time allowed, three bounties; 1.0 million states | `PlacementsAreLimited` and, in `TypeOK`, that no balance falls below zero |
| `bounty_targets` | two players, three changes, one refused refresh, one reconnection; 0.37 million states | `RefreshIsServed`, `PendingIsOwned`, `AnnouncedIsListed`, `ListConverges` |
| `mail_redemption` | one player who hops between two servers, two mails of different worth, one of them expiring, one failed query (executed or not), one reload or restart; a smaller instance with fairness; 0.82 million states | `RedeemedWerePaid`, `PendingHasWork`, `ImplementsPayments`, `RedemptionsEnd` |
| `sprays` | two slots, three connections, one sprayer, one valid image and one that is not a texture; or one sprayer and a viewer, temp entities nested two deep and, chosen in the initial state, two placements on a wall with two models, or three on a door whose entity is replaced, where no model fits; 0.68 million states | `UploadsAreOurs`, `PublishedIsSound`, `HandoffsAreOrderly`, `SpraysReachTheirAudience` |
| `parts` | eighteen small parts of the extensions and the tools, one after another; 0.92 million states | hooks outlive their users (`NothingIsTakenFromUsers`), slots are their present owner's (`StateIsTheOwners`), caches and reports are current (`ReportsAreCurrent`), nested calls do not mix (`CallsAreKeptApart`), calls take effect for those they are meant for (`EffectsAreMeant`) |
| `fair_parts` | the resource guard with one metric, one crash and one failure; one delivery; one publication; 34 thousand states | `JournalIsTrue`, `PrunedWerePublished`, `DeliveriesAreSettled` and, with fairness, `WorkEnds` |
| `guard_recovery` | finding | a stop request published before a crash stays open for ever |

### Bounds, and why they are enough

Every bound is a constant and stands in a guard: `MaxMoves` (what players do),
`MaxFailures`, `MaxRestarts` and `MaxReconnects`, `MaxInFlight` (requests under way
when something new starts), `MaxClock`, `MaxPlayed`, `MaxRows`, and the pools
`MaxPacks`, `MaxSessions` and `MaxTokens` from which fresh handles are taken; the
least unused number stands for a fresh one, which keeps the state space finite
without letting two live handles coincide.  The extensions bound connections
(`MaxJoins`, `MaxSerials`, `MaxConnects`), entities (`MaxWeapons`), the depth of
nested calls (`MaxDepth`, `MaxShotDepth`, `MaxCallDepth`) and what one frame may
contain.

* A stale answer needs one request under way, one movement of the cache and
  one departure or a second request: three moves and two requests in flight
  hold every such triangle, and the two findings about balances need two moves each.
* Balances of two gems and movements of one and two are enough to spend the
  same gem twice and to meet the clamp at zero.
* A bounty is settled by one of five activities; two in flight at once and two
  bounties give every pair of them the same row, and each pass two rows.
* Three seconds separate placement, departure, grace and expiry, which are one
  second apart in the instances; the code only compares them.
* For mail, one failure and one reload or restart between any two steps is what
  the idempotent key is for.  Two servers are enough for two validations of one
  mail to pass each other.
* A slot that is used again needs two owners, and a third to see that the second
  is forgotten as well; one call nested in another is the shortest that can
  disturb it, and two hooks of one kind the fewest that can be confused.
* Of two clients of `enhanced_sprays` one sprays and the other is the peer that
  holds the handoff up, leaves, or joins in its midst.
* The guard needs two breaches to open an incident and one more to show that its
  cooldown counts; one restart tells a remembered stop from one that was made.

The theorems of section 5 hold for every value of these bounds.

Symmetry is used where nothing tells the elements apart, slots and accounts in
`balance_transfers`, and in no run with a liveness property.  Deadlock is checked
for `Balance` and `BountyTargets`; the bounds on moves, clock, connections and
restarts do stop the others.

`balance_transfers` has no refused queries because a refused upsert is reported to
nobody: the cache is then knowingly ahead of the ledger (`lost`).  The safety
instance of `bounties_settle` has none because a refused clear leaves a player who
is back marked as gone, and is only logged.

### Fairness

`Execute` is weakly fair because the worker thread keeps taking queries, and
`Deliver` because SourceMod runs finished callbacks in every frame (in
`MailRedemption` both are stated per server, as each runs on its own).
`Timer_BountyMaintenance` is a repeating timer, the refresh timer of the list is
created with a delay, and `Tick` and `Elapse` are the passage of time.
`FinishBountySchemaColumnCheck` is the end of the queries that follow a
reconnection.  Of the resource guard systemd (`Supervisor`), the thread that stops
(`Executor`) and the one that publishes (`Publisher`) are weakly fair.  The frame of
`enhanced_sprays` visits one slot after another, so that its visit to a given slot
is enabled again and again and not continuously: strong fairness of that visit is
what a running game loop gives.  Nothing is assumed of players, of rounds, of
maps, of reloads, of clients answering, or of queries succeeding: the liveness
instances let them fail as often as their bound allows.

### Process numbers that are used again

A stop selects processes by number and start time, and a number it selected is only
signalled if the start time still is the same.  Two windows remain, which the model
has because every look is a step: `screen -ls` tells numbers without start times, so
that a number that changed hands before `/proc` is walked is selected with its new
owner's start time, and the signal goes to a number after the check on it is over.
`StopMgeSparesTf2` (in `EffectsAreMeant`) says that there is no third: what a stop of
MGE ends of the main server started after the sessions were listed and was selected,
or started after the last check.  `screened` and `checked` in `run` are history for
this statement.  Three process starts and three numbers hold both windows.  In them
the code does signal an engine of the main server that was given the number, so that
"A re-used PID must never receive a signal" (`tf2_service.py:164`) and "never touch
main TF2" (`tf2_service.py:305`) hold but for them; they are short, and Linux uses a
number again only after going through the others.

### Findings

* `balance_fence`.  `client_state.sp:207` says "Do not replace a balance mutated by
  another callback while SELECT ran".  The test (`client_state.sp:204`) is for a
  different balance, not for a mutation: a credit whose callback raised the cache
  and a purchase that lowered it again leave the snapshot equal, and the older
  answer is published.
* `balance_steal`.  `include/points_store_api.inc:103` says of the native that it
  "Transfers currency from one loaded client balance to another".
  `StealBonusPointsWithContext` (`awards.sp:483`) lacks the test of
  `g_BountyPlacementPending` that `awards.sp:283` makes for every other debit.  The
  victim's gems go to the thief and into the bounty, and `GREATEST(0, ...)` hides
  what is missing.
* `guard_recovery`.  `recover()` (`storage.py:75`) looks at incidents whose last
  revision is not published.  A stop request published while its stop was under
  way is not among them, and after a crash stays `mge_stop_pending` for ever,
  against the comment at `storage.py:78` and the test at
  `src/tools/tests/test_resource_guard.py:141-144`, which never acknowledges a request
  before it recovers.

## 5. What is proved

TLAPS checks these for every value of the constants.

| theorem | statement | argument |
| --- | --- | --- |
| `BalanceProofs!TypeCorrect` | `[]TypeOK` | inductive together with `Seated`: a client in game is authorized, which is what makes the account in a new request an account |
| `BalanceProofs!LoadOwnership` | `[]LoadIsOwned` | inductive by itself given types: a request leaves the wire only through its callback, which releases the load or replaces its owner, and a fresh pack cannot be one still on the wire |
| `BalanceProofs!OwnRowPublished` | `PublishesOwnRow` | from `LoadOwnership`: only a callback that owns the load publishes, and the owner's session and account are the slot's |
| `LedgerProofs!CacheAddsUp` | `[]CacheMatchesLedger` | see below |
| `LedgerProofs!CacheIsCovered` | `[]CacheNeverOverstates` | the same invariant with an inequality: what a credit adds while its client loads is missing from the cache, and nothing is ever there twice |
| `LedgerProofs!OnlyRobbedPlacersOverdraw` | `Spec /\ [][PlacersAreLeftAlone]_vars => []NoOverdraft` | see below |
| `LedgerProofs!TransfersArePaid` | `Spec => []NoOverdraft` if `EscrowAmounts = {}` | where nothing is placed nobody has a placement under way, so that every steal leaves placers alone |
| `EscrowProofs!SettledForGood` | `SettlementIsFinal` | every statement rewrites active rows only, or appends; invariant: `rows` is a sequence |
| `EscrowProofs!BountyTypes` | `[]TypeOK` of `Bounties` | needs what the queue carries: accounts that exist, ids of rows that exist, fresh tokens |
| `EscrowProofs!EscrowIsKept` | `Spec => Escrow!Spec` | see below |
| `BountyTableProofs!PlacementsStayLimited` | `[]PlacementsAreLimited` | see below |
| `BountyTableProofs!RowsTellTheTruth` | `[]RowsTellOfTheirTarget` | see below |
| `BountyTableProofs!RefundsAreDue` | `RefundedWereAway` | see below |
| `BountyTargetsProofs!TypeCorrect` | `[]TypeOK` | inductive |
| `BountyTargetsProofs!WaitersAreServed` | `[]RefreshIsServed` | strengthened by: nobody waits while there is no connection |
| `BountyTargetsProofs!AnnouncedStaysListed` | `[]AnnouncedIsListed` | strengthened by what is known of answers under way: none is of a later generation than the list, and one of the list's own generation holds every announced target |
| `BountyTargetsProofs!PendingStandsForOne` | `[]PendingIsOwned` | strengthened by: no two refreshes of the current connection are under way, in the queue or among the results |
| `MailRedemptionProofs!TypeCorrect` | `[]TypeOK` | inductive, with the clause that nothing is pending while points_store is not ready |
| `MailRedemptionProofs!PendingIsWorkedOn` | `[]PendingHasWork` | inductive given types: each callback either releases the mail or queues the next query about it, and reloads that cancel a callback also clear the keys |
| `MailRedemptionProofs!RedeemedWasPaid` | `[]RedeemedWerePaid` | strengthened (`Honest`) by: whoever asks to mark a mail, and every answer that will make somebody ask, is about a paid mail |
| `MailRedemptionProofs!PaymentsAreImplemented` | `Spec => Payments!Spec` | the initial states correspond, and under `Honest` each statement is a step of `MailPayments` or changes none of its variables |
| `ResourceGuardProofs!GuardTypes` | `[]GuardTypeOK` | inductive |
| `ResourceGuardProofs!JournalTruth` | `[]JournalIsTrue` | strengthened by what the publisher carries: a row it read is never newer than the journal, what it committed is the first row of its batch, and every policy begins with the last stop saved |
| `SpraysProofs!SpraysTyped` | `[]TypeOK` of `Sprays` | inductive given that a request under way has a number and that a frame's next slot is a slot |
| `SpraysProofs!EveryUploadIsOurs` | `[]UploadsAreOurs` | see below |
| `SpraysProofs!EveryPublicationIsSound` | `[]PublishedIsSound` | see below |
| `SpraysProofs!HandoffsKeepOrder` | `HandoffsAreOrderly` | see below |
| `ResourceGuardProofs!PrunedIncidents` | `PrunedWerePublished` | from the same invariant: what pruning selects is published at its last revision |

### The ledger (`LedgerProofs`)

`CacheMatchesLedger` speaks of moments when nothing is under way and is not
inductive.  The invariant `LedgerInv` says what is true in between.

* `CacheAdds`: for a loaded client that none of the causes of `drift` has struck,
  cache plus what the results to come will still add equals row plus what the
  queued requests will still write; with `gap` alone it is at most that.
* `AnswersAdd`: the answer to a SELECT whose client was not changed since it was
  queued, plus what the results behind it will add, is the row, so that
  publishing it loses nothing and counts nothing twice.
* `NothingLate`, `NoStrays` and `Booked`: no movement of the account is queued
  behind such a SELECT, no placement of an earlier visit is under way once a
  client's balance is trusted, and its own placements are for its account.
* `Alone`, `PacksDiffer`, `RowsExist`: an account sits in one slot, a pack names one
  request, and a credit or placement that went through left a row.

Each step then moves both sides by the same term or by none.  The sums are over
sequences that lose their head and grow at the end; they are described by their
sequence of partial sums, which the invariant claims to exist, so that no
induction on the length is needed.

`NoOverdraft` is false as it stands: a steal does not look at
`g_BountyPlacementPending` (`balance_steal`).  `OnlyRobbedPlacersOverdraw` says that
nothing else is wrong.  Its hypothesis, `PlacersAreLeftAlone`, restricts that one
action and nothing the database, the callbacks or the other clients do; steals
and placements stay possible, in any order, as long as the victim of the one is
not in the midst of the other.  The invariant adds `Solvent` to `LedgerInv`, for
every client:

* `Promised`, `OnePlacement`: while a placement of the client is under way,
  `g_BountyPlacementPending` is up, and there is one placement at a time;
* `NoDebitBehind`: only gains are queued behind it, since every debit that looks
  at the flag is held back;
* `Affords`: the row and the queued upserts, added up one by one, never fall below
  zero.

A new debit keeps `Affords` because the cache could pay for it (`DebitIsPaid`): by
`CacheAdds` the row with the queue is at least the cache with what the results
will still add, and without a placement under way those are credits, which are
never negative.  A placement may take any part of the row when the worker reaches
it, and needs no more than that the row is not negative then and only gains
follow.  `LedgerAfter` is a recursive function over the positions of the queue;
that it exists, and what it says at each position, is shown by induction on a set
of numbers (`SuccessorsAreAll`), as in `EscrowProofs`.

### The escrow (`EscrowProofs`)

A bounty is settled by a query prepared earlier from other data, and paid by an
`INSERT ... SELECT SUM` that finds the settled rows by a token.  The refinement
holds because the sums are those of the rows the same transaction closed.  The
invariant `EscrowInv` is: types; `Sound`, every queued request names accounts and
rows that exist; `AnswersAreSound`, so do the results that will be turned into
requests; and `TokensAreOurs`, the token a queued settlement will stamp is on no
row and in no other request.  From these,

1. the rows that bear the token after the `UPDATE` are those it selected
   (`SettlementFollows`);
2. the sum over them, grouped by payee, is what `BountyEscrow` pays
   (`PayoutTotals`); each operation's own choice of payee and worth is a case;
3. a placement and a growth map to `Place` and `Grow`, and everything else,
   refused queries included, to a stutter.

A sum over a finite set is a fold by `CHOOSE` in the community modules, and its
equations must be derived before they can be used: that partial sums exist for
every finite set of rows and are unique.  The library's induction theorems take a
predicate as a parameter and cannot be instantiated here, so the module derives
induction for sets of numbers (`LeastNumber`, `SuccessorsAreAll`) and uses it on
the set of sizes for which the claim holds.

### The table of bounties (`BountyTableProofs`)

A request is executed later than it was prepared, and what it is checked against
is the time it carries.  The invariant `TableInv` adds to `EscrowInv` what makes
that harmless.

* `Ordered`: the times in the queue are not in the future and do not decrease.
  Hence `Capped`: the cap holds now and at the time of every placement still
  queued, because fewer rows are active at a later time than at an earlier one.
  Without the order of the queue the cap could be exceeded: an earlier placement on
  a target whose week has ended since would count as a further stake on a hunted
  player, and not against the cap, after a later one took its place.
* `StackSharesProgress` is inductive given `Ordered`: a row active now was active at
  the time of the request, so the statement measured or aligned it together with
  the other rows on its target.
* `AbsencesKnown`: as long as no query failed, for each player there is a time (0
  for present) that the table shows (`Shows`), and from which the marks and clears
  in the queue lead, one after the other, to what is so on the main thread
  (`Tells`).  Along the way every queued placement finds its target present and
  every queued refund carries the absence the table will show when it is executed.
  An empty queue leaves the table and the main thread in agreement; a refund at
  its head leaves it in agreement with the refund.

The statements are summed up once: what each does to the rows that are there,
their pace, their disconnect time and who is refunded (`StatementEffect`); and so
are the actions of the main thread (`Reported`).  The invariant is preserved by
two lemmas, one per side (`TableAsks`, `TableExecutes`).

### The publication of sprays (`SpraysProofs`)

The properties speak of moments far apart: an upload that arrives after its
request timed out, an answer to a query of a connection that is gone, a file
that the engine began to send for an earlier request.  The invariant `IInv` says
what ties them together, connection by connection.

* `UploadInv`: besides the two claims of `UploadsAreOurs`, uploads are numbered as
  they come and only a client in `processing` holds one.  Without the numbers a
  new upload could take the place of one that is claimed.
* `SoundInv`: a target that waits for its clear is the canonical copy of a valid
  image in the cache already, nothing unchecked but raw images gets into the
  cache, and only who is connected has published anything; so an announcement
  never needs to look at the image again.
* `RequestInv`: a request under way has a number of its own, no file is sent for a
  number not given yet, a peer is sent an image once at a time, and a file sent
  under the number of a request that distributes is in that request's downloads.
  This is what a handoff may conclude from an empty list of downloads.
* `RoundInv`, for each pair of a client and a peer: who owes an answer is there; a
  peer that owes two since the clear is waited for in the first round, one that
  owes one in the second; while an image is distributed, a peer that owes one is
  waited for, and a peer that has answered has the image or waits for it.

A step of one connection leaves the others' parts of the invariant alone
(`OneClientStep`, `SteadyStep`), so each action needs only what it does to its own
record (`UploadMoves`, `SoundMoves`, `RequestMoves`, `RoundMoves`).  A visit of the
frame has three outcomes while the clear is awaited (`AwaitClearOutcome`) and three
while the image is distributed (`DistributeOutcome`); the invariant and
`HandoffsAreOrderly` both follow from these, and every other action replaces no CRC
and ends no distribution (`Undisturbed`).

### What the proofs assume

The named assumptions the modules state about their constants
(`BalanceAssumption`, `BountiesAssumption`, ...), which TLC evaluates in every run.
They are weak: no set need be finite except the players of `BountyTargets` (their
number is counted) and the mails of `MailRedemption` (the list of mails found is
turned into a sequence); stakes, awards and durations are positive because the
code checks them or defines them so; of the bounds nothing is assumed but that
they are numbers.

### What is only model-checked

* Liveness: `LoadsAreAnswered`, `BountiesEnd`, `ListConverges`, `RedemptionsEnd` and
  `WorkEnds`.  TLAPS does not reach it.
* The placements of `sprays`, and the invariants of `parts` and `fair_parts` other
  than the guard's.  The parts are small and finite in the code as well (slots, hooks,
  modules), so that their instances say most of what a theorem would.
* `FencedLoadsMatchLedger`, `PendingStopsAreOurs`: refuted, see the findings, and so
  is `NoOverdraft` without the hypothesis above.

## 6. What is not modelled, and the plan

The components not modelled are those marked *no* in section 2: callers that add
no state of their own, single queries, effects that live in the engine,
predecessors that were replaced, batch scripts.  Of the parts that are modelled,
`PROJECT.json` says what is left out of each.

Candidates for further modules, the most exposed first, with the places that
make them so:

1. `MailDelivery` (`server_mail/delivery.sp`, `stimulus.sp`): a gift is paid for,
   inserted and looked up by three steps that can each fail, with a refund after
   a lookup that failed although the mail was stored (`delivery.sp:305`); stimulus
   checks given once (`stimulus.sp:783`).  Abstract: a gift's gems are in exactly
   one of the sender's account, the mail, the receiver's account.
2. `Lottery` (`points_store/lotteries/`): the draw that waits for pending ticket
   writes (`draw.inc:152`), equal refunds retried under idempotent keys, carry-over
   (`state.inc:392`).  Abstract: what was paid for tickets is paid out or carried
   over, once.
3. `MailAttachments` (`server_mail/attachments.sp`): claim, give, finish, and the
   recovery at start-up on tables other servers share (`database.sp:311`).
4. `Purchases` (`points_store/shop.sp:300`) and `Welfare` (the pool read at start-up,
   `database.sp:577`, and per-map limits).
5. Clans (two leaders acting at once) and `whalescramble` votes around a round's
   end.

Two details of modelled parts are not looked at.  A refused clear of a disconnect
time is never repeated (`growth_and_disconnects.inc:201`): the properties about
disconnects are stated for runs without one.  The identifiers of overdue bounties
are joined in a buffer of 256 bytes and what does not fit is left to the next
round (`growth_and_disconnects.inc:242`): the model refunds them all.

Next theorems: the placements of sprays, and the parts that keep their own
invariants in `parts`.
