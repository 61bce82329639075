-------------------------- MODULE ProviderRuntime --------------------------
(***************************************************************************)
(* The Codex and the Claude adapter of the daemon (sylvops-daemon,         *)
(* provider.rs): the discovery that every request shares, the health       *)
(* probes that refresh it, and what a launch or a resume makes of it: the  *)
(* executable, the Codex hook profile that all Sessions share, the Claude  *)
(* settings of this daemon, and the Session's hook credential.  Requests   *)
(* of several clients probe and launch at the same time, each await of a   *)
(* probe process is a place for the others, and meanwhile the user         *)
(* installs, updates and removes the provider's program.                   *)
(*                                                                         *)
(* A behaviour is of one adapter.  A build is what the program can do:     *)
(* "modern" serves --remote and --no-daemon, or is of a supported version; *)
(* "older" is not.  The environment and the argument vectors are left out. *)
(***************************************************************************)
EXTENDS Integers, Sequences, SequencesExt, FiniteSets

CONSTANTS
    Probers,     \* requests of clients that probe or launch
    Paths,        \* the places a search looks at, in order
    NoPath,       \* no path, no program
    MaxUpdates,   \* bound: what the user and the provider do to files
    MaxLives      \* bound: daemons that follow each other

ASSUME ProviderAssumption ==
    /\ Paths \in Seq(STRING) /\ NoPath \notin Range(Paths)
    /\ MaxUpdates \in Nat /\ MaxLives \in Nat

VARIABLES
    adapter,     \* "Codex" or "Claude"
    programs,    \* what is installed at each path
    discovery,   \* what the adapter last discovered
    asking,      \* each request
    profile,     \* the Codex hook profiles in CODEX_HOME
    settings,    \* the Claude settings files, by the daemon that wrote them
    life,        \* the daemon: which one it is, and whether it runs
    credentials, \* the requests whose Session has a hook credential
    launched,    \* the Sessions that were started
    updates      \* bound

providerVars == <<adapter, programs, discovery, asking, profile, settings, life,
                  credentials, launched, updates>>
files == <<programs, profile, settings, life, updates>>

Builds == {"modern", "older"}
ProviderKinds == {"ProbeProvider", "ListProviders", "Launch"}

(* On Windows the hook command, and so the profile's name, depends on the  *)
(* runtime.                                                                *)
Profiles == {"shared", "private"}
ProfileName(noDaemon) == IF noDaemon THEN "private" ELSE "shared"

NoDiscovery == [path |-> NoPath, serial |-> 0, noDaemon |-> FALSE, remote |-> FALSE]
NoWork == [pc |-> "idle", kind |-> "none", found |-> NoDiscovery, health |-> "none",
           noDaemon |-> FALSE, remote |-> FALSE, raced |-> FALSE]

(* discover_now: the first program that the search finds.  What it can do  *)
(* is not known yet.                                                       *)
DiscoverNow ==
    LET here == {i \in DOMAIN Paths : programs[Paths[i]].build # NoPath}
        first == {i \in here : \A j \in here : i <= j}
        path == Paths[CHOOSE i \in first : TRUE]
    IN  IF first = {} THEN NoDiscovery
        ELSE [NoDiscovery EXCEPT !.path = path, !.serial = programs[path].serial]

ProviderInit ==
    /\ adapter \in {"Codex", "Claude"}
    /\ programs \in [Range(Paths) -> {[build |-> b, serial |-> 0] : b \in Builds \cup {NoPath}}]
    /\ discovery = DiscoverNow
    /\ asking = [r \in Probers |-> NoWork]
    /\ profile = [n \in Profiles |-> "absent"]
    /\ settings = IF adapter = "Claude" THEN [n \in {1} |-> "owned"] ELSE <<>>
    /\ life = [number |-> 1, up |-> TRUE]
    /\ credentials = {} /\ launched = {} /\ updates = 0

Where(r, pc) == life.up /\ asking[r].pc = pc
MovesTo(r, pc) == asking' = [asking EXCEPT ![r].pc = pc]
Ends(r) == asking' = [asking EXCEPT ![r] = [NoWork EXCEPT !.pc = "done", !.kind = @]]
Reports(r, health) == asking' = [asking EXCEPT ![r].pc = "persist", ![r].health = health]

(* ClaudeExecutable::revalidate; a Codex program is known by its path.     *)
Revalidates(found) ==
    \/ adapter = "Codex"
    \/ /\ found.path # NoPath /\ programs[found.path].build # NoPath
       /\ programs[found.path].serial = found.serial

----------------------------------------------------------------------------
(* Probes.                                                                 *)

(* ListProviders probes what is discovered; the others discover anew.      *)
Begin(r, k) ==
    /\ Where(r, "idle")
    /\ asking' = [asking EXCEPT ![r].kind = k,
                      ![r].pc = IF k = "ListProviders" THEN "read" ELSE "discover"]
    /\ UNCHANGED <<adapter, discovery, credentials, launched, files>>

Discover(r) ==
    /\ Where(r, "discover")
    /\ asking' = [asking EXCEPT ![r].pc = "refresh", ![r].found = DiscoverNow]
    /\ UNCHANGED <<adapter, discovery, credentials, launched, files>>

(* refresh_health.  Raced are the requests whose own probe this outdates,  *)
(* until they have noted what it said.                                     *)
Refresh(r) ==
    /\ Where(r, "refresh")
    /\ discovery' = asking[r].found
    /\ asking' = [q \in Probers |->
          IF q = r THEN [asking[q] EXCEPT !.pc = "read"] ELSE [asking[q] EXCEPT !.raced = TRUE]]
    /\ UNCHANGED <<adapter, credentials, launched, files>>

(* probe_health reads the discovery ...                                    *)
ReadDiscovery(r) ==
    /\ Where(r, "read")
    /\ asking' = [asking EXCEPT
          ![r].found = discovery,
          ![r].pc = IF discovery.path # NoPath /\ Revalidates(discovery)
                    THEN "version" ELSE "persist",
          ![r].health = "unavailable"]
    /\ UNCHANGED <<adapter, discovery, credentials, launched, files>>

(* ... runs the program for its version, which may fail or take too long,  *)
Runs(r) == programs[asking[r].found.path].build
Version(r) ==
    /\ Where(r, "version")
    /\ \/ Reports(r, "unavailable")
       \/ /\ Runs(r) \in IF adapter = "Claude" THEN {"modern"} ELSE Builds
          /\ MovesTo(r, IF adapter = "Claude" THEN "check" ELSE "options")
    /\ UNCHANGED <<adapter, discovery, credentials, launched, files>>

(* Claude: and looks at the program again before it asks for the login,    *)
CheckAgain(r) ==
    /\ Where(r, "check")
    /\ IF Revalidates(asking[r].found)
       THEN asking' = [asking EXCEPT ![r].pc = "login",
                                       ![r].raced = @ /\ discovery # asking[r].found]
       ELSE Reports(r, "unavailable")
    /\ UNCHANGED <<adapter, discovery, credentials, launched, files>>

(* Codex: codex_runtime_options.                                           *)
Options(r) ==
    /\ Where(r, "options")
    /\ \/ Reports(r, "unavailable")
       \/ /\ Runs(r) # NoPath
          /\ asking' = [asking EXCEPT ![r].pc = "flags", ![r].noDaemon = Runs(r) = "modern",
                                        ![r].remote = Runs(r) = "modern"]
    /\ UNCHANGED <<adapter, discovery, credentials, launched, files>>

(* Mutant: a program without --remote is available too.                    *)
StoreFlagsOfAny(r) ==
    /\ Where(r, "flags")
    /\ discovery' = IF discovery.path # asking[r].found.path THEN discovery
                    ELSE [discovery EXCEPT !.noDaemon = asking[r].noDaemon,
                                           !.remote = asking[r].remote]
    /\ MovesTo(r, "login")
    /\ UNCHANGED <<adapter, credentials, launched, files>>

StoreFlags(r) ==
    /\ Where(r, "flags")
    /\ discovery' = IF discovery.path # asking[r].found.path THEN discovery
                    ELSE [discovery EXCEPT !.noDaemon = asking[r].noDaemon,
                                           !.remote = asking[r].remote]
    /\ asking' = [q \in Probers |->
          IF q # r THEN [asking[q] EXCEPT !.raced = @ \/ discovery' # discovery]
          ELSE [asking[r] EXCEPT
                   !.pc = IF asking[r].remote THEN "login" ELSE "persist",
                   !.raced = @ /\ discovery.path # asking[r].found.path]]
    /\ UNCHANGED <<adapter, credentials, launched, files>>

(* and last for its login.                                                 *)
Login(r) ==
    /\ Where(r, "login")
    /\ \E health \in {"healthy", "unauthenticated"} : Reports(r, health)
    /\ UNCHANGED <<adapter, discovery, credentials, launched, files>>

(* persist_provider_health, which may fail; only a launch or a resume of a *)
(* healthy provider goes on, and registers a credential.                   *)
Persist(r) ==
    /\ Where(r, "persist")
    /\ \/ Ends(r) /\ UNCHANGED credentials
       \/ /\ asking[r].kind = "Launch" /\ asking[r].health = "healthy"
          /\ MovesTo(r, "configure")
          /\ credentials' = credentials \cup {r}
    /\ UNCHANGED <<adapter, discovery, launched, files>>

----------------------------------------------------------------------------
(* Launches.                                                               *)

(* The error paths of launch_new_session and launch_resumed_successor.     *)
Refuse(r) == Ends(r) /\ credentials' = credentials \ {r}

(* build_launch_spec, build_resume_spec, managed_launch_context.           *)
Configure(r) ==
    /\ Where(r, "configure")
    /\ IF discovery.path = NoPath \/ ~Revalidates(discovery)
          \/ (adapter = "Claude" /\ settings[life.number] # "owned")
       THEN Refuse(r)
       ELSE /\ asking' = [asking EXCEPT
                             ![r].found.path = discovery.path,
                             ![r].found.serial = programs[discovery.path].serial,
                             ![r].pc = IF adapter = "Codex" THEN "overlay" ELSE "spawn"]
            /\ UNCHANGED credentials
    /\ UNCHANGED <<adapter, discovery, launched, files>>

(* configure_lifecycle_overlay and the first half of                       *)
(* install_stable_hook_profile.                                            *)
Overlay(r) ==
    /\ Where(r, "overlay")
    /\ asking' = [asking EXCEPT ![r].noDaemon = discovery.noDaemon,
          ![r].pc = IF profile[ProfileName(discovery.noDaemon)] = "absent"
                    THEN "install" ELSE "validate"]
    /\ UNCHANGED <<adapter, discovery, credentials, launched, files>>

(* persist_noclobber.                                                      *)
Install(r) ==
    /\ Where(r, "install")
    /\ LET name == ProfileName(asking[r].noDaemon) IN
          profile' = [profile EXCEPT ![name] = IF @ = "absent" THEN "owned" ELSE @]
    /\ MovesTo(r, "validate")
    /\ UNCHANGED <<adapter, discovery, credentials, launched,
                   programs, settings, life, updates>>

(* validate_codex_profile_settings: preferences and approvals are Codex's. *)
ValidateProfile(r) ==
    /\ Where(r, "validate")
    /\ IF profile[ProfileName(asking[r].noDaemon)] \in {"owned", "approved"}
       THEN /\ asking' = [asking EXCEPT ![r].pc = "runtime"] /\ UNCHANGED credentials
       ELSE Refuse(r)
    /\ UNCHANGED <<adapter, discovery, launched, files>>

(* codex_app_server.                                                       *)
ChooseRuntime(r) ==
    /\ Where(r, "runtime")
    /\ asking' = [asking EXCEPT ![r].pc = "spawn", ![r].remote = discovery.remote]
    /\ UNCHANGED <<adapter, discovery, credentials, launched, files>>

(* spawn_managed_session, or one of its errors.                            *)
Spawn(r) ==
    /\ Where(r, "spawn")
    /\ \/ Refuse(r) /\ UNCHANGED launched
       \/ /\ Ends(r) /\ UNCHANGED credentials
          /\ launched' = launched \cup
               {[by |-> r, program |-> <<asking[r].found.path, asking[r].found.serial>>,
                 noDaemon |-> asking[r].noDaemon, bridged |-> asking[r].remote,
                 raced |-> asking[r].raced]}
    /\ UNCHANGED <<adapter, discovery, files>>

----------------------------------------------------------------------------
(* The user, the provider's programs, and the daemon's end and start.      *)

UpdateProgram(p) ==
    /\ updates < MaxUpdates /\ updates' = updates + 1
    /\ \E b \in Builds \cup {NoPath} :
          programs' = [programs EXCEPT ![p] = [build |-> b, serial |-> updates + 1]]
    /\ UNCHANGED <<adapter, discovery, asking, credentials, launched,
                   profile, settings, life>>

(* Codex notes approvals and preferences; someone changes the hooks.       *)
ProfileIsWritten(name) ==
    /\ adapter = "Codex" /\ profile[name] # "absent"
    /\ updates < MaxUpdates /\ updates' = updates + 1
    /\ \E p \in {"approved", "altered"} : profile' = [profile EXCEPT ![name] = p]
    /\ UNCHANGED <<adapter, programs, discovery, asking, settings, life,
                   credentials, launched>>

SettingsAreWritten(n) ==
    /\ n \in DOMAIN settings
    /\ updates < MaxUpdates /\ updates' = updates + 1
    /\ settings' = [settings EXCEPT ![n] = "altered"]
    /\ UNCHANGED <<adapter, programs, discovery, asking, profile, life,
                   credentials, launched>>

Owned == {n \in DOMAIN settings : settings[n] = "owned"}
Others == DOMAIN settings \ Owned

(* Drop for ClaudeSettingsLayer, or a daemon that is killed.               *)
Stop ==
    /\ life.up /\ life' = [life EXCEPT !.up = FALSE]
    /\ settings' \in {settings, [n \in DOMAIN settings \ (Owned \cap {life.number})
                                  |-> settings[n]]}
    /\ asking' = [r \in Probers |-> IF asking[r].pc = "idle" THEN NoWork
                                      ELSE [NoWork EXCEPT !.pc = "done"]]
    /\ credentials' = {} /\ launched' = {}
    /\ UNCHANGED <<adapter, programs, discovery, profile, updates>>

(* cleanup_stale_claude_settings, install_in, discover_with_settings.      *)
Start ==
    /\ ~life.up /\ life.number < MaxLives
    /\ life' = [number |-> life.number + 1, up |-> TRUE]
    /\ settings' = IF adapter = "Claude"
                   THEN [n \in Others \cup {life'.number} |->
                            IF n \in Others THEN settings[n] ELSE "owned"]
                   ELSE settings
    /\ discovery' = DiscoverNow
    /\ UNCHANGED <<adapter, programs, asking, profile, credentials, launched, updates>>

----------------------------------------------------------------------------
Serve(r) ==
    \/ \E k \in ProviderKinds : Begin(r, k)
    \/ Discover(r) \/ Refresh(r) \/ ReadDiscovery(r) \/ Version(r) \/ CheckAgain(r)
    \/ Options(r) \/ StoreFlags(r) \/ Login(r) \/ Persist(r)
    \/ Configure(r) \/ Overlay(r) \/ Install(r) \/ ValidateProfile(r) \/ ChooseRuntime(r) \/ Spawn(r)

ProviderNext ==
    \/ \E r \in Probers : Serve(r)
    \/ \E p \in Range(Paths) : UpdateProgram(p)
    \/ \E name \in Profiles : ProfileIsWritten(name)
    \/ \E n \in 1 .. MaxLives : SettingsAreWritten(n)
    \/ Stop \/ Start

ProviderSpec == ProviderInit /\ [][ProviderNext]_providerVars

----------------------------------------------------------------------------
(* Every Codex Session runs behind the bridge and outside a shared server  *)
(* (docs/adr/0013-structured-codex-input.md, docs/providers/codex.md).     *)
(* Exempt is a launch between whose own probe and whose configuration      *)
(* another request has refreshed the discovery: what the program can do is *)
(* then unknown until that request's probe has answered, and the Session   *)
(* is started without either.                                              *)
ManagedIsBridged ==
    adapter = "Codex" => \A s \in launched : (s.bridged /\ s.noDaemon) \/ s.raced

(* A request that has ended leaves a credential exactly if its Session     *)
(* runs.                                                                   *)
CredentialsFollowSessions ==
    \A r \in Probers : asking[r].pc = "done" =>
       (r \in credentials <=> \E s \in launched : s.by = r)

(* The settings that killed daemons have left are removed by the next one, *)
(* whose own are there.                                                    *)
NoStaleSettings == adapter = "Claude" /\ life.up => Owned \subseteq {life.number}

(* No step of the daemon changes a profile that exists, on which running   *)
(* Sessions and the user's approvals rest, or removes a settings file that *)
(* someone has altered.                                                    *)
FilesOfOthersAreKept ==
    [][updates' = updates /\ <<profile, settings>>' # <<profile, settings>> =>
          /\ \A n \in Profiles : profile[n] # "absent" => profile'[n] = profile[n]
          /\ \A n \in Others :
                n \in DOMAIN settings' /\ settings'[n] = "altered"]_providerVars
============================================================================
