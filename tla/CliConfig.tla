----------------------------- MODULE CliConfig -----------------------------
(***************************************************************************)
(* The configuration of the command-line tool: ConfigStore and             *)
(* resolveConfig (src/cli/core/config.ts) and the `config` commands        *)
(* (src/cli/modules/core.ts), run by several processes on one directory.   *)
(* A process may be killed at any step, and a call of the host may fail.   *)
(***************************************************************************)
EXTENDS Naturals, FiniteSets

CONSTANTS
  Processes,  \* invocations of the tool
  Found,      \* contents the directory may hold at first: [Files -> Content]
  Given,      \* arguments and environment of invocations
  Arguments   \* of the `config` commands

VARIABLES
  disk,   \* Files -> what the file holds
  temps,  \* temporary files: whose, for which file, what they hold
  run     \* Processes -> the invocation

vars == <<disk, temps, run>>

-----------------------------------------------------------------------------
(* Files.  A file that is not Absent or Torn holds the settings it names,  *)
(* each "good" or "odd" (a value its validation refuses).                  *)

Files == {"config", "profile"}
Absent == [kind |-> "absent"]
Torn == [kind |-> "torn"]
Whole(version, settings) == [kind |-> "object", version |-> version, settings |-> settings]

ToolConfig == {"default_profile", "output"}
ProfileConfig == {"zone", "endpoint", "identity", "default_protocol", "output"}
Keys(file) == IF file = "config" THEN ToolConfig ELSE ProfileConfig

\* A zone and an identity are any text.
Checked == {"default_profile", "output", "endpoint", "default_protocol"}
Validated(file, content) ==
  IF content.version # 1 THEN "UNSUPPORTED_CONFIG_VERSION"
  ELSE IF \E k \in DOMAIN content.settings \cap Checked : content.settings[k] = "odd" THEN "INVALID_CONFIG"
  ELSE IF ~(DOMAIN content.settings \subseteq Keys(file)) THEN "INVALID_CONFIG"
  ELSE "ok"

\* What reading a file comes to.  Only config.json may be missing: readProfile
\* gives #readJson nothing to return instead.
ReadJson(file) ==
  CASE disk[file].kind = "absent" -> IF file = "config" THEN "ok" ELSE "NotFound"
    [] disk[file].kind = "torn"   -> "INVALID_CONFIG"
    [] OTHER -> Validated(file, disk[file])
Held(file) == IF disk[file].kind = "object" THEN disk[file].settings ELSE <<>>

\* Names that end in .json: those of temporary files do not.
ListProfiles == {f \in {"profile"} : disk[f] # Absent}

-----------------------------------------------------------------------------
Idle == [at |-> "idle", verb |-> "none", arg |-> <<>>, read |-> <<>>, file |-> "config", result |-> "none",
         resolved |-> <<>>]

Init ==
  /\ disk \in Found
  /\ temps = {}
  /\ run = [p \in Processes |-> Idle]

Becomes(p, r) == run' = [run EXCEPT ![p] = r]
Ends(p, result) == Becomes(p, [run[p] EXCEPT !.at = "done", !.result = result])
Only(p, r) == Becomes(p, r) /\ UNCHANGED <<disk, temps>>

-----------------------------------------------------------------------------
(* Reading: resolveConfig, list, get, check.                               *)

\* The first of the four that is given, and which one it is.
Select(explicit, environment, profile, fallback) ==
  CASE explicit # "none"    -> <<explicit, "argument">>
    [] environment # "none" -> <<environment, "environment">>
    [] profile # "none"     -> <<profile, "profile">>
    [] fallback # "none"    -> <<fallback, "default">>
    [] OTHER -> <<"none", "none">>
Of(settings, key) == IF key \in DOMAIN settings THEN settings[key] ELSE "none"

ProfileName(g, config) == Select(g.explicit.profile, g.environment.profile, "none", Of(config, "default_profile"))[1]

\* The endpoint that was chosen is validated again; so is BUCKYOS_TOOL_OUTPUT.
Resolved(g, config, profile) ==
  LET chosen(key) == Select(Of(g.explicit, key), Of(g.environment, key), Of(profile, key), "none")
      output == IF g.interactive /\ g.explicit.output = "none" THEN <<"table", "interactive-default">>
                ELSE Select(g.explicit.output, g.environment.output, Of(profile, "output"),
                            IF Of(config, "output") = "none" THEN "json" ELSE config.output)
  IN [zone |-> chosen("zone"), endpoint |-> chosen("endpoint"), identity |-> chosen("identity"),
      output |-> output,
      protocol |-> IF Of(profile, "default_protocol") # "none" THEN profile.default_protocol
                   ELSE IF chosen("endpoint")[1] = "none" THEN "https://" ELSE "of the endpoint"]
ResolvedWith(g, r) ==
  IF g.environment.output = "odd" /\ r.output[2] # "interactive-default" THEN "INVALID_OUTPUT_FORMAT"
  ELSE IF r.endpoint[1] = "odd" THEN "INVALID_ENDPOINT" ELSE "ok"

\* Commands that need no session read no file at all.
LocalResolvedConfig(g) ==
  LET at(key) == Select(Of(g.explicit, key), Of(g.environment, key), "none", "none") IN
  [zone |-> at("zone"), endpoint |-> at("endpoint"), identity |-> at("identity"),
   output |-> IF g.interactive /\ g.explicit.output = "none" THEN <<"table", at("output")[2]>>
              ELSE Select(g.explicit.output, g.environment.output, "none", "json"),
   protocol |-> IF at("endpoint")[1] = "none" THEN "https://" ELSE "of the endpoint"]

StartLocal(p, g) ==
  /\ run[p] = Idle
  /\ Only(p, [Idle EXCEPT !.verb = "local", !.at = "done", !.resolved = LocalResolvedConfig(g),
       !.result = IF g.environment.output = "odd" /\ g.explicit.output = "none" /\ ~g.interactive
                  THEN "INVALID_OUTPUT_FORMAT" ELSE "ok"])

\* resolveConfig: config.json, then the profile it, the environment or the
\* arguments name.
StartResolve(p, g) ==
  /\ run[p] = Idle
  /\ Only(p, [Idle EXCEPT !.verb = "resolve", !.at = "config", !.arg = g])
ResolveConfigRead(p) ==
  LET g == run[p].arg IN
  /\ run[p].verb = "resolve" /\ run[p].at = "config"
  /\ IF ReadJson("config") # "ok" THEN Ends(p, ReadJson("config"))
     ELSE IF ProfileName(g, Held("config")) = "odd" THEN Ends(p, "INVALID_PROFILE_NAME")
     ELSE IF ProfileName(g, Held("config")) = "none"
     THEN LET r == Resolved(g, Held("config"), <<>>) IN
          Becomes(p, [run[p] EXCEPT !.at = "done", !.resolved = r, !.result = ResolvedWith(g, r)])
     ELSE Becomes(p, [run[p] EXCEPT !.at = "profile", !.read = Held("config")])
  /\ UNCHANGED <<disk, temps>>
ResolveProfileRead(p) ==
  LET g == run[p].arg   r == Resolved(g, run[p].read, Held("profile")) IN
  /\ run[p].verb = "resolve" /\ run[p].at = "profile"
  /\ IF ReadJson("profile") # "ok" THEN Ends(p, ReadJson("profile"))
     ELSE Becomes(p, [run[p] EXCEPT !.at = "done", !.resolved = r, !.result = ResolvedWith(g, r)])
  /\ UNCHANGED <<disk, temps>>

\* `config list` and `config check` (which resolves first).
List(p) ==
  /\ run[p] = Idle
  /\ Only(p, [Idle EXCEPT !.verb = "list", !.at = "done", !.result = ReadJson("config"), !.resolved = ListProfiles])

\* `config get`: the file, or one setting of it.
Get(p, a) ==
  /\ run[p] = Idle
  /\ Only(p, [Idle EXCEPT !.verb = "get", !.at = "done", !.arg = a,
       !.result = IF ReadJson(a.file) # "ok" THEN ReadJson(a.file)
                  ELSE IF a.key \notin DOMAIN Held(a.file) \cup {"none"} THEN "CONFIG_KEY_NOT_FOUND" ELSE "ok"])

-----------------------------------------------------------------------------
(* Writing.                                                                *)

With(settings, key, value) == [k \in DOMAIN settings \cup {key} |-> IF k = key THEN value ELSE settings[k]]

\* setGlobalValue, setProfileValue.
SetValue(a) ==
  IF a.key \notin Keys(a.file) THEN "INVALID_CONFIG_VALUE"
  ELSE IF a.value = "odd" /\ a.key = "default_profile" THEN "INVALID_PROFILE_NAME"
  ELSE IF a.value = "odd" /\ a.key \in {"output", "default_protocol"} THEN "INVALID_CONFIG_VALUE"
  ELSE "ok"

\* The new content is validated before anything is written.
Write(p, file, settings) ==
  IF Validated(file, Whole(1, settings)) = "ok"
  THEN Becomes(p, [run[p] EXCEPT !.at = "open", !.file = file, !.read = settings])
  ELSE Ends(p, Validated(file, Whole(1, settings)))

StartSet(p, a) == run[p] = Idle /\ Only(p, [Idle EXCEPT !.verb = "set", !.at = "read", !.arg = a])
SetRead(p) ==
  LET a == run[p].arg IN
  /\ run[p].verb = "set" /\ run[p].at = "read"
  /\ IF ReadJson(a.file) # "ok" THEN Ends(p, ReadJson(a.file))
     ELSE IF SetValue(a) # "ok" THEN Ends(p, SetValue(a))
     ELSE Write(p, a.file, With(Held(a.file), a.key, a.value))
  /\ UNCHANGED <<disk, temps>>

\* `config use`: the profile must be readable; then config.json.
StartUse(p) == run[p] = Idle /\ Only(p, [Idle EXCEPT !.verb = "use", !.at = "profile"])
UseProfileRead(p) ==
  /\ run[p].verb = "use" /\ run[p].at = "profile"
  /\ IF ReadJson("profile") # "ok" THEN Ends(p, ReadJson("profile"))
     ELSE Becomes(p, [run[p] EXCEPT !.at = "config"])
  /\ UNCHANGED <<disk, temps>>
UseConfigRead(p) ==
  /\ run[p].verb = "use" /\ run[p].at = "config"
  /\ IF ReadJson("config") # "ok" THEN Ends(p, ReadJson("config"))
     ELSE Write(p, "config", With(Held("config"), "default_profile", "good"))
  /\ UNCHANGED <<disk, temps>>

\* #atomicWrite: a file of its own, renamed over the target.
Temporary(p, content) == [by |-> p, file |-> run[p].file, content |-> content]
\* Seeded: the file is written where it is.
InPlace(p) ==
  /\ run[p].at = "open"
  /\ disk' = [disk EXCEPT ![run[p].file] = Torn]
  /\ Becomes(p, [run[p] EXCEPT !.at = "fill"]) /\ UNCHANGED temps
OpenTarget(p) ==
  /\ run[p].at = "open"
  /\ temps' = temps \cup {Temporary(p, Torn)}
  /\ Becomes(p, [run[p] EXCEPT !.at = "fill"]) /\ UNCHANGED disk
FillTarget(p) ==
  /\ run[p].at = "fill"
  /\ temps' = (temps \ {Temporary(p, Torn)}) \cup {Temporary(p, Whole(1, run[p].read))}
  /\ Becomes(p, [run[p] EXCEPT !.at = "rename"]) /\ UNCHANGED disk
Rename(p) ==
  /\ run[p].at = "rename"
  /\ \E t \in temps : t.by = p /\ disk' = [disk EXCEPT ![t.file] = t.content] /\ temps' = temps \ {t}
  /\ Becomes(p, [run[p] EXCEPT !.at = "chmod"])
Chmod(p) == run[p].at = "chmod" /\ Ends(p, "ok") /\ UNCHANGED <<disk, temps>>

\* A call of the host fails: the temporary file is removed, if it is there
\* and can be; the target may have been replaced already.
HostFails(p) ==
  /\ run[p].at \in {"open", "fill", "rename", "chmod"}
  /\ \E kept \in BOOLEAN : temps' = IF kept THEN temps ELSE {t \in temps : t.by # p}
  /\ Ends(p, "HostError") /\ UNCHANGED disk

\* The process is killed.
Kill(p) ==
  /\ run[p].at \notin {"idle", "done"}
  /\ Ends(p, "killed") /\ UNCHANGED <<disk, temps>>

Next ==
  \E p \in Processes :
    \/ \E g \in Given : StartLocal(p, g) \/ StartResolve(p, g)
    \/ ResolveConfigRead(p) \/ ResolveProfileRead(p) \/ List(p)
    \/ \E a \in Arguments : Get(p, a) \/ StartSet(p, a)
    \/ SetRead(p) \/ StartUse(p) \/ UseProfileRead(p) \/ UseConfigRead(p)
    \/ OpenTarget(p) \/ FillTarget(p) \/ Rename(p) \/ Chmod(p) \/ HostFails(p) \/ Kill(p)

Spec == Init /\ [][Next]_vars

-----------------------------------------------------------------------------
(* Whatever fails and whoever is killed or writes at the same time, a file *)
(* changes only into one that every reader accepts: never half a file,     *)
(* never a setting that the next invocation refuses (#atomicWrite and the  *)
(* validation before it).                                                  *)
ChangesWhole == \A f \in Files : disk'[f] # disk[f] => ReadJson(f)' = "ok"
ConfigIsWhole == [][ChangesWhole]_vars
=============================================================================
