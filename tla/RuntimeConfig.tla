------------------------------ MODULE RuntimeConfig ------------------------------
(***************************************************************************)
(* The settings that PUT /api/config changes at run time                   *)
(* (internal/api/handlers_config.go), their copies in the database, and    *)
(* restorePersistedMutable in main.  Whether detection is enabled is kept  *)
(* twice: by the engine and by the server, for its responses.              *)
(*                                                                         *)
(* A patch is a function of some settings; Refused is a value the handler  *)
(* does not accept.  A patch with other keys is refused before anything    *)
(* happens and is no step.  Values go to the database and back as text     *)
(* that reads as the same value.                                           *)
(***************************************************************************)
EXTENDS BestEffort, Naturals, Sequences, FiniteSetsExt

CONSTANTS
  Defaults,        \* settings of the YAML file
  Patches,         \* patches requested
  ConfigHandlers,  \* goroutines that serve PUT
  Refused, Unset   \* a refused value; no row or no request

Settings == {"log_level", "detection_enabled", "detection_dedup_window"}

\* What the handler does for a patch, in order: first every setting is applied,
\* then every setting is persisted.
Steps == << <<"apply", "log_level">>,
            <<"mirror", "detection_enabled">>, <<"apply", "detection_enabled">>,
            <<"apply", "detection_dedup_window">>,
            <<"persist", "log_level">>, <<"persist", "detection_enabled">>,
            <<"persist", "detection_dedup_window">> >>

Values == {Defaults[s] : s \in Settings}
            \cup UNION {{p[s] : s \in DOMAIN p} : p \in Patches}

\* Requests under way: todo is what remains of Steps; unsaved are the settings
\* changed in memory only, saved those written too.
ConfigRequest ==
  [patch : Patches, todo : SUBSET (1 .. Len(Steps)),
   unsaved : SUBSET Settings, saved : SUBSET Settings]

ASSUME ConfigAssumption ==
  /\ Defaults \in [Settings -> Values \ {Refused}]
  /\ \A p \in Patches : DOMAIN p # {} /\ DOMAIN p \subseteq Settings

ASSUME UnsetAssumption == Unset \notin Values \cup ConfigRequest

VARIABLES
  live,      \* setting -> value the subsystem goes by
  mirror,    \* the server's detectionEnabled
  stored,    \* setting -> row "runtime."+setting, or Unset
  put        \* handler -> ConfigRequest, or Unset

config == <<live, mirror, stored, put>>

\* Places in Steps of what is done for the patch p.
StepsOf(p) == {i \in 1 .. Len(Steps) : Steps[i][2] \in DOMAIN p}

ConfigTypeOK ==
  /\ live \in [Settings -> Values \ {Refused}] /\ mirror \in Values \ {Refused}
  /\ stored \in [Settings -> (Values \ {Refused}) \cup {Unset}]
  /\ put \in [ConfigHandlers -> ConfigRequest \cup {Unset}]
  /\ \A h \in ConfigHandlers : put[h] # Unset =>
       /\ put[h].todo # {} /\ put[h].todo \subseteq StepsOf(put[h].patch)
       /\ put[h].saved \cup put[h].unsaved \subseteq DOMAIN put[h].patch

ConfigInit ==
  /\ live = Defaults /\ mirror = Defaults["detection_enabled"]
  /\ stored = [s \in Settings |-> Unset]
  /\ put = [h \in ConfigHandlers |-> Unset]

\* Settings of the requests under way, that of handler h left out.
ConfigBusy(h) ==
  UNION {DOMAIN put[g].patch : g \in {g \in ConfigHandlers \ {h} : put[g] # Unset}}

--------------------------------------------------------------------------------
(* handlePutConfig. *)

Put(h, p) ==
  /\ put[h] = Unset
  /\ put' = [put EXCEPT ![h] =
       [patch |-> p, todo |-> StepsOf(p), unsaved |-> {}, saved |-> {}]]
  /\ Begins(DOMAIN p, ConfigBusy(h))
  /\ UNCHANGED <<live, mirror, stored>>

\* The place of the step that h is about to take.
First(h) == Min(put[h].todo)

\* h is about to do what with s.
At(h, what, s) == put[h] # Unset /\ Steps[First(h)] = <<what, s>>

\* The request goes on, or is answered, with these settings unsaved and saved.
Proceed(h, unsaved, saved) ==
  IF put[h].todo # {First(h)}
  THEN /\ put' = [put EXCEPT ![h] =
            [patch |-> put[h].patch, todo |-> put[h].todo \ {First(h)},
             unsaved |-> unsaved, saved |-> saved]]
       /\ UNCHANGED history
  ELSE /\ put' = [put EXCEPT ![h] = Unset]
       /\ Ends(DOMAIN put[h].patch, saved, unsaved, ConfigBusy(h))

\* A value that is not accepted ends the request; what came before it stays.
Refuse(h) ==
  /\ put[h] # Unset
  /\ Steps[First(h)][1] \in {"mirror", "apply"}
  /\ put[h].patch[Steps[First(h)][2]] = Refused
  /\ put' = [put EXCEPT ![h] = Unset]
  /\ Ends(DOMAIN put[h].patch, {}, put[h].unsaved, ConfigBusy(h))
  /\ UNCHANGED <<live, mirror, stored>>

\* s.detectionEnabled.Store
Mirror(h) ==
  /\ At(h, "mirror", "detection_enabled")
  /\ put[h].patch["detection_enabled"] # Refused
  /\ mirror' = put[h].patch["detection_enabled"]
  /\ Proceed(h, put[h].unsaved \cup {"detection_enabled"}, put[h].saved)
  /\ UNCHANGED <<live, stored>>

\* SetLevel, SetEnabled, SetDedupWindow.
Apply(h, s) ==
  /\ At(h, "apply", s)
  /\ put[h].patch[s] # Refused
  /\ live' = [live EXCEPT ![s] = put[h].patch[s]]
  /\ Proceed(h, put[h].unsaved \cup {s}, put[h].saved)
  /\ UNCHANGED <<mirror, stored>>

\* persistMutable: a failure is only logged.
Persist(h, s) ==
  /\ At(h, "persist", s)
  /\ \/ /\ stored' = [stored EXCEPT ![s] = put[h].patch[s]]
        /\ Proceed(h, put[h].unsaved \ {s}, put[h].saved \cup {s})
     \/ /\ UNCHANGED stored
        /\ Proceed(h, put[h].unsaved, put[h].saved)
  /\ UNCHANGED <<live, mirror>>

--------------------------------------------------------------------------------
\* Mutant: the restored switch is not told to the server.
RestoredMirrorNot(readable) == Defaults["detection_enabled"]

\* The settings after a start: what could be read, or else the file's.
Restored(readable) ==
  [s \in Settings |->
     IF s \in readable /\ stored[s] # Unset THEN stored[s] ELSE Defaults[s]]

\* SetDetectionEnabled keeps the server's copy in step.
RestoredMirror(readable) == Restored(readable)["detection_enabled"]

\* main starts anew, with restorePersistedMutable.
Restore(readable) ==
  /\ live' = Restored(readable) /\ mirror' = RestoredMirror(readable)
  /\ put' = [h \in ConfigHandlers |-> Unset]
  /\ UNCHANGED stored

ConfigNext ==
  \E h \in ConfigHandlers :
    \/ \E p \in Patches : Put(h, p)
    \/ Refuse(h) \/ Mirror(h)
    \/ \E s \in Settings : Apply(h, s) \/ Persist(h, s)

--------------------------------------------------------------------------------
(* Properties. *)

\* What an answered request has set and stored is what a restart restores, and the
\* responses tell what the engine does, unless requests overlapped, a write failed
\* or a later setting was refused, and then until the next request or restart.
SettingsAgree ==
  \A s \in Settings \ doubtful :
    (\A h \in ConfigHandlers : put[h] = Unset \/ s \notin DOMAIN put[h].patch) =>
      /\ live[s] = Restored(Settings)[s]
      /\ s = "detection_enabled" => mirror = live[s]
================================================================================
