------------------------------- MODULE Config -------------------------------
(***************************************************************************)
(* internal/config/config.go: the configuration from defaults, a YAML file *)
(* and the command line.  Settings with a value and switches are kept      *)
(* apart; values are words and Empty is "" (or 0).  An argument is a word, *)
(* [flag |-> Empty, value |-> w], or a flag, whose value is Empty unless   *)
(* it is written with `='.  A YAML file holds a value (or Empty) for each  *)
(* setting in `text' and what is present of the switches in `on'.          *)
(***************************************************************************)
EXTENDS Integers, SequencesExt

Empty    == ""
Valued   == {"url", "output", "timeout", "level"}
Switches == {"verbose", "jpeg", "continuous"}
Levels   == {"error", "warn", "info", "debug"}
YamlFile == "config.yaml"
NoConfig == [text |-> [k \in Valued |-> Empty], on |-> [k \in Switches |-> FALSE]]
Invalid  == [error |-> TRUE]

DefaultText == [url |-> Empty, output |-> "./frames", timeout |-> "10s",
                level |-> "info"]

\* A switch that is off cannot be told from one that was never set.
setDefaults(c) ==
  [text |-> [k \in Valued |->
               IF c.text[k] # Empty THEN c.text[k]
               ELSE IF k = "level" /\ c.on["verbose"] THEN "debug"
               ELSE DefaultText[k]],
   on   |-> [k \in Switches |-> c.on[k] \/ k # "verbose"]]

\* What the file does not hold, or holds empty, stays.
merge(c, file) ==
  [text |-> [k \in Valued |-> IF file.text[k] # Empty THEN file.text[k] ELSE c.text[k]],
   on   |-> [k \in Switches |-> IF k \in DOMAIN file.on THEN file.on[k] ELSE c.on[k]]]

LoadFails(file) == file.text["timeout"] = "unparsable"
-----------------------------------------------------------------------------
IsFlag(arg)     == arg.flag # Empty
isYAMLFile(arg) == arg.value = YamlFile

\* Arguments taken for the file: not those right behind a flag, which might be
\* the flag's value.
YamlArguments(args) ==
  {i \in DOMAIN args :
     /\ ~IsFlag(args[i])
     /\ i = 1 \/ ~IsFlag(args[i - 1])
     /\ isYAMLFile(args[i])}

Without(args, positions) ==
  FlattenSeq([i \in DOMAIN args |-> IF i \in positions THEN << >> ELSE <<args[i]>>])

\* Package flag: the flags in front of the first word that is not a value.  A
\* flag with a value that is not written with `=' takes the next argument.
\* Of a repeated flag the last one counts.
Parse(args) ==
  LET value(i) == IF args[i].value # Empty THEN args[i].value
                  ELSE IF args[i].flag \in Switches THEN "true"
                  ELSE IF IsFlag(args[i + 1]) THEN "-" ELSE args[i + 1].value
      next(i)  == IF args[i].flag \in Valued /\ args[i].value = Empty THEN i + 2
                  ELSE i + 1
      from[i \in 1 .. Len(args) + 2] ==
        IF i > Len(args) THEN << >>
        ELSE IF ~IsFlag(args[i]) THEN << >>
        ELSE <<[flag |-> args[i].flag, value |-> value(i)]>> \o from[next(i)]
      set == from[1]
  IN  [k \in {s.flag : s \in ToSet(set)} |->
         set[Max({i \in DOMAIN set : set[i].flag = k})].value]

\* -verbose means the level debug, unless a level is given, which turns it off.
mergeFlags(c, set) ==
  LET levelGiven == "level" \in DOMAIN set
      on(k)      == set[k] = "true"
  IN  [text |-> [k \in Valued |->
                   IF k \in DOMAIN set /\ (set[k] # Empty \/ k = "level") THEN set[k]
                   ELSE IF k = "level" /\ "verbose" \in DOMAIN set THEN
                          IF on("verbose") THEN "debug" ELSE c.text[k]
                   ELSE c.text[k]],
       on   |-> [k \in Switches |->
                   IF k = "verbose" /\ levelGiven THEN
                     IF set["level"] # Empty THEN FALSE
                     ELSE IF k \in DOMAIN set THEN on(k) ELSE c.on[k]
                   ELSE IF k \in DOMAIN set THEN on(k)
                   ELSE c.on[k]]]

Validate(c) ==
  IF c.text["url"] = Empty \/ c.text["level"] \notin Levels THEN Invalid
  ELSE IF c.text["timeout"] = "negative"
  THEN [c EXCEPT !.text["timeout"] = DefaultText["timeout"]]
  ELSE c

\* Mutant: the file is merged over the flags.
ParseFlagsYamlLast(args, file) ==
  LET yaml == YamlArguments(args)
      set  == Parse(Without(args, yaml))
      flagged == mergeFlags(setDefaults(NoConfig), set)
  IN  Validate(setDefaults(IF yaml = {} THEN flagged ELSE merge(flagged, file)))

ParseFlags(args, file) ==
  LET yaml   == YamlArguments(args)
      set    == Parse(Without(args, yaml))
      loaded == IF yaml = {} THEN setDefaults(NoConfig)
                ELSE merge(setDefaults(NoConfig), file)
  IN  IF yaml # {} /\ LoadFails(file) THEN Invalid
      ELSE Validate(setDefaults(mergeFlags(loaded, set)))
=============================================================================
