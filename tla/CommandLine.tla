----------------------------- MODULE CommandLine -----------------------------
(***************************************************************************)
(* main() up to api::initialize: parseArguments, one option at a time.     *)
(***************************************************************************)
EXTENDS ConfigReader, Integers

CONSTANTS
    Options,      \* the options that may be typed, with their arguments
    Number,       \* what std::stoi makes of the arguments that it can convert
    LongNumber,   \* what std::strtol makes of the arguments that begin with a number
    MaxOptions    \* options on one command line

MAX_PROCESSES == 20
DefaultProcesses == 4
NoFile == "none"

ProcessTypes == {"real", "simul", "network", "system", "custom", "clone"}

VARIABLES
    startup,    \* where main() is
    settings,   \* what the options have set so far
    typed       \* the options that have been read

commandLineVars == <<startup, settings, typed>>

Defaults ==
    [numProcesses |-> DefaultProcesses, processType |-> "simul", respawn |-> TRUE,
     loggerType |-> "console", napType |-> "SEC", configFile |-> NoFile,
     complained |-> FALSE]    \* whether a warning has been logged

CommandLineInit ==
    /\ startup = "options"
    /\ settings = Defaults
    /\ typed = <<>>

\* The setting takes the argument when it is valid, its default with a warning when not.
Set(field, valid, value, default) ==
    settings' = [settings EXCEPT ![field] = IF valid THEN value ELSE default,
                                 !.complained = @ \/ ~valid]

\* Mutant: MAX_PROCESSES is not looked at.
ValidNumberUnbounded(arg) == arg \in DOMAIN Number /\ Number[arg] >= 1

ValidNumber(arg) == arg \in DOMAIN Number /\ Number[arg] \in 1..MAX_PROCESSES

\* Mutant: what is not a number is taken for the default without a word.
SetNumProcessesSilently(arg) ==
    settings' = [settings EXCEPT !.numProcesses =
                    IF ValidNumber(arg) THEN Number[arg] ELSE DefaultProcesses]

SetNumProcesses(arg) ==
    Set("numProcesses", ValidNumber(arg),
        IF ValidNumber(arg) THEN Number[arg] ELSE DefaultProcesses, DefaultProcesses)

SetProcessType(arg) == Set("processType", arg \in ProcessTypes, arg, "simul")

\* Mutant: the number is taken for an int, and one that is too large for off.
IsNonzeroInt(arg) == arg \in DOMAIN Number /\ Number[arg] # 0

\* std::strtol gives 0 for what is not a number, and the largest long for what is too large.
\* There is no warning, nor any argument that is refused.
IsNonzero(arg) == arg \in DOMAIN LongNumber /\ LongNumber[arg] # 0

SetRespawn(arg) == settings' = [settings EXCEPT !.respawn = IsNonzero(arg)]

\* "console" is not looked for: it is the default, with a warning.
SetLoggerType(arg) == Set("loggerType", arg = "file", arg, "console")

SetNapType(arg) == Set("napType", arg \in {"MS", "SEC", "MIN"}, arg, "MS")

Readable(arg) ==
    /\ arg \in DOMAIN ConfigFiles
    /\ ConfigFiles[arg].exists /\ ~ConfigFiles[arg].restricted

ReadOption(o) ==
    /\ startup = "options"
    /\ Len(typed) < MaxOptions
    /\ typed' = Append(typed, o)
    /\ startup' = CASE o.opt = "h" -> "success"
                    [] o.opt = "c" /\ ~Readable(o.arg) -> "failure"
                    [] OTHER -> "options"
    /\ CASE o.opt = "n" -> SetNumProcesses(o.arg)
         [] o.opt = "t" -> SetProcessType(o.arg)
         [] o.opt = "s" -> SetRespawn(o.arg)
         [] o.opt = "l" -> SetLoggerType(o.arg)
         [] o.opt = "T" -> SetNapType(o.arg)
         [] o.opt = "c" /\ Readable(o.arg) -> settings' = [settings EXCEPT !.configFile = o.arg]
         [] OTHER -> settings' = [settings EXCEPT !.complained = TRUE]

NeedsFile == settings.processType = "system" /\ settings.configFile = NoFile

EndOfOptions ==
    /\ startup = "options"
    /\ startup' = IF NeedsFile THEN "failure" ELSE "initialize"
    /\ UNCHANGED <<settings, typed>>

\* The types initializeFactory registers a handler for.
HandlerFactory == {"real", "simul", "network", "system", "clone"}
=============================================================================
