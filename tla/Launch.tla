------------------------------- MODULE Launch -------------------------------
(***************************************************************************)
(* Application::run and the routing of Session::run: from the command line *)
(* to the kind of session that is hosted.  The configuration, the registry *)
(* and what kind of handles were inherited are read when they matter, so   *)
(* they are choices of the actions that read them.                         *)
(***************************************************************************)
EXTENDS CommandLine

CONSTANT ArgLists  \* the token sequences the program may be started with

VARIABLES
  at,      \* "config", "parse", "parsed", "session", "probe", "handoff", a route, "hosted", "exit"
  given,   \* the tokens of the command line, and
  args,    \* those parse_tokens has not consumed
  line,    \* the client's command line
  opts,    \* the options set so far
  first    \* the CONNECT packet read before routing: "unread", "held", "offered" to a delegated
           \* host whose answer was lost, "served" here or "delegated"

launchVars == <<at, given, args, line, opts, first>>

Flags == {"v1", "noHandoff", "embedding", "delegatedWindow", "headless", "vtmode"}
Ignored == {"inheritCursor", "path"}
ValueOf == [server |-> {"handle"}, signal |-> {"handle"}, size |-> {"number"},
            feature |-> {"pty"}, textMeasurement |-> {}]
Options == Flags \cup {"server", "signal", "conpty"}
Routes == {"window", "windowless", "delegated", "headless", "pump", "pty", "comWindow", "comTerminal"}

NoOptions == [o \in Options |-> FALSE]

LaunchTypeOK ==
  /\ at \in {"config", "parse", "parsed", "session", "valid", "probe", "handoff", "offer",
             "hosted", "exit"} \cup Routes
  /\ opts \in [Options -> BOOLEAN]
  /\ first \in {"unread", "held", "offered", "served", "delegated"}

LaunchInit ==
  /\ at = "config"
  /\ given \in ArgLists
  /\ args = given
  /\ line = <<>> /\ opts = NoOptions /\ first = "unread"

\* ConfigLoader::load.
LoadConfig ==
  /\ at = "config"
  /\ at' \in {"parse", "exit"}
  /\ UNCHANGED <<given, args, line, opts, first>>

-----------------------------------------------------------------------------
(* ConsoleArguments::parse_tokens: one step per round of its loop *)

Name(token) == IF Len(token) = 1 THEN token[1] ELSE ""

TakeFlag ==
  /\ at = "parse" /\ args # <<>>
  /\ Name(Head(args)) \in Flags \cup Ignored
  /\ opts' = [o \in Options |-> opts[o] \/ o = Name(Head(args))]
  /\ args' = Tail(args)
  /\ UNCHANGED <<at, given, line, first>>

\* An option with a value: a handle may be given once; a missing or malformed value is an
\* error, but a text measurement may be anything.  A handle by itself is the server's.
TakeValue ==
  /\ at = "parse" /\ args # <<>>
  /\ \E o \in DOMAIN ValueOf, n \in {1, 2} :
       /\ \/ n = 2 /\ Name(Head(args)) = o
          \/ n = 1 /\ Name(Head(args)) = "handle" /\ o = "server"
       /\ IF /\ n <= Len(args) /\ ~(o \in Options /\ opts[o])
             /\ o = "textMeasurement" \/ Name(args[n]) \in ValueOf[o]
          THEN /\ opts' = [p \in Options |-> opts[p] \/ p = o]
               /\ args' = SubSeq(args, n + 1, Len(args))
               /\ UNCHANGED at
          ELSE at' = "exit" /\ UNCHANGED <<opts, args>>
  /\ UNCHANGED <<given, line, first>>

\* "--" or the first token that is no option: the rest is the client's.
TakeClient ==
  /\ at = "parse" /\ args # <<>>
  /\ Name(Head(args)) \notin Flags \cup Ignored \cup DOMAIN ValueOf \cup {"handle"}
  /\ line' = ClientCommandLine(IF Name(Head(args)) = "--" THEN Tail(args) ELSE args)
  /\ args' = <<>>
  /\ UNCHANGED <<at, given, opts, first>>

EndOfTokens ==
  /\ at = "parse" /\ args = <<>>
  /\ at' = "parsed"
  /\ UNCHANGED <<given, args, line, opts, first>>

-----------------------------------------------------------------------------
(* Application::run *)

\* What is not needed any more is forgotten.
GoTo(place, options) ==
  /\ at' = place
  /\ opts' = options
  /\ given' = <<>> /\ args' = <<>> /\ line' = <<>>

\* -Embedding: the COM server (module ComHandoff) waits for a handoff and runs a window
\* for it, or fails, after which the configuration may allow an ordinary start.
RunComServer ==
  /\ at = "parsed" /\ opts["embedding"]
  /\ \/ opts["delegatedWindow"] /\ GoTo("comWindow", NoOptions)
     \/ GoTo("comTerminal", NoOptions)
     \/ GoTo("exit", NoOptions)
     \/ GoTo("parsed", [opts EXCEPT !["embedding"] = FALSE])
  /\ UNCHANGED first

\* LaunchPolicy::decide: never for a ConPTY session.
UseLegacy(conpty, forceV1, forceV2) == ~conpty /\ (forceV1 \/ ~forceV2)

\* HKCU\Console\ForceV2: a missing key or value, or one that cannot be read, means V2.
ForceV2(present, value) == present => value

\* SessionOptions::in_conpty_mode.
InConpty(preferred, pipes) ==
  preferred /\ (opts["vtmode"] \/ opts["headless"] \/ opts["signal"] \/ pipes)

\* A dry run ends here, and so does a start that is the legacy host's: it takes over a
\* server handle or fails.
Dispatch ==
  /\ at = "parsed" /\ ~opts["embedding"]
  /\ \E dryRun, preferred, pipes, legacy, present, value \in BOOLEAN :
       LET conpty == InConpty(preferred, pipes)
       IN IF dryRun \/ (legacy /\ UseLegacy(conpty, opts["v1"], ForceV2(present, value)))
          THEN GoTo("exit", NoOptions)
          ELSE GoTo("session", [o \in Options |-> IF o = "conpty" THEN conpty
                                                  ELSE o \in {"server", "signal", "headless",
                                                              "noHandoff"} /\ opts[o]])
  /\ UNCHANGED first

-----------------------------------------------------------------------------
(* Session::run *)

Behind == opts["headless"] \/ opts["conpty"]

\* ServerHandleValidator: a handle that was given has to be one.
Validate ==
  /\ at = "session"
  /\ \/ GoTo("valid", opts)
     \/ (opts["server"] \/ opts["signal"]) /\ GoTo("exit", NoOptions)
  /\ UNCHANGED first

\* A server handle means that a console exists.
Route ==
  /\ at = "valid"
  /\ GoTo(IF opts["server"] THEN IF Behind THEN "headless" ELSE "probe"
          ELSE IF Behind THEN "pump" ELSE "pty", opts)
  /\ UNCHANGED first

\* ConsoleConnectionPolicy::decide, and the default for a connection that is not known.
Decision(known, noHandoff, interactive, consoleApp, visible, hiddenShow) ==
  [window |-> interactive /\ (known => visible),
   handoff |-> ~noHandoff /\ interactive /\ (known => consoleApp /\ visible /\ ~hiddenShow)]

\* try_read_connect_policy_input: what is known of a packet that was read.  It may not be a
\* CONNECT, its message may be too short, or reading the message may fail.
ConnectKnown(read) == {FALSE, read}

\* The CONNECT packet is read before there is a window, so that it can ask for none.  The
\* device, the input event, the server information or the read may fail.
ReadInitialPacket ==
  /\ at = "probe"
  /\ \E read, interactive, consoleApp, visible, hiddenShow \in BOOLEAN :
       \E known \in ConnectKnown(read) :
         LET decision == Decision(known, opts["noHandoff"], interactive, consoleApp, visible,
                                  hiddenShow)
         IN /\ first' = IF read THEN "held" ELSE first
            /\ GoTo(IF ~decision.window THEN "windowless"
                    ELSE IF decision.handoff THEN "handoff" ELSE "window", opts)

\* resolve_console_handoff_clsid: whether another console host is registered.  Without one,
\* or without a packet to give away, the classic window is opened.
ResolveTarget ==
  /\ at = "handoff"
  /\ \/ first = "held" /\ GoTo("offer", opts)
     \/ GoTo("window", opts)
  /\ UNCHANGED first

\* invoke_console_handoff, after the signal pipe and a handle to this process were made.  A
\* failure opens the classic window, also when the other host has accepted: its answer may
\* be lost on the way, or come without a process handle.
InvokeHandoff ==
  /\ at = "offer"
  /\ \/ first' = "delegated" /\ GoTo("delegated", NoOptions)
     \/ first' \in {first, "offered"} /\ GoTo("window", opts)

\* Mutant: the fallback starts without the packet that was read.
HostWithoutPacket ==
  /\ at \in {"window", "windowless"}
  /\ GoTo("hosted", NoOptions)
  /\ UNCHANGED first

\* The session of the route begins, with the packet when one is held.
HostWithPacket ==
  /\ at \in {"window", "windowless"}
  /\ first' = IF first \in {"held", "offered"} THEN "served" ELSE first
  /\ GoTo("hosted", NoOptions)

HostPlain ==
  /\ at \in Routes \ {"window", "windowless"}
  /\ GoTo("hosted", NoOptions)
  /\ UNCHANGED first

LaunchStep == LoadConfig \/ TakeFlag \/ TakeValue \/ TakeClient \/ EndOfTokens \/ RunComServer
              \/ Dispatch \/ Validate \/ Route \/ ReadInitialPacket \/ ResolveTarget \/ InvokeHandoff

-----------------------------------------------------------------------------
\* What was given before the client's tokens.
ClientPart(n) == IF n < Len(given) /\ Name(given[n + 1]) = "--"
                 THEN SubSeq(given, n + 2, Len(given)) ELSE SubSeq(given, n + 1, Len(given))

\* The client gets exactly the tokens behind the host's options: its own command line
\* parser splits the rebuilt line into them, whatever spaces, quotes and backslashes they
\* hold; and no token of the client, even one spelled like an option, sets an option.
ClientTokensSurvive ==
  at = "parsed" /\ given # <<>> =>
    \E n \in 0 .. Len(given) :
      /\ Argv(line) = ClientPart(n)
      /\ \A o \in Options : opts[o] => \E i \in 1 .. n : Name(given[i]) \in {o, "handle"}

\* A CONNECT packet read ahead of the routing is answered: whatever fallback was taken,
\* the session that is hosted has the packet, or the delegated host has it.
InitialPacketServed == at = "hosted" => first \notin {"held", "offered"}
=============================================================================
