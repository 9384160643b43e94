----------------------------- MODULE SerialCli -----------------------------
(***************************************************************************)
(* handle_serial_cli() in src/main.cpp: the loop task assembles lines from *)
(* the bytes the UART has received so far and runs the first branch of one *)
(* long if-else chain that matches.  A line is one token, the sequence of  *)
(* its words with "N" for any number; the terminators are tokens of their  *)
(* own, because it matters when each of them arrives.                      *)
(***************************************************************************)
EXTENDS Naturals, Sequences

CONSTANTS
  Lines,       \* the lines users type
  Endings,     \* what terminals may end a line with, a subset of Ending
  MaxLines,    \* lines typed in all
  BufferSize   \* tokens that fit the line buffer (255 bytes)

LF == <<"LF">>
CR == <<"CR">>
Ending == {<<LF>>, <<CR>>, <<CR, LF>>}

ASSUME CliAssumption ==
  /\ Endings \subseteq Ending /\ MaxLines \in Nat /\ BufferSize \in Nat \ {0}
  /\ Lines \cap {LF, CR} = {}

VARIABLES
  ending,  \* how the user's terminal ends a line
  typed,   \* history: the lines typed so far
  wire,    \* tokens on their way to the UART
  fifo,    \* tokens received and not read: Serial.available()
  line,    \* the static buffer line[0 .. len - 1]
  done     \* history: what each dispatched line did

vars == <<ending, typed, wire, fifo, line, done>>

-----------------------------------------------------------------------------
(* The if-else chain, in the order of the source.  A branch compares the    *)
(* whole line or its first words, and then looks for its arguments; without *)
(* them it prints its usage at most.                                        *)

\* strcmp() with each of the words of heads.
Is(heads, does) == [heads |-> heads, whole |-> TRUE, forms |-> {[args |-> <<>>, does |-> does]}]

\* strncmp() with each of heads and a blank, then sscanf(): "N" is %d or %f, "W" is %s,
\* any other word itself.
Form(args, does)         == [args |-> args, does |-> does]
BeginsWith(heads, forms) == [heads |-> heads, whole |-> FALSE, forms |-> forms]
Takes(head, args, does)  == BeginsWith({head}, {Form(args, does)})

Manual == <<
  BeginsWith({<<"switch">>, <<"relay">>}, {Form(<<"N", "N">>, "switch_set")}),
  Takes(<<"reset", "coulomb">>, <<"N">>, "reset_coulomb_counter"),
  Takes(<<"reset", "energy">>, <<"N">>, "reset_energy_counter"),
  BeginsWith({<<"test", "switch">>, <<"test", "relay">>}, {Form(<<"N">>, "switch_pulse")}) >>

Calibrations == <<
  Is({<<"shunt", "show">>}, "show shunts"),       Takes(<<"shunt">>, <<"N", "N">>, "set_shunt"),
  Is({<<"vratio", "show">>}, "show ratios"),      Takes(<<"vratio">>, <<"N", "N">>, "set_volt_ratio"),
  Is({<<"resistor", "show">>}, "show resistors"), Takes(<<"resistor">>, <<"N", "N", "N">>, "set_resistors"),
  Is({<<"cal", "show">>}, "show calibration"),    Takes(<<"cal">>, <<"N", "N", "N">>, "sensor_set_calibration") >>

Networks == <<
  Takes(<<"wifi_ssid">>, <<"W">>, "save ssid"),
  Takes(<<"wifi_pass">>, <<"W">>, "save password"),
  Takes(<<"set_wifi">>, <<"W", "W">>, "set_wifi"),
  Takes(<<"supabase">>, <<"W", "W", "W", "W">>, "set_supabase") >>

Readings == <<
  Takes(<<"test", "sensor">>, <<"N">>, "read sensor"),
  BeginsWith({<<"virtual_channel">>},
    {Form(<<"N">>, "show virtual channel"), Form(<<"N", "N", "N", "N", "N">>, "save virtual channel")}),
  BeginsWith({<<"display">>}, {Form(<<"all">>, "all pages"), Form(<<"page", "N">>, "one page")}) >>

Reports == <<
  Is({<<"status">>}, "print_status"), Is({<<"mem">>}, "print memory"),
  Is({<<"log">>}, "dump_event_log_serial"), Is({<<"sensors">>}, "print_sensor_data"),
  Is({<<"switch", "status">>, <<"relay", "status">>}, "print switches"),
  BeginsWith({<<"switch", "rules">>, <<"relay", "rules">>}, {Form(<<"N">>, "print rule")}),
  Is({<<"battery", "list">>}, "list bindings") >>

Batteries == <<
  Takes(<<"battery", "bind">>, <<"N", "N">>, "battery_channel_set_profile"),
  Takes(<<"battery", "show">>, <<"N">>, "show battery"),
  Takes(<<"battery", "profile", "show">>, <<"N">>, "show profile"),
  Takes(<<"battery", "profile", "reset">>, <<"N">>, "battery_profile_reset_builtin"),
  Takes(<<"battery", "profile", "delete">>, <<"N">>, "battery_profile_delete"),
  Takes(<<"battery", "profile", "set">>, <<"N", "W", "W">>, "battery_profile_set"),
  Takes(<<"battery", "reset">>, <<"N">>, "cycle_counter_reset"),
  Takes(<<"cycle", "show">>, <<"N">>, "show cycles") >>

Tests == <<
  Is({<<"flush", "log">>}, "log_pop_batch"), Is({<<"i2c_scan">>}, "scan"),
  Is({<<"discover_sensors">>}, "discover_sensors"),
  Is({<<"test", "all", "switches">>, <<"test", "all", "relays">>}, "pulse every switch"),
  Is({<<"test", "all", "sensors">>}, "read every sensor"), Is({<<"test", "display">>}, "cycle pages"),
  Is({<<"switch", "auto", "on">>, <<"relay", "auto", "on">>}, "switch_set_auto(true)"),
  Is({<<"switch", "auto", "off">>, <<"relay", "auto", "off">>}, "switch_set_auto(false)") >>

Device == <<
  Is({<<"factory_reset">>}, "settings_factory_reset"),
  Is({<<"calibrate_baseline">>}, "sensor_calibrate_baseline"),
  Is({<<"ble_on">>}, "init_ble_provisioner"), Is({<<"wifi_show">>}, "show ssid"),
  Is({<<"supabase_show">>}, "show supabase"),
  Is({<<"virtual_channel", "show">>}, "show virtual channels"),
  Is({<<"reboot">>}, "restart"), Is({<<"serial1peek">>}, "print serial1"), Is({<<"help">>}, "help") >>

\* Mutant: a branch for every profile command before the battery branches.
ChainCatchingProfiles ==
  Manual \o Calibrations \o Networks \o Readings \o Reports
    \o <<Takes(<<"battery">>, <<"profile", "show", "N">>, "show profile")>> \o Batteries \o Tests \o Device

Chain == Manual \o Calibrations \o Networks \o Readings \o Reports \o Batteries \o Tests \o Device

Starts(head, l) == Len(head) <= Len(l) /\ SubSeq(l, 1, Len(head)) = head

Matches(b, l) ==
  \E head \in b.heads : Starts(head, l) /\ (Len(l) = Len(head)) = b.whole

Fits(args, l, n) ==
  /\ n + Len(args) <= Len(l)
  /\ \A i \in DOMAIN args : args[i] \in {"W", l[n + i]}

\* The form with the most arguments that sscanf() can fill.
Effect(b, l) ==
  LET n     == Len(CHOOSE head \in b.heads : Starts(head, l))
      fits  == {f \in b.forms : Fits(f.args, l, n)}
  IN  IF fits = {} THEN "nothing"
      ELSE (CHOOSE f \in fits : \A g \in fits : Len(g.args) <= Len(f.args)).does

\* A buffer that is not the text of one line matches no branch.  The last one is meant to
\* say so, but tests len, which is 0 by then.
Dispatch(buffer) ==
  LET hits == {i \in DOMAIN Chain : Len(buffer) = 1 /\ Matches(Chain[i], buffer[1])}
  IN  IF hits = {} THEN "nothing"
      ELSE Effect(Chain[CHOOSE i \in hits : \A j \in hits : i <= j], buffer[1])

Terminator == {LF, CR}

\* s without the terminators it begins with.
SkipTerminators(s) ==
  LET rest == {n \in 0 .. Len(s) : \A i \in 1 .. n : s[i] \in Terminator}
  IN  SubSeq(s, (CHOOSE n \in rest : \A m \in rest : m <= n) + 1, Len(s))

-----------------------------------------------------------------------------
Init ==
  /\ ending \in Endings
  /\ typed = <<>> /\ wire = <<>> /\ fifo = <<>> /\ line = <<>> /\ done = <<>>

TypeLine ==
  /\ Len(typed) < MaxLines
  /\ \E l \in Lines : typed' = Append(typed, l) /\ wire' = wire \o <<l>> \o ending
  /\ UNCHANGED <<ending, fifo, line, done>>

Arrive ==
  /\ wire # <<>>
  /\ fifo' = Append(fifo, Head(wire)) /\ wire' = Tail(wire)
  /\ UNCHANGED <<ending, typed, line, done>>

\* A terminator with a line in the buffer: empty the buffer, skip the terminators that
\* have arrived by now, run the line.
RunLine ==
  /\ fifo # <<>> /\ Head(fifo) \in Terminator /\ line # <<>>
  /\ done' = Append(done, Dispatch(line))
  /\ line' = <<>>
  /\ fifo' = SkipTerminators(Tail(fifo))
  /\ UNCHANGED <<ending, typed, wire>>

\* Mutant: the buffer has no end.
StoreUnbounded ==
  /\ fifo # <<>> /\ ~ (Head(fifo) \in Terminator /\ line # <<>>)
  /\ line' = Append(line, Head(fifo))
  /\ fifo' = Tail(fifo)
  /\ UNCHANGED <<ending, typed, wire, done>>

\* Anything else, a terminator with an empty buffer included, goes into the buffer while
\* there is room.
StoreByte ==
  /\ fifo # <<>> /\ ~ (Head(fifo) \in Terminator /\ line # <<>>)
  /\ line' = IF Len(line) < BufferSize THEN Append(line, Head(fifo)) ELSE line
  /\ fifo' = Tail(fifo)
  /\ UNCHANGED <<ending, typed, wire, done>>

Next == TypeLine \/ Arrive \/ RunLine \/ StoreByte

Spec == Init /\ [][Next]_vars

-----------------------------------------------------------------------------
(* Properties.                                                              *)

Effects == {"nothing"} \cup UNION {{f.does : f \in Chain[i].forms} : i \in DOMAIN Chain}

Token == Lines \cup Terminator

\* Every variable keeps its type; the buffer in particular never outgrows its array,
\* whatever is left in it when the next bytes come.
TypeOK ==
  /\ ending \in Endings
  /\ typed \in Seq(Lines) /\ Len(typed) <= MaxLines
  /\ wire \in Seq(Token) /\ fifo \in Seq(Token)
  /\ line \in Seq(Token) /\ Len(line) <= BufferSize
  /\ done \in Seq(Effects)

\* What the help text, the usage texts and docs/SWITCHES.md say of each line.
Help == {
  << <<"status">>, "print_status" >>, << <<"mem">>, "print memory" >>,
  << <<"sensors">>, "print_sensor_data" >>, << <<"log">>, "dump_event_log_serial" >>,
  << <<"switch", "status">>, "print switches" >>, << <<"relay", "status">>, "print switches" >>,
  << <<"switch", "rules", "N">>, "print rule" >>, << <<"relay", "rules", "N">>, "print rule" >>,
  << <<"switch", "N", "N">>, "switch_set" >>, << <<"relay", "N", "N">>, "switch_set" >>,
  << <<"test", "switch", "N">>, "switch_pulse" >>, << <<"test", "relay", "N">>, "switch_pulse" >>,
  << <<"test", "all", "switches">>, "pulse every switch" >>,
  << <<"test", "all", "relays">>, "pulse every switch" >>,
  << <<"test", "sensor", "N">>, "read sensor" >>, << <<"test", "all", "sensors">>, "read every sensor" >>,
  << <<"test", "display">>, "cycle pages" >>, << <<"display", "all">>, "all pages" >>,
  << <<"display", "page", "N">>, "one page" >>,
  << <<"switch", "auto", "on">>, "switch_set_auto(true)" >>,
  << <<"switch", "auto", "off">>, "switch_set_auto(false)" >>,
  << <<"relay", "auto", "on">>, "switch_set_auto(true)" >>,
  << <<"relay", "auto", "off">>, "switch_set_auto(false)" >>,
  << <<"factory_reset">>, "settings_factory_reset" >>,
  << <<"reset", "coulomb", "N">>, "reset_coulomb_counter" >>,
  << <<"reset", "energy", "N">>, "reset_energy_counter" >>,
  << <<"battery", "list">>, "list bindings" >>,
  << <<"battery", "bind", "N", "N">>, "battery_channel_set_profile" >>,
  << <<"battery", "show", "N">>, "show battery" >>, << <<"battery", "profile", "show", "N">>, "show profile" >>,
  << <<"battery", "profile", "set", "N", "field", "N">>, "battery_profile_set" >>,
  << <<"battery", "profile", "reset", "N">>, "battery_profile_reset_builtin" >>,
  << <<"battery", "profile", "delete", "N">>, "battery_profile_delete" >>,
  << <<"battery", "reset", "N">>, "cycle_counter_reset" >>, << <<"cycle", "show", "N">>, "show cycles" >>,
  << <<"flush", "log">>, "log_pop_batch" >>, << <<"i2c_scan">>, "scan" >>,
  << <<"discover_sensors">>, "discover_sensors" >>,
  << <<"shunt", "N", "N">>, "set_shunt" >>, << <<"shunt", "show">>, "show shunts" >>,
  << <<"vratio", "N", "N">>, "set_volt_ratio" >>, << <<"vratio", "show">>, "show ratios" >>,
  << <<"resistor", "N", "N", "N">>, "set_resistors" >>, << <<"resistor", "show">>, "show resistors" >>,
  << <<"cal", "N", "N", "N">>, "sensor_set_calibration" >>, << <<"cal", "show">>, "show calibration" >>,
  << <<"calibrate_baseline">>, "sensor_calibrate_baseline" >>, << <<"ble_on">>, "init_ble_provisioner" >>,
  << <<"serial1peek">>, "print serial1" >>, << <<"wifi_show">>, "show ssid" >>,
  << <<"wifi_ssid", "net">>, "save ssid" >>, << <<"wifi_pass", "pw">>, "save password" >>,
  << <<"set_wifi", "net", "pw">>, "set_wifi" >>, << <<"supabase_show">>, "show supabase" >>,
  << <<"supabase", "url", "key", "key", "id">>, "set_supabase" >>,
  << <<"virtual_channel", "show">>, "show virtual channels" >>,
  << <<"virtual_channel", "N">>, "show virtual channel" >>,
  << <<"virtual_channel", "N", "N", "N", "N", "N">>, "save virtual channel" >>,
  << <<"reboot">>, "restart" >>, << <<"help">>, "help" >> }

\* From a terminal that ends a line with one byte, the commands run in the order they were
\* typed, each as documented: none is split, joined with the next, left out or taken by
\* the branch of another, however the bytes are spread over the reads.  With CR LF it
\* fails: a LF that arrives after its CR was handled is stored as line[0], and the next
\* line matches no branch.
LinesRunAsTyped ==
  Len(ending) = 1 =>
     /\ Len(done) <= Len(typed)
     /\ \A i \in DOMAIN done : <<typed[i], done[i]>> \in Help
=============================================================================
