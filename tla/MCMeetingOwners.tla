--------------------------- MODULE MCMeetingOwners ---------------------------
(* Instances of MeetingOwners, and of the two links between the browser and *)
(* the desktop app, HelperLink and Transfer, for TLC. The three share no    *)
(* state: an execution is one of one of them, and the others are at rest.   *)
EXTENDS MeetingOwners, HelperLink, Transfer, TLC

VARIABLE part   \* the part that moves

Symmetry == Permutations(Jobs) \cup Permutations(Tasks)

Usual == [ops |-> {}, alarms |-> TRUE, granted |-> TRUE, compatible |-> TRUE,
          installed |-> TRUE, token |-> 0, backoff |-> 0, hiccups |-> 1]

MCLinkScenes ==
  { [Usual EXCEPT !.ops = {"worker", "helper"}, !.hiccups = 2],
    [Usual EXCEPT !.ops = {"worker", "helper", "tray", "check"}, !.token = 1],
    [Usual EXCEPT !.ops = {"check"}, !.installed = FALSE],
    [Usual EXCEPT !.ops = {"check", "worker"}, !.installed = FALSE, !.alarms = FALSE],
    [Usual EXCEPT !.ops = {"check", "worker", "helper"}, !.compatible = FALSE, !.token = 1],
    [Usual EXCEPT !.ops = {"check"}, !.granted = FALSE],
    [Usual EXCEPT !.ops = {"save", "drive"}, !.token = 1],
    [Usual EXCEPT !.ops = {"save", "worker"}, !.token = 1],
    [Usual EXCEPT !.ops = {"consent", "worker"}, !.token = 1],
    [Usual EXCEPT !.ops = {"save", "consent"}, !.token = 1, !.hiccups = 0],
    [Usual EXCEPT !.ops = {"probe", "helper"}, !.token = 1] }

Plain == [ops |-> {}, kinds |-> {"stream"}, kept |-> {1, 2}, tape |-> <<{0, 1, 2}, {0, 1}, {}>>,
          legacy |-> <<{0}, {}, {}>>, shape |-> <<"fine", "fine", "fine">>, size |-> <<1, 1, 1>>]

MCTransferScenes ==
  { [Plain EXCEPT !.ops = {"record", "finish", "delete"}],
    [Plain EXCEPT !.ops = {"record", "delete", "fail"}, !.kinds = {"notes", "list"},
                  !.shape = <<"broken", "fine", "fine">>],
    [Plain EXCEPT !.ops = {"delete", "crash"}, !.kinds = {"stream", "list", "notes"}, !.kept = {2, 3},
                  !.size = <<1, 2, 1>>],
    [Plain EXCEPT !.ops = {"crash", "record"}, !.size = <<1, 1, 3>>, !.kept = {1, 2, 3}],
    [Plain EXCEPT !.ops = {"delete"}, !.kinds = {"stream", "list"}, !.kept = {1, 2, 3},
                  !.shape = <<"fine", "broken", "fine">>] }

AppAtRest == state = "none"
LinkAtRest == scene = CHOOSE s \in LinkScenes : TRUE
TransferAtRest == plot = CHOOSE s \in TransferScenes : TRUE

MCInit ==
  /\ Init /\ LinkInit /\ TransferInit
  /\ \/ part = "app" /\ LinkAtRest /\ TransferAtRest
     \/ part = "link" /\ AppAtRest /\ TransferAtRest
     \/ part = "transfer" /\ AppAtRest /\ LinkAtRest

MCNext ==
  \/ part = "app" /\ Next /\ UNCHANGED <<part, linkVars, transferVars>>
  \/ part = "link" /\ LinkNext /\ UNCHANGED <<part, vars, transferVars>>
  \/ part = "transfer" /\ TransferNext /\ UNCHANGED <<part, vars, linkVars>>

MCSpec == MCInit /\ [][MCNext]_<<part, vars, linkVars, transferVars>>
=============================================================================
