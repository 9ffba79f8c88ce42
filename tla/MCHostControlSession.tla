------------------------ MODULE MCHostControlSession ------------------------
EXTENDS HostControlSessionProps

Request(op) == [op |-> op, run |-> "none", input |-> "none"]
Exec(run, input) == [op |-> "exec", run |-> run, input |-> input]
Input(text) == [op |-> "input", run |-> "none", input |-> text]

(* One request of every kind; the exec carries input and may end the shell. *)
AllKinds == {Exec("batch", "good"), Exec("prog", "bad"), Request("status"),
             Input("good"), Input("bad"), Request("cancel"),
             Request("malformed")}

(* Requests of commands that return by themselves.                         *)
Returning == {Exec("prog", "none"), Request("status"), Input("good"),
              Request("cancel")}

(* A batch file that runs until it is cancelled.                           *)
Endless == {Exec("loop", "none"), Exec("batch", "none"), Request("cancel")}

=============================================================================
