------------------------------- MODULE ChatStream -------------------------------
(***************************************************************************)
(* app/clients/llm/openai_compatible.py: how the client reads an answer.   *)
(*                                                                         *)
(* A line of the stream is a pair of what the code makes of it and of the  *)
(* texts in it; after the lines that arrive the connection is closed,      *)
(* lost or too slow, or the turn is cancelled.                             *)
(***************************************************************************)
EXTENDS Naturals, Sequences, SequencesExt, FiniteSetsExt

Endings == {"eof", "timeout", "dropped", "cancelled"}

(* _raise_for_status.                                                      *)
StatusError(status) ==
    CASE status < 400           -> "none"
      [] status \in {401, 403}  -> "authentication"
      [] status = 429           -> "rate_limited"
      [] status >= 500          -> "unavailable"
      [] OTHER                  -> "rejected"

Retryable(code) == code \in {"timeout", "rate_limited", "unavailable"}

(* What a line is: nothing for the reader (blank, a comment, another       *)
(* field), the end, not a JSON object, an error, no list of choices, text. *)
Kinds == {"skip", "[DONE]", "not_json", "error", "no_choices", "text"}
Stops == Kinds \ {"skip", "text"}

(* How a line or an ending ends the stream.                                *)
Verdict(k) ==
    CASE k \in {"[DONE]", "eof"}           -> "complete"
      [] k = "error"                       -> "rejected"
      [] k \in {"not_json", "no_choices"}  -> "protocol"
      [] k = "dropped"                     -> "unavailable"
      [] OTHER                             -> k

(* The texts of the choices of a line; an empty one is not yielded.        *)
Deltas(line) == SelectSeq(line[2], LAMBDA d : d # "")

(* stream: what was yielded, in order, and how it ended.  Of a refused     *)
(* request no line is read.                                                *)
ReadStream(status, lines, ending) ==
    LET stops  == {i \in DOMAIN lines : lines[i][1] \in Stops}
        read   == IF stops = {} THEN lines ELSE SubSeq(lines, 1, Min(stops) - 1)
        deltas == FlattenSeq([i \in DOMAIN read |-> Deltas(read[i])])
    IN  IF StatusError(status) # "none"
        THEN [text |-> <<>>, end |-> IF ending = "cancelled" THEN ending ELSE StatusError(status)]
        ELSE [text |-> deltas,
              end |-> Verdict(IF stops = {} THEN ending ELSE lines[Min(stops)][1])]

(* complete: one body instead of lines; its first choice must hold a text. *)
ReadBody(status, body, ending) ==
    CASE ending # "eof"                 -> [text |-> <<>>, end |-> Verdict(ending)]
      [] StatusError(status) # "none"   -> [text |-> <<>>, end |-> StatusError(status)]
      [] body[1] = "text"               -> [text |-> body[2], end |-> "complete"]
      [] body[1] = "error"              -> [text |-> <<>>, end |-> "rejected"]
      [] OTHER                          -> [text |-> <<>>, end |-> "protocol"]
=============================================================================
