--------------------------- MODULE CustomerForms ---------------------------
(***************************************************************************)
(* What a customer is asked for: the profile and address drafts kept in    *)
(* state_data, and the question that comes next.  A text the customer      *)
(* gives is only "there" or "not there".                                   *)
(***************************************************************************)
EXTENDS Naturals, Sequences, FiniteSets

CONSTANT FieldOrder   \* address fields, in the order missing ones are asked

Fields == {FieldOrder[i] : i \in DOMAIN FieldOrder}
Contact == {"name", "email", "phone"}

\* Fields that must be on a list the shop knows.
Listed == Fields \intersect {"country", "state"}

ASSUME FieldAssumption ==
    /\ FieldOrder \in Seq({"country", "state", "zip", "city", "street"})
    /\ FieldOrder # << >>
    /\ \A i, j \in DOMAIN FieldOrder : FieldOrder[i] = FieldOrder[j] => i = j

\* What happens when a form is complete: nothing (no draft), check out, or
\* go back to the profile.
Resumes == {"none", "cart", "profile_view"}

ProfileDrafts == [resume: Resumes, have: SUBSET Contact, saved: SUBSET Contact]
NoProfileDraft == [resume |-> "none", have |-> {}, saved |-> {}]

\* _next_missing_step
NextMissingIgnoresPhone(have) ==                \* mutant: the phone is optional
    IF "name" \notin have THEN "ask_name"
    ELSE IF "email" \notin have THEN "ask_email" ELSE "complete"
NextMissing(have) ==
    IF "name" \notin have THEN "ask_name"
    ELSE IF "email" \notin have THEN "ask_email"
    ELSE IF "phone" \notin have THEN "ask_phone"
    ELSE "complete"
Asked(step) == CASE step = "ask_name" -> "name"
                 [] step = "ask_email" -> "email"
                 [] OTHER -> "phone"

\* An address as stored: a dict that may be empty (not given), and the
\* fields of it that have a value.
Addresses == [given: BOOLEAN, has: SUBSET Fields]
NoAddress == [given |-> FALSE, has |-> {}]
WholeAddress == [given |-> TRUE, has |-> Fields]

AddressDrafts == [resume: Resumes, who: SUBSET Contact, address: Addresses,
                  missing: SUBSET Fields]
NoAddressDraft == [resume |-> "none", who |-> {}, address |-> NoAddress, missing |-> {}]

\* parse_free_text_address peels fields off the end of the message: a street
\* is what is left over before a city.  Any text may hold any such set; a
\* word or a button's caption is one segment, taken for the city.
Parses(free) ==
    IF free THEN {has \in SUBSET Fields : "street" \in has => Fields \intersect {"city"} \subseteq has}
    ELSE {Fields \intersect {"city"}}

\* ask_missing_<field>, written as the field itself
FirstMissing(missing) ==
    FieldOrder[CHOOSE i \in DOMAIN FieldOrder :
                 /\ FieldOrder[i] \in missing
                 /\ \A j \in DOMAIN FieldOrder : FieldOrder[j] \in missing => i <= j]

Parsed(d, has) ==
    [d EXCEPT !.address = [given |-> TRUE, has |-> has], !.missing = Fields \ has]
SuppliedEnds(d, f) ==                           \* mutant: one answer ends the questions
    [d EXCEPT !.address = [given |-> TRUE, has |-> @.has \union {f}], !.missing = {}]
Supplied(d, f) ==
    [d EXCEPT !.address = [given |-> TRUE, has |-> @.has \union {f}], !.missing = @ \ {f}]

=============================================================================
