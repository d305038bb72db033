--------------------------- MODULE PasswordPolicy ----------------------------
(***************************************************************************)
(* The password policy: what assess_password finds in a password, and what *)
(* validate_new_password says of a password and its confirmation.          *)
(***************************************************************************)
EXTENDS Naturals

CONSTANTS
    Passwords,      \* what can be typed
    LengthOf,       \* in characters
    ScoreOf,        \* the score zxcvbn gives, 0 to 4
    MinLength,      \* MIN_LENGTH (12)
    RequiredScore   \* REQUIRED_SCORE (3)

ASSUME PolicyAssumption ==
    /\ LengthOf \in [Passwords -> Nat]
    /\ ScoreOf \in [Passwords -> 0..4]
    /\ MinLength \in Nat /\ RequiredScore \in 0..4

\* assess_password
MeetsMinLength(p) == LengthOf[p] >= MinLength
MeetsScoreThreshold(p) == ScoreOf[p] >= RequiredScore

\* PasswordAssessment::is_acceptable
IsAcceptable(p) == MeetsMinLength(p) /\ MeetsScoreThreshold(p)

\* validate_new_password: the first rule that is violated.
Validate(p, confirmation) ==
    IF ~MeetsMinLength(p) THEN "TooShort"
    ELSE IF ~MeetsScoreThreshold(p) THEN "TooWeak"
    ELSE IF p # confirmation THEN "ConfirmationMismatch" ELSE "Ok"
=============================================================================
