----------------------------- MODULE TrustDoubt -----------------------------
(***************************************************************************)
(* What the trust layer promises about a verdict: the rules judge once,    *)
(* and whatever is said afterwards can only add doubt.                     *)
(***************************************************************************)
EXTENDS Naturals

VARIABLES
    confidence,  \* "unjudged", "answer", "answer_with_caveats" or "abstain"
    objections,  \* the checks that block
    disclosed,   \* what the user must be told
    refusals     \* why nothing is answered

doubtVars == <<confidence, objections, disclosed, refusals>>

DoubtRank == [answer |-> 1, answer_with_caveats |-> 2, abstain |-> 3]

Coherent(c, o, d, r) ==
    /\ o # {} => c = "abstain"
    /\ c = "abstain" => r # {}
    /\ c = "answer_with_caveats" => d # {}
    /\ c = "answer" => d = {}

DoubtInit ==
    confidence = "unjudged" /\ objections = {} /\ disclosed = {} /\ refusals = {}

Judge ==
    /\ confidence = "unjudged"
    /\ confidence' \in DOMAIN DoubtRank
    /\ Coherent(confidence', objections', disclosed', refusals')

AddDoubt ==
    /\ confidence # "unjudged"
    /\ confidence' \in DOMAIN DoubtRank
    /\ DoubtRank[confidence'] >= DoubtRank[confidence]
    /\ disclosed \subseteq disclosed' /\ refusals \subseteq refusals'
    /\ Coherent(confidence', objections', disclosed', refusals')
    /\ UNCHANGED objections

DoubtNext == Judge \/ AddDoubt

DoubtSpec == DoubtInit /\ [][DoubtNext]_doubtVars
=============================================================================
