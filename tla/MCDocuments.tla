----------------------------- MODULE MCDocuments -----------------------------
(***************************************************************************)
(* Quotations, and beside them Contracts, PublicLinks and DocumentNumbers, *)
(* for TLC in one run.  They are different columns and tables and no       *)
(* module here writes another's, so each has its whole history while the   *)
(* others rest in their initial states.                                    *)
(***************************************************************************)
EXTENDS Quotations, TLC

CONSTANTS
  Paper, Body,         \* Contracts
  Doc, Token, Horizon, \* PublicLinks
  Series, InTx, Pool, Base, Wrap, Limit  \* DocumentNumbers

VARIABLES
  papers, paperIssued, files, paperTask, paperSent, signed, paperMishap,
  docs, minted, linkTask, clock,
  numbers, create, overlapped

paperVars == <<papers, paperIssued, files, paperTask, paperSent, signed, paperMishap>>
linkVars == <<docs, minted, linkTask, clock>>
seriesVars == <<numbers, create, overlapped>>

C == INSTANCE Contracts WITH Contract <- Paper, table <- papers, issued <- paperIssued,
                             task <- paperTask, sent <- paperSent, mishap <- paperMishap
P == INSTANCE PublicLinks WITH task <- linkTask
N == INSTANCE DocumentNumbers

ASSUME DocumentsAssumption == C!ContractsAssumption /\ P!LinksAssumption /\ N!NumbersAssumption

DocumentsInit == Init /\ C!Init /\ P!Init /\ N!Init

DocumentsNext ==
  \/ C!Init /\ P!Init /\ N!Init /\ Next /\ UNCHANGED <<paperVars, linkVars, seriesVars>>
  \/ Init /\ P!Init /\ N!Init /\ C!Next /\ UNCHANGED <<vars, linkVars, seriesVars>>
  \/ Init /\ C!Init /\ N!Init /\ P!Next /\ UNCHANGED <<vars, paperVars, seriesVars>>
  \/ Init /\ C!Init /\ P!Init /\ N!Next /\ UNCHANGED <<vars, paperVars, linkVars>>

DocumentsSpec == DocumentsInit /\ [][DocumentsNext]_<<vars, paperVars, linkVars, seriesVars>>

Symmetry == UNION {Permutations(S) : S \in {Handler, Terms, Invoice, Contract}}

\* A bound of the run: a deleted quotation that an outdated save brought back
\* without its line items is checked, and not followed further.
HollowBound == \A q \in Quotation : Exists(q) => table[q].items # None

-----------------------------------------------------------------------------
(* The properties of the modules beside Quotations, explained there.         *)

\* Contracts: what a client decides on was sent as it stands.
DecidedOnSentText == C!DecidedOnSentText

\* Contracts: the stored copy is of a text the client signed.
StoredCopyWasSigned == C!StoredCopyWasSigned

\* Contracts: signing leads to a stored copy, mishaps aside.
SignedGetsItsCopy == C!SignedGetsItsCopy

\* Contracts: steps on current rows follow the class comment's lifecycle.
ContractLifecycle == C!FollowsLifecycle

\* Public links: a link that stopped working stays so.
ClosedStaysClosed == P!ClosedStaysClosed

\* Public links: a working link stops only for a reason.
OpenStaysOpen == P!OpenStaysOpen

\* Document numbers: a creation is refused only for an overlap or a number MAX
\* does not see.
RejectedForOverlap == N!RejectedForOverlap
=============================================================================
