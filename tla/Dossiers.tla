-------------------------------- MODULE Dossiers --------------------------------
(***************************************************************************)
(* One as-built dossier: SigningService.createDossier, addDossierItems and *)
(* sealDossier over the tables of migration 017.  Sealing locks the        *)
(* dossier, reads its items, links them into a hash chain, awaits a time   *)
(* stamp of the last link, and only then writes the chain.                 *)
(*                                                                         *)
(* Nothing asks for the status before sealing, so a sealed dossier may be  *)
(* sealed again, and an empty one for the first time.                      *)
(***************************************************************************)
EXTENDS Naturals, FiniteSets

CONSTANTS Sealers,   \* bound: requests to seal under way at once
          Papers,    \* what an item is: its entity, its file and its hash
          MaxPlaces  \* bound: sequence numbers

VARIABLES dossier,   \* the row of as_built_dossiers: status and hash_chain
          contents,  \* dossier_items: the paper under each sequence number
          sealing    \* the chain that a request has computed and not written

dossierVars == <<dossier, contents, sealing>>

Places == 1..MaxPlaces
NoPapers == [n \in {} |-> {}]
Contents == UNION {[S -> Papers] : S \in SUBSET Places}
NoChain == <<>>
NotSealing == [at |-> "Idle", chain |-> NoChain]

DossiersInit ==
    /\ dossier = [status |-> "None", chain |-> NoChain]
    /\ contents = NoPapers
    /\ sealing = [s \in Sealers |-> NotSealing]

\* buildDossierHashChain: items in the order of their sequence numbers, each
\* link hashed over the one before, the paper and its number.  Two chains are
\* equal exactly when their links are, so a chain stands for its last hash.
RankOf(n, papers) == Cardinality({m \in DOMAIN papers : m <= n})
ItemAt(i, papers) == CHOOSE n \in DOMAIN papers : RankOf(n, papers) = i
Chain(papers) == [i \in 1..Cardinality(DOMAIN papers) |->
                    <<ItemAt(i, papers), papers[ItemAt(i, papers)]>>]

-----------------------------------------------------------------------------
CreateDossier ==
    /\ dossier.status = "None"   \* bound: one dossier
    /\ dossier' = [dossier EXCEPT !.status = "assembling"]
    /\ UNCHANGED <<contents, sealing>>

\* SELECT ... FOR UPDATE of the dossier's row, which sealing holds to its end.
RowIsHeld_Never == FALSE
RowIsHeld == \E s \in Sealers : sealing[s] # NotSealing

\* DOSSIER_NOT_MUTABLE
MayAdd == dossier.status = "assembling"

\* All items of a request or none: a number that is taken (UNIQUE) undoes it.
AddDossierItems(papers) ==
    /\ ~RowIsHeld /\ MayAdd
    /\ DOMAIN papers \cap DOMAIN contents = {}
    /\ contents' = [n \in DOMAIN contents \cup DOMAIN papers |->
                      IF n \in DOMAIN papers THEN papers[n] ELSE contents[n]]
    /\ UNCHANGED <<dossier, sealing>>

StartSeal(s) ==
    /\ dossier.status # "None"
    /\ ~RowIsHeld /\ sealing[s] = NotSealing
    /\ sealing' = [sealing EXCEPT ![s] = [at |-> "Stamping", chain |-> Chain(contents)]]
    /\ UNCHANGED <<dossier, contents>>

CompleteSeal(s) ==
    /\ sealing[s] # NotSealing
    /\ dossier' = [status |-> "sealed", chain |-> sealing[s].chain]
    /\ sealing' = [sealing EXCEPT ![s] = NotSealing]
    /\ UNCHANGED contents

\* The time stamp authority refuses or does not answer, or the request dies.
SealFails(s) ==
    /\ sealing[s] # NotSealing
    /\ sealing' = [sealing EXCEPT ![s] = NotSealing]
    /\ UNCHANGED <<dossier, contents>>

DossiersNext ==
    \/ CreateDossier
    \/ \E papers \in Contents \ {NoPapers} : AddDossierItems(papers)
    \/ \E s \in Sealers : StartSeal(s) \/ CompleteSeal(s) \/ SealFails(s)

DossiersSpec == DossiersInit /\ [][DossiersNext]_dossierVars

-----------------------------------------------------------------------------
Chains == {NoChain} \cup {Chain(papers) : papers \in Contents}

\* Items are what requests can have added, and chains those of some items.
DossiersTypeOK ==
    /\ dossier \in [status : {"None", "assembling", "sealed"}, chain : Chains]
    /\ contents \in Contents
    /\ sealing \in [Sealers -> [at : {"Idle", "Stamping"}, chain : Chains]]

\* The chain of a sealed dossier is that of all the items it has, for good
\* (ADR-015, 2.6: "Tamper-evident Digital Dossier"): none was added while the
\* time stamp was awaited, none is added later, and sealing the dossier once
\* more gives the hash it already has.
SealCoversItems ==
    dossier.status = "sealed" => dossier.chain = Chain(contents)

\* The seal is final: whatever was under way when the dossier was sealed, and
\* however often it is sealed again, neither its items nor its chain change.
SealIsFinal ==
    [][dossier.status = "sealed" => UNCHANGED <<dossier, contents>>]_dossierVars
=================================================================================
