--------------------------- MODULE MCAttestation ----------------------------
(***************************************************************************)
(* A small instance of Attestation: a root, an intermediate and a device   *)
(* certificate that lapses at time 1, and requests that carry the chain or *)
(* the root in the place of the other two, so that slots filled by several *)
(* submissions make up good chains and bad ones.                           *)
(***************************************************************************)
EXTENDS Attestation

Cert(serial, subject, issuer, from, to, uses) ==
    [serial |-> serial, subject |-> subject, issuer |-> issuer,
     from |-> from, to |-> to, uses |-> uses]

CA == {"sign", "serverAuth"}
EndEntity == {"serverAuth"}

Root  == Cert(1, "root", "root", 0, 1, CA)
Inter == Cert(2, "inter", "root", 0, 1, CA)
Leaf  == Cert(3, "leaf", "inter", 0, 0, EndEntity)

MCPems == {Root, Inter, Leaf}

Bundle(dac, pai, paa) == [DAC |-> dac, PAI |-> pai, PAA |-> paa]

Bundles == {Bundle(Leaf, Inter, Root), Bundle(Root, Root, None)}

MCRequests == {[device |-> d, certs |-> b] : d \in Devices, b \in Bundles}

=============================================================================
