----------------------------- MODULE MCExporter -----------------------------
EXTENDS Exporter

CONSTANTS c1, c2

MCClients == {c1, c2}

At(source, n) == [source |-> source, n |-> n]

\* Two chassis, and one resource of each other kind the conversion tells apart.
MCLeaves ==
    <<At("environment", 1), At("environment", 2), At("integrity", 1), At("network", 1)>>

MCHistories == {[g \in 0..1 |-> IF g = 0 THEN a ELSE b] : a \in {"on", "missing"}, b \in {"off"}}
=============================================================================
