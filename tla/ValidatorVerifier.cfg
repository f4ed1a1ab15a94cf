CONSTANTS
    Addresses = {a1, a2, a3, a4}
    MaxPower = 4

SPECIFICATION Reconfigurations

INVARIANTS
    QuorumsShareHonest
    HonestFormQuorum
