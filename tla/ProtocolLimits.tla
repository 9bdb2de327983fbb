--------------------------- MODULE ProtocolLimits ---------------------------
(* ProtocolLimits of models.py, which every decoder is given. *)
EXTENDS Integers

CONSTANTS
    MaxTotal,          \* max_segments
    MaxCompressed,     \* max_compressed_bytes
    MaxDecompressed,   \* max_decompressed_bytes
    MaxMembers,        \* max_zip_members
    MaxMemberBytes,    \* max_zip_member_bytes
    MaxRatio           \* max_compression_ratio

(* ProtocolLimits.__post_init__ *)
ASSUME LimitsPositive ==
    {MaxTotal, MaxCompressed, MaxDecompressed, MaxMembers, MaxMemberBytes, MaxRatio}
        \subseteq Nat \ {0}
ASSUME MemberWithinTotal == MaxMemberBytes <= MaxDecompressed
=============================================================================
