CONSTANTS
    Edited = {"server_url", "state_dir", "identity_dir", "bundle_signing_public_key",
              "allow_insecure_tls", "tls_ca_path", "heartbeat_interval", "log_level", "poll_jitter_ratio"}
    MaxEdits = 2
SPECIFICATION FairSpec
INVARIANTS TalksToEnrolledServer
PROPERTIES PinIsKept RepairedGetsInService
