\* What the comment on mount_ubifs_multi_mount_options promises, with mdev
\* trailing the script by less than the time wait_on_file allows.
SPECIFICATION Spec
CONSTANTS
    MaxFaults = 0
    MaxBoots = 0
PROPERTIES
    RetryKeepsData
CHECK_DEADLOCK FALSE
